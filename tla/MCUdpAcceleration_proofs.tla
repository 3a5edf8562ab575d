---------------------- MODULE MCUdpAcceleration_proofs ----------------------
(***************************************************************************)
(* Proofs about UDP acceleration (softether_rudp.c), for any number of     *)
(* threads that use and destroy the context and for any timeouts, windows  *)
(* and limits: the safety properties of MCUdpAcceleration.tla.             *)
(*                                                                         *)
(* The parts share no state of the model, so the invariant is one of each  *)
(* (AccelerationInv) and a step of one leaves the others' alone (OnePart). *)
(***************************************************************************)
EXTENDS MCUdpAcceleration, FiniteSetTheorems, TLAPS

\* What the constants are, as the provers use it.
LEMMA Numbers ==
    /\ CwinStart \in Nat /\ CwinMin \in Nat /\ CwinMax \in Nat /\ CwinGrow \in Nat
    /\ CwinStart > 0 /\ CwinMin > 0 /\ CwinGrow > 0
    /\ CwinStart <= CwinMax /\ CwinMin <= CwinMax
    /\ MaxBlock \in Nat /\ RecvQueueSize \in Nat
    /\ OverflowThreshold \in Nat /\ OverflowThreshold > 0
    /\ SuspendTicks \in Nat /\ SuspendTicks > 0 /\ CleanReset \in Nat /\ CleanReset > 0
    /\ KaTimeout \in Nat /\ KaMin \in Nat /\ KaMax \in Nat /\ KaMin > 0 /\ KaMax > 0
    /\ RequireContinuous \in Nat /\ RequireContinuous > 0
    /\ WindowSize \in Nat /\ WindowSize > 0
    /\ PeerTickLossGap \in Nat /\ MaxClock \in Nat /\ MaxClock > 0
BY UdpAccelerationAssumption

-----------------------------------------------------------------------------
(***************************************************************************)
(* The judgement of the path.  A path that is used was heard within the    *)
(* keepalive timeout; then reception has been stable since the tick        *)
(* recorded (Stable), and that tick is no earlier than the end of the last *)
(* silence.  What the peer echoed it has received (Echoes), and an echo    *)
(* too old when it came did not count as reception.                        *)
(***************************************************************************)

\* The tick of stable reception is there as long as the path is alive, and the
\* last silence ended before it.
Stable ==
    /\ last_recv_tick # 0 /\ last_recv_tick + KaTimeout >= now =>
         first_stable_receive_tick # 0
    /\ first_stable_receive_tick # 0 =>
         last_recv_tick # 0 /\ steady <= first_stable_receive_tick

\* Ticks of ours in datagrams and in the context are ticks the peer received.
Echoes ==
    /\ \A d \in flight : d.my <= clock /\ d.your <= peerSaw
    /\ last_recv_my_tick <= peerSaw
    /\ peerSaw <= sent
    /\ last_recv_tick # 0 => last_recv_my_tick + WindowSize >= last_recv_tick

ReceptionInv == Reception!TypeOK /\ Stable /\ Echoes

\* The larger of two ticks.
LEMMA Larger ==
    ASSUME NEW a \in Int, NEW b \in Int
    PROVE  /\ Reception!Max({a, b}) \in {a, b}
           /\ Reception!Max({a, b}) >= a /\ Reception!Max({a, b}) >= b
<1>1. \E x \in {a, b} : \A y \in {a, b} : x >= y
    OBVIOUS
<1> QED BY <1>1 DEF Reception!Max

\* Nothing was sent or received yet.
LEMMA ReceptionStart == Reception!Init => ReceptionInv
<1> SUFFICES ASSUME Reception!Init PROVE ReceptionInv
    OBVIOUS
<1> USE Numbers DEF Reception!Init
<1>1. Stable /\ Echoes
    BY DEF Stable, Echoes
<1>2. next_send_keepalive \in 0..(clock + KaMax - 1)
    OBVIOUS
<1>3. ready \in BOOLEAN
    OBVIOUS
<1>4. /\ clock \in 1..MaxClock /\ now \in 1..MaxClock /\ now <= clock
      /\ {last_recv_tick, first_stable_receive_tick, last_recv_my_tick,
          last_recv_your_tick, last_peer_tick_seen, steady, sent, peerSaw} \subseteq 0..clock
    OBVIOUS
<1>5. flight \subseteq Reception!Datagrams
    OBVIOUS
<1> HIDE DEF Reception!Init
<1> QED BY <1>1, <1>2, <1>3, <1>4, <1>5 DEF ReceptionInv, Reception!TypeOK, Reception!Ticks

USE DEF ReceptionInv, Reception!TypeOK, Reception!Ticks, Reception!Datagrams, Stable, Echoes,
        Reception!recvVars, Reception!netVars

\* The clock, the peer and the network.
LEMMA PeerKeeps ==
    ASSUME ReceptionInv,
           \/ Reception!TimePasses \/ Reception!PeerReceives \/ Reception!PeerSends
           \/ Reception!Lose
    PROVE  ReceptionInv'
<1> USE Numbers
<1>1. CASE Reception!TimePasses
    BY <1>1 DEF Reception!TimePasses
<1>2. CASE Reception!PeerReceives
    BY <1>2 DEF Reception!PeerReceives
<1>3. CASE Reception!PeerSends
    BY <1>3 DEF Reception!PeerSends
<1>4. CASE Reception!Lose
    BY <1>4 DEF Reception!Lose
<1> QED BY <1>1, <1>2, <1>3, <1>4

\* A keepalive goes out now, and the next one is due within the interval.
LEMMA KeepaliveKeeps ==
    ASSUME ReceptionInv, Reception!Keepalive
    PROVE  /\ sent' \in {sent, clock}
           /\ next_send_keepalive' \in 0..(clock + KaMax - 1)
<1> USE Numbers
<1>1. CASE next_send_keepalive = 0 \/ next_send_keepalive <= clock
    BY <1>1 DEF Reception!Keepalive
<1>2. CASE ~(next_send_keepalive = 0 \/ next_send_keepalive <= clock)
    BY <1>2 DEF Reception!Keepalive
<1> QED BY <1>1, <1>2

\* A poll without a datagram notices a silence.
LEMMA PollNothingKeeps ==
    ASSUME ReceptionInv, Reception!PollNothing
    PROVE  ReceptionInv'
BY Numbers, KeepaliveKeeps DEF Reception!PollNothing, Reception!StableAfterSilence

\* A datagram within the window.
LEMMA PollDatagramKeeps ==
    ASSUME ReceptionInv, NEW d \in flight, Reception!PollDatagram(d)
    PROVE  ReceptionInv'
<1> USE Numbers
<1> DEFINE my == Reception!Max({d.your, last_recv_my_tick})
           peer == Reception!Max({d.my, last_recv_your_tick})
<1>1. /\ d.my \in 1..MaxClock /\ d.your \in 0..MaxClock
      /\ d.my <= clock /\ d.your <= peerSaw /\ d.your <= clock
    OBVIOUS
<1>2. my \in {d.your, last_recv_my_tick} /\ my >= last_recv_my_tick
  <2>1. d.your \in Int /\ last_recv_my_tick \in Int
      BY <1>1
  <2> HIDE DEF ReceptionInv
  <2> QED BY <2>1, Larger
<1>3. peer \in {d.my, last_recv_your_tick}
  <2>1. d.my \in Int /\ last_recv_your_tick \in Int
      BY <1>1
  <2> HIDE DEF ReceptionInv
  <2> QED BY <2>1, Larger
<1>4. /\ last_recv_my_tick' = my /\ last_recv_your_tick' = peer
      /\ last_peer_tick_seen' = d.my /\ now' = clock
      /\ UNCHANGED <<clock, peerSaw, ready>>
      /\ flight' \subseteq flight
    BY DEF Reception!PollDatagram
<1>5. sent' \in {sent, clock} /\ next_send_keepalive' \in 0..(clock + KaMax - 1)
    BY KeepaliveKeeps DEF Reception!PollDatagram
<1> HIDE DEF my, peer
<1>6. CASE Reception!EchoIsRecent(d)
  <2>1. /\ my # 0 /\ my + WindowSize >= clock
        /\ last_recv_tick' = clock
        /\ first_stable_receive_tick' =
             IF Reception!StableAfterSilence = 0 THEN clock ELSE Reception!StableAfterSilence
        /\ steady' = IF last_recv_tick # 0 /\ last_recv_tick + KaTimeout >= clock
                       THEN steady ELSE clock
      BY <1>6 DEF Reception!EchoIsRecent, Reception!PollDatagram, my
  <2> QED BY <1>1, <1>2, <1>3, <1>4, <1>5, <2>1 DEF Reception!StableAfterSilence
<1>7. CASE ~Reception!EchoIsRecent(d)
  <2>1. /\ first_stable_receive_tick' = Reception!StableAfterSilence
        /\ UNCHANGED <<last_recv_tick, steady>>
      BY <1>7 DEF Reception!PollDatagram
  <2> QED BY <1>1, <1>2, <1>3, <1>4, <1>5, <2>1 DEF Reception!StableAfterSilence
<1> QED BY <1>6, <1>7

\* Asking and sending, against the time of the last poll or send.
LEMMA SenderOfReceptionKeeps ==
    ASSUME ReceptionInv, Reception!IsSendReady \/ Reception!SendData
    PROVE  ReceptionInv'
<1> USE Numbers
<1>1. CASE Reception!IsSendReady
    BY <1>1 DEF Reception!IsSendReady
<1>2. CASE Reception!SendData
  <2>1. /\ now' = clock /\ sent' = clock /\ ready' = FALSE
        /\ UNCHANGED <<clock, last_recv_tick, first_stable_receive_tick, last_recv_my_tick,
                       last_recv_your_tick, last_peer_tick_seen, steady,
                       next_send_keepalive, peerSaw, flight>>
      BY <1>2 DEF Reception!SendData
  <2>2. Reception!TypeOK'
    <3>1. ready' \in BOOLEAN
        BY <2>1
    <3>2. /\ clock' \in Reception!Ticks /\ now' \in Reception!Ticks /\ now' <= clock'
          /\ {last_recv_tick, first_stable_receive_tick, last_recv_my_tick,
              last_recv_your_tick, last_peer_tick_seen, steady, sent, peerSaw}'
               \subseteq 0..clock'
        BY <2>1
    <3>3. next_send_keepalive' \in 0..(clock' + KaMax - 1) /\ flight' \subseteq Reception!Datagrams
        BY <2>1
    <3> HIDE DEF Reception!Ticks, Reception!Datagrams
    <3> QED BY <3>1, <3>2, <3>3
  <2>3. Stable'
      BY <2>1
  <2>4. Echoes'
      BY <2>1
  <2> QED BY <2>2, <2>3, <2>4
<1> QED BY <1>1, <1>2

\* Polls, sends and datagrams interleave in any order.
LEMMA ReceptionStep ==
    ASSUME ReceptionInv, Reception!Next \/ UNCHANGED receptionVars
    PROVE  ReceptionInv'
<1>1. CASE UNCHANGED receptionVars
    BY <1>1 DEF receptionVars
<1> QED BY <1>1, PeerKeeps, PollNothingKeeps, PollDatagramKeeps, SenderOfReceptionKeeps
        DEF Reception!Next

\* A sender is told to use UDP only then.
LEMMA BecomingReady ==
    ASSUME ReceptionInv, Reception!Next, ~ready, ready'
    PROVE  /\ last_recv_tick + KaTimeout >= now /\ steady + RequireContinuous <= now
           /\ peerSaw + WindowSize + KaTimeout >= now
<1>1. Reception!IsSendReady
    BY DEF Reception!Next, Reception!TimePasses, Reception!PeerReceives, Reception!PeerSends,
           Reception!Lose, Reception!PollNothing, Reception!PollDatagram, Reception!SendData
<1>2. /\ last_recv_tick # 0 /\ last_recv_tick + KaTimeout >= now
      /\ first_stable_receive_tick + RequireContinuous <= now
    BY <1>1 DEF Reception!IsSendReady
<1> QED BY <1>2, Numbers

\* Only a datagram within the window is taken.
LEMMA TakingADatagram ==
    ASSUME ReceptionInv, Reception!Next, last_peer_tick_seen' # last_peer_tick_seen
    PROVE  last_peer_tick_seen' > last_recv_your_tick - WindowSize
<1>1. PICK d \in flight : Reception!PollDatagram(d)
    BY DEF Reception!Next, Reception!TimePasses, Reception!PeerReceives, Reception!PeerSends,
           Reception!Lose, Reception!PollNothing, Reception!IsSendReady, Reception!SendData
<1>2. last_peer_tick_seen' = d.my /\ ~Reception!TooOld(d) /\ d.my \in Int
    BY <1>1 DEF Reception!PollDatagram
<1> QED BY <1>2, Numbers DEF Reception!TooOld

HIDE DEF ReceptionInv, Reception!TypeOK, Reception!Ticks, Reception!Datagrams, Stable, Echoes,
         Reception!recvVars, Reception!netVars
-----------------------------------------------------------------------------
(***************************************************************************)
(* The send budget.  A loss between rudp_is_send_ready and rudp_send       *)
(* halves the window but never closes it, so a sender that was told to use *)
(* UDP finds budget (ReadyHasBudget is inductive).  The length of the next *)
(* suspension is computed from the count of suspensions; that it is twice  *)
(* the last one needs the count and the last length to agree (Lengths).    *)
(***************************************************************************)

\* The last suspension was as long as the count of suspensions says.
Lengths ==
    /\ suspension_count = 1 => length = SuspendTicks
    /\ suspension_count = 2 => length = 2 * SuspendTicks
    /\ suspension_count = 3 => length = 4 * SuspendTicks
    /\ suspension_count = 4 => length = 8 * SuspendTicks

BudgetInv == Budget!TypeOK /\ Budget!ReadyHasBudget /\ Lengths

\* The bounds of the type invariant are numbers.
LEMMA BudgetBounds ==
    /\ Budget!MaxRefillAge \in Nat
    /\ Budget!MaxSuspension = 8 * SuspendTicks
    /\ Budget!NoLoss = -1
<1>1. 2^3 = 8
    OBVIOUS
<1>2. CwinMax \div CwinGrow \in Nat
    BY Numbers
<1> QED BY <1>1, <1>2, Numbers
        DEF Budget!MaxRefillAge, Budget!MaxSuspension, Budget!NoLoss

\* The window after a refill.
LEMMA RefilledBounds ==
    ASSUME Budget!TypeOK
    PROVE  Budget!Refilled \in 0..CwinMax
<1> USE Numbers
<1>1. CASE cwin_inited
  <2>1. PICK age \in Nat : refillAge = age
      BY BudgetBounds DEF Budget!TypeOK
  <2>2. CwinGrow * age \in Nat
      OBVIOUS
  <2>3. PICK more \in Nat : CwinGrow * refillAge = more
      BY <2>1, <2>2
  <2>4. cwin_bytes \in Nat
      BY DEF Budget!TypeOK
  <2> QED BY <1>1, <2>3, <2>4 DEF Budget!Refilled, Budget!Cap
<1>2. CASE ~cwin_inited
    BY <1>2 DEF Budget!Refilled
<1> QED BY <1>1, <1>2

\* How long the next suspension is.
LEMMA NextSuspension ==
    ASSUME Budget!TypeOK
    PROVE  /\ Budget!CountAfterClean \in 0..4
           /\ Budget!CountAfterClean = 0 => Budget!Suspension = SuspendTicks
           /\ Budget!CountAfterClean = 1 => Budget!Suspension = 2 * SuspendTicks
           /\ Budget!CountAfterClean = 2 => Budget!Suspension = 4 * SuspendTicks
           /\ Budget!CountAfterClean \in {3, 4} => Budget!Suspension = 8 * SuspendTicks
<1> USE Numbers
<1>1. 2^0 = 1 /\ 2^1 = 2 /\ 2^2 = 4 /\ 2^3 = 8
    OBVIOUS
<1>2. Budget!CountAfterClean \in 0..4
    BY DEF Budget!TypeOK, Budget!CountAfterClean
<1> DEFINE n == Budget!CountAfterClean
<1>3. /\ n = 0 => Budget!Cap(n, 3) = 0
      /\ n = 1 => Budget!Cap(n, 3) = 1
      /\ n = 2 => Budget!Cap(n, 3) = 2
      /\ n \in {3, 4} => Budget!Cap(n, 3) = 3
    BY <1>2 DEF Budget!Cap
<1>4. n = 0 => Budget!Suspension = SuspendTicks
  <2>1. n = 0 => Budget!Suspension = SuspendTicks * 2^0
      BY <1>3, Zenon DEF Budget!Suspension
  <2> HIDE DEF n
  <2> QED BY <1>1, <2>1
<1>5. n = 1 => Budget!Suspension = 2 * SuspendTicks
  <2>1. n = 1 => Budget!Suspension = SuspendTicks * 2^1
      BY <1>3, Zenon DEF Budget!Suspension
  <2> HIDE DEF n
  <2> QED BY <1>1, <2>1
<1>6. n = 2 => Budget!Suspension = 4 * SuspendTicks
  <2>1. n = 2 => Budget!Suspension = SuspendTicks * 2^2
      BY <1>3, Zenon DEF Budget!Suspension
  <2> HIDE DEF n
  <2> QED BY <1>1, <2>1
<1>7. n \in {3, 4} => Budget!Suspension = 8 * SuspendTicks
  <2>1. n \in {3, 4} => Budget!Suspension = SuspendTicks * 2^3
      BY <1>3, Zenon DEF Budget!Suspension
  <2> HIDE DEF n
  <2> QED BY <1>1, <2>1
<1> HIDE DEF n
<1> QED BY <1>2, <1>4, <1>5, <1>6, <1>7 DEF n

\* Nothing was sent, lost or suspended yet.
LEMMA BudgetStart == Budget!Init => BudgetInv
<1> SUFFICES ASSUME Budget!Init PROVE BudgetInv
    OBVIOUS
<1> USE Numbers, BudgetBounds DEF Budget!Init
<1>1. Budget!ReadyHasBudget /\ Lengths
    BY DEF Budget!ReadyHasBudget, Lengths
<1>2. cwin_inited \in BOOLEAN /\ udp_data_suspended \in BOOLEAN
    OBVIOUS
<1>3. Budget!TypeOK
    BY <1>2 DEF Budget!TypeOK
<1> QED BY <1>1, <1>3 DEF BudgetInv

USE DEF Budget!windowVars, Budget!suspendVars

\* A loss leaves the window open.
LEMMA LossKeepsWindow ==
    ASSUME Budget!TypeOK, Budget!OnLoss
    PROVE  cwin_bytes' \in 0..CwinMax /\ cwin_bytes' > 0
<1>1. PICK n \in Nat : cwin_bytes = n /\ n <= CwinMax
    BY Numbers DEF Budget!TypeOK
<1>2. PICK h \in Nat : n \div 2 = h /\ h <= n
    OBVIOUS
<1> QED BY <1>1, <1>2, Numbers DEF Budget!OnLoss

\* Time, and the receive thread.
LEMMA ReceiverKeeps ==
    ASSUME BudgetInv,
           \/ Budget!TimePasses \/ Budget!ReceiveTimeout \/ Budget!PeerTickGap
           \/ Budget!QueueBlock \/ Budget!QueueOverflow \/ Budget!RudpRecv
    PROVE  BudgetInv'
<1> USE Numbers, BudgetBounds DEF BudgetInv, Budget!TypeOK, Budget!ReadyHasBudget, Lengths
<1>1. CASE Budget!TimePasses
    BY <1>1 DEF Budget!TimePasses, Budget!Cap
<1>2. CASE Budget!ReceiveTimeout
    BY <1>2 DEF Budget!ReceiveTimeout
<1>3. CASE Budget!PeerTickGap
    BY <1>3, LossKeepsWindow DEF Budget!PeerTickGap, Budget!OnLoss
<1>4. CASE Budget!QueueBlock
    BY <1>4 DEF Budget!QueueBlock
<1>5. CASE Budget!QueueOverflow
    BY <1>5, LossKeepsWindow DEF Budget!QueueOverflow, Budget!OnLoss, Budget!Cap
<1>6. CASE Budget!RudpRecv
    BY <1>6 DEF Budget!RudpRecv
<1> QED BY <1>1, <1>2, <1>3, <1>4, <1>5, <1>6

\* Too many overflows, in no suspension and no clean period.
LEMMA Suspends ==
    ASSUME BudgetInv, Budget!AskSuspends
    PROVE  /\ ~udp_data_suspended /\ ~Budget!Clean
           /\ Budget!CountAfterClean = suspension_count
<1>1. ~(Budget!Clean \/ udp_data_suspended)
    BY Numbers DEF Budget!AskSuspends, Budget!OverflowsLeft
<1> QED BY <1>1 DEF Budget!CountAfterClean

\* The sender.
LEMMA SenderKeeps ==
    ASSUME BudgetInv, Budget!Sender
    PROVE  BudgetInv'
<1> USE Numbers, BudgetBounds
<1> USE DEF BudgetInv, Budget!TypeOK, Budget!ReadyHasBudget, Lengths, Budget!Refill
<1>1. CASE Budget!SenderPolls
    BY <1>1 DEF Budget!SenderPolls
<1>2. CASE Budget!AskSuspended
    BY <1>2, RefilledBounds DEF Budget!AskSuspended
<1>3. CASE Budget!AskSuspends
  <2>1. /\ Budget!CountAfterClean = suspension_count /\ ~udp_data_suspended
        /\ ~Budget!Clean
      BY <1>3, Suspends
  <2>2. /\ suspension_count' = IF suspension_count + 1 > 4 THEN 4 ELSE suspension_count + 1
        /\ length' = Budget!Suspension /\ resumeIn' = Budget!Suspension
        /\ recent_overflows' = recent_overflows
        /\ udp_data_suspended' = TRUE /\ senderPc' = "idle"
        /\ UNCHANGED <<lossAge, recv_queue_count>>
      BY <1>3, <2>1 DEF Budget!AskSuspends, Budget!Cap, Budget!OverflowsLeft
  <2> QED BY <1>3, <2>1, <2>2, RefilledBounds, NextSuspension DEF Budget!AskSuspends
<1>4. CASE Budget!Ask
  <2>1. /\ suspension_count' \in {0, suspension_count}
        /\ recent_overflows' \in {0, recent_overflows}
        /\ cwin_bytes' = Budget!Refilled /\ refillAge' = 0
        /\ UNCHANGED <<lossAge, resumeIn, length, recv_queue_count>>
      BY <1>4 DEF Budget!Ask, Budget!CountAfterClean, Budget!OverflowsLeft
  <2>2. /\ cwin_inited' = TRUE /\ udp_data_suspended' = FALSE
        /\ senderPc' \in {"idle", "ready"}
        /\ senderPc' = "ready" => Budget!Refilled > 0
      BY <1>4 DEF Budget!Ask
  <2>3. Budget!ReadyHasBudget' /\ Lengths'
      BY <2>1, <2>2
  <2>4. cwin_inited' \in BOOLEAN /\ udp_data_suspended' \in BOOLEAN
      BY <2>2
  <2>5. Budget!TypeOK'
      BY <2>1, <2>2, <2>4, RefilledBounds
  <2> QED BY <2>3, <2>5
<1>5. CASE Budget!Send
  <2>1. cwin_bytes' \in 0..CwinMax
      BY <1>5, RefilledBounds DEF Budget!Send
  <2>2. /\ refillAge' \in {0, refillAge} /\ senderPc' = "idle"
        /\ UNCHANGED <<lossAge, udp_data_suspended, resumeIn, suspension_count, length,
                       recent_overflows, recv_queue_count>>
      BY <1>5 DEF Budget!Send
  <2>3. cwin_inited' \in BOOLEAN /\ udp_data_suspended' \in BOOLEAN
      BY <1>5 DEF Budget!Send
  <2> QED BY <2>1, <2>2, <2>3
<1> QED BY <1>1, <1>2, <1>3, <1>4, <1>5 DEF Budget!Sender

\* The sender and the receive thread interleave in any order.
LEMMA BudgetStep ==
    ASSUME BudgetInv, Budget!Next \/ UNCHANGED budgetVars
    PROVE  BudgetInv'
<1>1. CASE UNCHANGED budgetVars
    BY <1>1 DEF budgetVars, BudgetInv, Budget!TypeOK, Budget!ReadyHasBudget, Lengths
<1> QED BY <1>1, ReceiverKeeps, SenderKeeps DEF Budget!Next

\* A suspension is twice as long as the one before, unless the count was reset,
\* which takes a clean period.
LEMMA NextBackoff ==
    ASSUME BudgetInv, Budget!Next
    PROVE  /\ ~udp_data_suspended /\ udp_data_suspended' =>
                length' = IF suspension_count = 0 THEN SuspendTicks
                          ELSE Budget!Cap(2 * length, Budget!MaxSuspension)
           /\ suspension_count' < suspension_count =>
                lossAge = CleanReset /\ ~udp_data_suspended
<1> USE Numbers, BudgetBounds
<1>1. CASE Budget!AskSuspends
  <2>1. Budget!CountAfterClean = suspension_count
      BY <1>1, Suspends
  <2>2. suspension_count \in 0..4 /\ length' = Budget!Suspension
      BY <1>1 DEF Budget!AskSuspends, BudgetInv, Budget!TypeOK
  <2>3. length' = IF suspension_count = 0 THEN SuspendTicks
                  ELSE Budget!Cap(2 * length, Budget!MaxSuspension)
      BY <2>1, <2>2, NextSuspension DEF BudgetInv, Lengths, Budget!Cap
  <2>4. suspension_count' \in Int /\ suspension_count' >= suspension_count
      BY <1>1, <2>1, <2>2 DEF Budget!AskSuspends, Budget!Cap
  <2> QED BY <2>2, <2>3, <2>4
<1>2. CASE Budget!Ask
    BY <1>2 DEF Budget!Ask, Budget!CountAfterClean, Budget!Clean, BudgetInv, Budget!TypeOK
<1>3. CASE ~Budget!AskSuspends /\ ~Budget!Ask
  <2>1. UNCHANGED <<udp_data_suspended, suspension_count>>
      BY <1>3 DEF Budget!Next, Budget!Sender, Budget!TimePasses, Budget!ReceiveTimeout,
             Budget!PeerTickGap, Budget!QueueBlock, Budget!QueueOverflow, Budget!RudpRecv,
             Budget!SenderPolls, Budget!AskSuspended, Budget!Send
  <2>2. suspension_count \in Int
      BY DEF BudgetInv, Budget!TypeOK
  <2> QED BY <2>1, <2>2
<1> QED BY <1>1, <1>2, <1>3

HIDE DEF Budget!windowVars, Budget!suspendVars
-----------------------------------------------------------------------------
(***************************************************************************)
(* The life of the context.  Its count is the references held (Count), and *)
(* a thread at a given step holds a known number of them (References): so  *)
(* the thread that takes the count to 0 is the last, and it is one         *)
(* (Freeing).  A call on a locked path cannot be where the context is      *)
(* taken out, because its lock holds up the disconnect (Locks, Teardown).  *)
(***************************************************************************)

\* The steps of callers and of destroyers.
Roles ==
    /\ \A t \in Callers :
         pc[t] \in {"idle", "lock", "read", "leave", "acquire", "flag", "cas", "recheck",
                    "body", "touch", "release", "final"}
    /\ \A t \in Destroyers :
         /\ pc[t] \in {"idle", "wrlock", "wmutex", "take", "destroy", "drop", "final", "done"}
         /\ refs[t] = 0 /\ path[t] = "none"

\* The references a caller holds at each step.
References ==
    \A t \in Callers :
        /\ pc[t] \in {"idle", "lock", "read", "leave", "touch", "final"} => refs[t] = 0
        /\ pc[t] \in {"acquire", "flag", "cas"} => refs[t] \in {0, 1}
        /\ pc[t] \in {"recheck", "body", "release"} => refs[t] \in {1, 2}
        /\ pc[t] \in {"flag", "cas"} => old[t] > 0

\* One disconnect runs, under connect_mutex; it frees the links, takes the
\* context out, announces its destruction and drops the owner's reference.
Teardown ==
    /\ \A t \in Destroyers :
         /\ pc[t] # "idle" => connect_mutex = t /\ state = "DISCONNECTING"
         /\ pc[t] = "wmutex" => writer /\ readers = {}
         /\ pc[t] \in {"wrlock", "wmutex", "take"} => rudp
         /\ pc[t] \in {"take", "destroy", "drop", "final", "done"} => ~ssl
         /\ pc[t] = "destroy" => ~rudp /\ ~destroying
         /\ pc[t] \in {"drop", "final", "done"} => destroying
    /\ state = "CONNECTED" => ssl
    /\ state = "DISCONNECTED" => destroying
    /\ ssl => rudp
    /\ rudp => ~destroying

\* What a caller inside a locked path has locked, and what is still there then.
Locks ==
    \A t \in Callers :
        /\ pc[t] = "lock" => path[t] \in {"send", "fill", "jni"}
        /\ pc[t] = "touch" => path[t] = "stats"
        /\ pc[t] \notin {"idle", "lock"} =>
             /\ path[t] # "none"
             /\ path[t] = "send" => write_mutex = t /\ (pc[t] # "leave" => ssl)
             /\ path[t] = "fill" => t \in readers /\ (pc[t] # "leave" => ssl)
             /\ path[t] = "jni" =>
                  connect_mutex = t /\ (pc[t] \notin {"read", "leave"} => rudp)

\* The count reaches 0 in one thread, which frees the context.
Freeing ==
    /\ \A t, u \in Callers \cup Destroyers : pc[t] = "final" /\ pc[u] = "final" => t = u
    /\ \A t \in Callers \cup Destroyers : pc[t] = "final" => refcount = 0 /\ freed = 0
    /\ freed # 0 => refcount = 0

\* The callers that hold n references or more.
Held(f, n) == Cardinality({t \in Callers : f[t] >= n})

\* rudp_destroy has dropped the owner's reference.
OwnerGone == destroying /\ \A t \in Destroyers : pc[t] # "drop"

Count ==
    /\ OwnerGone => refcount = Held(refs, 1) + Held(refs, 2)
    /\ ~OwnerGone => refcount = 1 + Held(refs, 1) + Held(refs, 2)

LifetimeInv ==
    /\ Lifetime!TypeOK
    /\ Roles
    /\ References
    /\ Teardown
    /\ Locks
    /\ Freeing
    /\ Count

\* The callers are finitely many, and nobody else.
LEMMA ThreadFacts ==
    /\ IsFiniteSet(Callers) /\ Callers \cap Destroyers = {}
    /\ Lifetime!Nobody \notin Callers /\ Lifetime!Nobody \notin Destroyers
    /\ Lifetime!Threads = Callers \cup Destroyers
BY UdpAccelerationAssumption DEF Lifetime!Nobody, Lifetime!Threads

\* A number of holders is a number, and 0 if there are none.
LEMMA HeldFacts ==
    ASSUME NEW f, NEW n \in {1, 2}
    PROVE  /\ Held(f, n) \in Nat
           /\ Held(f, n) = 0 <=> \A t \in Callers : ~(f[t] >= n)
<1> DEFINE S == {t \in Callers : f[t] >= n}
<1>1. IsFiniteSet(S)
    BY ThreadFacts, FS_Subset
<1>2. Cardinality(S) \in Nat /\ (Cardinality(S) = 0 <=> S = {})
    BY <1>1, FS_CardinalityType, FS_EmptySet
<1> QED BY <1>2 DEF Held

\* A reference more, or less, is one holder more, or less.
LEMMA OneMore ==
    ASSUME NEW f \in [Callers \cup Destroyers -> 0..2], NEW t \in Callers, f[t] \in {0, 1},
           NEW g, g = [f EXCEPT ![t] = @ + 1]
    PROVE  Held(g, 1) + Held(g, 2) = Held(f, 1) + Held(f, 2) + 1
<1> DEFINE F(n) == {u \in Callers : f[u] >= n}
           G(n) == {u \in Callers : g[u] >= n}
<1>1. \A n \in {1, 2} : IsFiniteSet(F(n))
    BY ThreadFacts, FS_Subset
<1>2. \A u \in Callers : g[u] = IF u = t THEN f[u] + 1 ELSE f[u]
    OBVIOUS
<1>3. CASE f[t] = 0
  <2>1. G(1) = F(1) \cup {t} /\ t \notin F(1) /\ G(2) = F(2)
      BY <1>2, <1>3
  <2>2. Cardinality(G(1)) = Cardinality(F(1)) + 1 /\ Cardinality(G(2)) = Cardinality(F(2))
      BY <1>1, <2>1, FS_AddElement
  <2> QED BY <2>2, HeldFacts DEF Held
<1>4. CASE f[t] = 1
  <2>1. G(2) = F(2) \cup {t} /\ t \notin F(2) /\ G(1) = F(1)
      BY <1>2, <1>4
  <2>2. Cardinality(G(2)) = Cardinality(F(2)) + 1 /\ Cardinality(G(1)) = Cardinality(F(1))
      BY <1>1, <2>1, FS_AddElement
  <2> QED BY <2>2, HeldFacts DEF Held
<1> QED BY <1>3, <1>4

\* The same, backwards.
LEMMA OneLess ==
    ASSUME NEW f \in [Callers \cup Destroyers -> 0..2], NEW t \in Callers, f[t] \in {1, 2},
           NEW g, g = [f EXCEPT ![t] = @ - 1]
    PROVE  Held(g, 1) + Held(g, 2) = Held(f, 1) + Held(f, 2) - 1
<1>1. g \in [Callers \cup Destroyers -> 0..2] /\ g[t] \in {0, 1}
    OBVIOUS
<1>2. f = [g EXCEPT ![t] = @ + 1]
  <2> DEFINE h == [g EXCEPT ![t] = @ + 1]
  <2>1. h \in [Callers \cup Destroyers -> Int] /\ f \in [Callers \cup Destroyers -> Int]
      BY <1>1
  <2>2. \A u \in Callers \cup Destroyers : h[u] = f[u]
      BY <1>1
  <2> HIDE DEF h
  <2>3. h = f
      BY <2>1, <2>2
  <2> QED BY <2>3 DEF h
<1>3. Held(f, 1) + Held(f, 2) = Held(g, 1) + Held(g, 2) + 1
    BY <1>1, <1>2, OneMore
<1> QED BY <1>3, HeldFacts
\* Nobody uses the context yet, and its owner has the one reference.
LEMMA LifetimeStart == Lifetime!Init => LifetimeInv
<1> SUFFICES ASSUME Lifetime!Init PROVE LifetimeInv
    OBVIOUS
<1> USE ThreadFacts DEF Lifetime!Init
<1>1. Held(refs, 1) = 0 /\ Held(refs, 2) = 0
    BY HeldFacts
<1>2. Count
    BY <1>1 DEF Count, OwnerGone
<1>3. Roles /\ References /\ Teardown /\ Locks /\ Freeing
    BY DEF Roles, References, Teardown, Locks, Freeing
<1>4. ssl \in BOOLEAN /\ rudp \in BOOLEAN /\ writer \in BOOLEAN /\ destroying \in BOOLEAN
    OBVIOUS
<1>5. Lifetime!TypeOK
    BY <1>4 DEF Lifetime!TypeOK, Lifetime!Touching
<1> QED BY <1>2, <1>3, <1>5 DEF LifetimeInv

USE ThreadFacts
USE DEF LifetimeInv, Lifetime!TypeOK, Lifetime!Touching, Roles, References, Teardown, Locks,
        Freeing, Lifetime!Goto, Lifetime!Alive, Lifetime!connVars, Lifetime!lockVars,
        Lifetime!ctxVars, Lifetime!Returned

\* A step that leaves the count and the references alone.
LEMMA CountRests ==
    ASSUME Count, UNCHANGED <<refcount, refs>>, OwnerGone' <=> OwnerGone
    PROVE  Count'
BY DEF Count

\* A caller sets out on a path.
LEMMA CallKeeps ==
    ASSUME LifetimeInv, NEW t \in Callers, Lifetime!Call(t)
    PROVE  LifetimeInv'
<1> USE DEF Lifetime!Call
<1>1. Lifetime!TypeOK'
    OBVIOUS
<1>2. Roles' /\ References'
    OBVIOUS
<1>3. Teardown'
    OBVIOUS
<1>4. Locks'
    OBVIOUS
<1>5. Freeing'
    OBVIOUS
<1>6. Count'
    BY CountRests DEF OwnerGone
<1> QED BY <1>1, <1>2, <1>3, <1>4, <1>5, <1>6

\* It takes the lock of its path and looks at the connection again: behind the
\* disconnect it leaves at once.
LEMMA EnterKeeps ==
    ASSUME LifetimeInv, NEW t \in Callers, Lifetime!Enter(t)
    PROVE  LifetimeInv'
<1> USE DEF Lifetime!Enter, Lifetime!TakeLock, Lifetime!Closed
<1>1. Lifetime!TypeOK'
    OBVIOUS
<1>2. Roles' /\ References'
    OBVIOUS
<1>3. Teardown'
    OBVIOUS
<1>4. Locks'
    OBVIOUS
<1>5. Freeing'
    OBVIOUS
<1>6. Count'
    BY CountRests DEF OwnerGone
<1> QED BY <1>1, <1>2, <1>3, <1>4, <1>5, <1>6

\* It reads conn->rudp.
LEMMA ReadPointerKeeps ==
    ASSUME LifetimeInv, NEW t \in Callers, Lifetime!ReadPointer(t)
    PROVE  LifetimeInv'
<1> USE DEF Lifetime!ReadPointer
<1>1. Lifetime!TypeOK'
    OBVIOUS
<1>2. Roles' /\ References'
    OBVIOUS
<1>3. Teardown'
    OBVIOUS
<1>4. Locks'
    OBVIOUS
<1>5. Freeing'
    OBVIOUS
<1>6. Count'
    BY CountRests DEF OwnerGone
<1> QED BY <1>1, <1>2, <1>3, <1>4, <1>5, <1>6

\* It unlocks and is gone.
LEMMA LeaveKeeps ==
    ASSUME LifetimeInv, NEW t \in Callers, Lifetime!Leave(t)
    PROVE  LifetimeInv'
<1> USE DEF Lifetime!Leave
<1>1. Lifetime!TypeOK'
    OBVIOUS
<1>2. Roles' /\ References'
    OBVIOUS
<1>3. Teardown'
    OBVIOUS
<1>4. Locks'
    OBVIOUS
<1>5. Freeing'
    OBVIOUS
<1>6. Count'
    BY CountRests DEF OwnerGone
<1> QED BY <1>1, <1>2, <1>3, <1>4, <1>5, <1>6

\* rudp_get_stats reads the counters.
LEMMA StatsReadKeeps ==
    ASSUME LifetimeInv, NEW t \in Callers, Lifetime!StatsRead(t)
    PROVE  LifetimeInv'
<1> USE DEF Lifetime!StatsRead
<1>1. Lifetime!TypeOK'
    OBVIOUS
<1>2. Roles' /\ References'
    OBVIOUS
<1>3. Teardown'
    OBVIOUS
<1>4. Locks'
    OBVIOUS
<1>5. Freeing'
    OBVIOUS
<1>6. Count'
    BY CountRests DEF OwnerGone
<1> QED BY <1>1, <1>2, <1>3, <1>4, <1>5, <1>6

\* rudp_ref_acquire reads the count.
LEMMA AcquireLoadKeeps ==
    ASSUME LifetimeInv, NEW t \in Callers, Lifetime!AcquireLoad(t)
    PROVE  LifetimeInv'
<1> USE DEF Lifetime!AcquireLoad
<1>1. Lifetime!TypeOK'
    OBVIOUS
<1>2. Roles' /\ References'
    OBVIOUS
<1>3. Teardown'
    OBVIOUS
<1>4. Locks'
    OBVIOUS
<1>5. Freeing'
    OBVIOUS
<1>6. Count'
    BY CountRests DEF OwnerGone
<1> QED BY <1>1, <1>2, <1>3, <1>4, <1>5, <1>6

\* It reads the flag.
LEMMA AcquireFlagKeeps ==
    ASSUME LifetimeInv, NEW t \in Callers, Lifetime!AcquireFlag(t)
    PROVE  LifetimeInv'
<1> USE DEF Lifetime!AcquireFlag
<1>1. Lifetime!TypeOK'
    OBVIOUS
<1>2. Roles' /\ References'
    OBVIOUS
<1>3. Teardown'
    OBVIOUS
<1>4. Locks'
    OBVIOUS
<1>5. Freeing'
    OBVIOUS
<1>6. Count'
    BY CountRests DEF OwnerGone
<1> QED BY <1>1, <1>2, <1>3, <1>4, <1>5, <1>6

\* It reads the flag again, with a reference.
LEMMA AcquireRecheckKeeps ==
    ASSUME LifetimeInv, NEW t \in Callers, Lifetime!AcquireRecheck(t)
    PROVE  LifetimeInv'
<1> USE DEF Lifetime!AcquireRecheck
<1>1. Lifetime!TypeOK'
    OBVIOUS
<1>2. Roles' /\ References'
    OBVIOUS
<1>3. Teardown'
    OBVIOUS
<1>4. Locks'
    OBVIOUS
<1>5. Freeing'
    OBVIOUS
<1>6. Count'
    BY CountRests DEF OwnerGone
<1> QED BY <1>1, <1>2, <1>3, <1>4, <1>5, <1>6

\* The call ends, or a poll calls rudp_send.
LEMMA BodyKeeps ==
    ASSUME LifetimeInv, NEW t \in Callers, Lifetime!Body(t)
    PROVE  LifetimeInv'
<1> USE DEF Lifetime!Body
<1>1. Lifetime!TypeOK'
    OBVIOUS
<1>2. Roles' /\ References'
    OBVIOUS
<1>3. Teardown'
    OBVIOUS
<1>4. Locks'
    OBVIOUS
<1>5. Freeing'
    OBVIOUS
<1>6. Count'
    BY CountRests DEF OwnerGone
<1> QED BY <1>1, <1>2, <1>3, <1>4, <1>5, <1>6

\* The first disconnect finds everything in place.
LEMMA DisconnectKeeps ==
    ASSUME LifetimeInv, NEW t \in Destroyers, Lifetime!Disconnect(t)
    PROVE  LifetimeInv'
<1> USE DEF Lifetime!Disconnect
<1>1. Lifetime!TypeOK'
    OBVIOUS
<1>2. Roles' /\ References'
    OBVIOUS
<1>3. Teardown'
    OBVIOUS
<1>4. Locks'
    OBVIOUS
<1>5. Freeing'
    OBVIOUS
<1>6. Count'
    BY CountRests DEF OwnerGone
<1> QED BY <1>1, <1>2, <1>3, <1>4, <1>5, <1>6

\* It waits for the readers.
LEMMA WriteLockKeeps ==
    ASSUME LifetimeInv, NEW t \in Destroyers, Lifetime!WriteLock(t)
    PROVE  LifetimeInv'
<1> USE DEF Lifetime!WriteLock
<1>1. Lifetime!TypeOK'
    OBVIOUS
<1>2. Roles' /\ References'
    OBVIOUS
<1>3. Teardown'
    OBVIOUS
<1>4. Locks'
    OBVIOUS
<1>5. Freeing'
    OBVIOUS
<1>6. Count'
    BY CountRests DEF OwnerGone
<1> QED BY <1>1, <1>2, <1>3, <1>4, <1>5, <1>6

\* It waits for the writers: nobody is inside "send" or "fill" any more.
LEMMA FreeLinksKeeps ==
    ASSUME LifetimeInv, NEW t \in Destroyers, Lifetime!FreeLinks(t)
    PROVE  LifetimeInv'
<1> USE DEF Lifetime!FreeLinks
<1>1. Lifetime!TypeOK'
    OBVIOUS
<1>2. Roles' /\ References'
    OBVIOUS
<1>3. Teardown'
    OBVIOUS
<1>4. Locks'
    OBVIOUS
<1>5. Freeing'
    OBVIOUS
<1>6. Count'
    BY CountRests DEF OwnerGone
<1> QED BY <1>1, <1>2, <1>3, <1>4, <1>5, <1>6

\* connect_mutex is its own: nobody is inside "jni" either.
LEMMA TakeContextKeeps ==
    ASSUME LifetimeInv, NEW t \in Destroyers, Lifetime!TakeContext(t)
    PROVE  LifetimeInv'
<1> USE DEF Lifetime!TakeContext
<1>1. Lifetime!TypeOK'
    OBVIOUS
<1>2. Roles' /\ References'
    OBVIOUS
<1>3. Teardown'
    OBVIOUS
<1>4. Locks'
    OBVIOUS
<1>5. Freeing'
    OBVIOUS
<1>6. Count'
    BY CountRests DEF OwnerGone
<1> QED BY <1>1, <1>2, <1>3, <1>4, <1>5, <1>6

\* The flag is set.
LEMMA DestroyKeeps ==
    ASSUME LifetimeInv, NEW t \in Destroyers, Lifetime!Destroy(t)
    PROVE  LifetimeInv'
<1> USE DEF Lifetime!Destroy
<1>1. Lifetime!TypeOK'
    OBVIOUS
<1>2. Roles' /\ References'
    OBVIOUS
<1>3. Teardown'
    OBVIOUS
<1>4. Locks'
    OBVIOUS
<1>5. Freeing'
    OBVIOUS
<1>6. Count'
    BY CountRests DEF OwnerGone
<1> QED BY <1>1, <1>2, <1>3, <1>4, <1>5, <1>6

\* The connection is DISCONNECTED, and no later disconnect does anything.
LEMMA DisconnectedKeeps ==
    ASSUME LifetimeInv, NEW t \in Destroyers, Lifetime!Disconnected(t)
    PROVE  LifetimeInv'
<1> USE DEF Lifetime!Disconnected
<1>1. Lifetime!TypeOK'
    OBVIOUS
<1>2. Roles' /\ References'
    OBVIOUS
<1>3. Teardown'
    OBVIOUS
<1>4. Locks'
    OBVIOUS
<1>5. Freeing'
    OBVIOUS
<1>6. Count'
    BY CountRests DEF OwnerGone
<1> QED BY <1>1, <1>2, <1>3, <1>4, <1>5, <1>6

\* Taking a reference: the count is what it was when it was above 0, so the
\* context has not been given up.
LEMMA AcquireCasKeeps ==
    ASSUME LifetimeInv, NEW t \in Callers, Lifetime!AcquireCas(t)
    PROVE  LifetimeInv'
<1> USE DEF Lifetime!AcquireCas
<1>1. Lifetime!TypeOK'
    OBVIOUS
<1>2. Roles' /\ References'
    OBVIOUS
<1>3. Teardown' /\ Locks'
    OBVIOUS
<1>4. Freeing'
    OBVIOUS
<1>5. OwnerGone' <=> OwnerGone
    BY DEF OwnerGone
<1>6. CASE refcount = old[t]
  <2>1. Held(refs', 1) + Held(refs', 2) = Held(refs, 1) + Held(refs, 2) + 1
    <3>1. /\ refs \in [Callers \cup Destroyers -> 0..2] /\ refs[t] \in {0, 1}
          /\ refs' = [refs EXCEPT ![t] = @ + 1]
        BY <1>6
    <3> HIDE DEF LifetimeInv
    <3> QED BY <3>1, OneMore
  <2>2. refcount' = refcount + 1
      BY <1>6
  <2>3. Count'
      BY <1>5, <2>1, <2>2, HeldFacts DEF Count
  <2> QED BY <1>1, <1>2, <1>3, <1>4, <2>3
<1>7. CASE refcount # old[t]
  <2>1. Count'
      BY <1>5, <1>7, CountRests
  <2> QED BY <1>1, <1>2, <1>3, <1>4, <2>1
<1> QED BY <1>6, <1>7

\* The holders of a count, as the provers use it.
LEMMA CountFacts ==
    ASSUME LifetimeInv
    PROVE  /\ refcount \in Nat
           /\ ~OwnerGone => refcount > 0
           /\ \A t \in Callers : refs[t] > 0 => refcount > 0
           /\ \A t \in Callers : refs[t] = 2 => refcount > 1
<1>1. /\ Held(refs, 1) \in Nat /\ Held(refs, 2) \in Nat
      /\ \A t \in Callers : refs[t] > 0 => Held(refs, 1) > 0
      /\ \A t \in Callers : refs[t] = 2 => Held(refs, 1) > 0 /\ Held(refs, 2) > 0
    BY HeldFacts
<1>2. Count
    OBVIOUS
<1> HIDE DEF LifetimeInv
<1> QED BY <1>1, <1>2 DEF Count

\* Dropping a reference: whoever drops the last one frees the context.
LEMMA ReleaseKeeps ==
    ASSUME LifetimeInv, NEW t \in Callers, Lifetime!Release(t)
    PROVE  LifetimeInv'
<1> USE DEF Lifetime!Release
<1>1. /\ refcount \in Nat /\ refcount > 0
      /\ refcount = 1 => refs[t] = 1
      /\ refs[t] \in {1, 2}
    BY CountFacts
<1>2. Lifetime!TypeOK'
    BY <1>1
<1>3. Roles' /\ References'
    BY <1>1
<1>4. Teardown' /\ Locks'
    BY <1>1
<1>5. Freeing'
    BY <1>1
<1>6. OwnerGone' <=> OwnerGone
    BY DEF OwnerGone
<1>7. Held(refs', 1) + Held(refs', 2) = Held(refs, 1) + Held(refs, 2) - 1
  <2>1. /\ refs \in [Callers \cup Destroyers -> 0..2]
        /\ refs' = [refs EXCEPT ![t] = @ - 1]
      OBVIOUS
  <2> HIDE DEF LifetimeInv
  <2> QED BY <1>1, <2>1, OneLess
<1>8. Count'
    BY <1>1, <1>6, <1>7, HeldFacts DEF Count
<1> QED BY <1>2, <1>3, <1>4, <1>5, <1>8

\* rudp_destroy_final, in whichever thread.
LEMMA DestroyFinalKeeps ==
    ASSUME LifetimeInv, NEW t \in Callers \cup Destroyers, Lifetime!DestroyFinal(t)
    PROVE  LifetimeInv' /\ \A u \in Callers \cup Destroyers : refs[u] = 0
<1> USE DEF Lifetime!DestroyFinal
<1>1. refcount = 0 /\ freed = 0 /\ refs[t] = 0
    OBVIOUS
<1>2. \A u \in Callers \cup Destroyers : refs[u] = 0
    BY <1>1, CountFacts
<1>3. OwnerGone
    BY <1>1, CountFacts
<1>4. Lifetime!TypeOK'
    BY <1>1
<1>5. Roles' /\ References'
    BY <1>1
<1>6. Teardown'
    BY <1>1
<1>7. Locks'
    BY <1>1, <1>3 DEF OwnerGone
<1>8. Freeing'
    BY <1>1
<1>9. Count'
    BY CountRests DEF OwnerGone
<1> QED BY <1>2, <1>4, <1>5, <1>6, <1>7, <1>8, <1>9

\* The owner's reference goes.
LEMMA DropKeeps ==
    ASSUME LifetimeInv, NEW t \in Destroyers, Lifetime!Drop(t)
    PROVE  LifetimeInv'
<1> USE DEF Lifetime!Drop
<1>1. ~OwnerGone /\ OwnerGone'
    BY DEF OwnerGone
<1>2. refcount \in Nat /\ refcount > 0
    BY <1>1, CountFacts
<1>3. Lifetime!TypeOK'
    BY <1>2
<1>4. Roles' /\ References'
    OBVIOUS
<1>5. Teardown' /\ Locks'
    OBVIOUS
<1>6. Freeing'
    BY <1>2
<1>7. Count'
    BY <1>1, HeldFacts DEF Count
<1> QED BY <1>3, <1>4, <1>5, <1>6, <1>7

\* Calls and disconnects interleave in any order.
LEMMA LifetimeStep ==
    ASSUME LifetimeInv, Lifetime!Next \/ UNCHANGED lifetimeVars
    PROVE  LifetimeInv'
<1>1. CASE UNCHANGED lifetimeVars
  <2>1. /\ Lifetime!TypeOK' /\ Roles' /\ References' /\ Teardown' /\ Locks' /\ Freeing'
        /\ UNCHANGED <<refcount, refs>> /\ (OwnerGone' <=> OwnerGone)
      BY <1>1 DEF lifetimeVars, OwnerGone
  <2> QED BY <2>1, CountRests
<1>2. ASSUME NEW t \in Callers, Lifetime!Call(t) PROVE LifetimeInv'
    BY <1>2, CallKeeps
<1>3. ASSUME NEW t \in Destroyers, Lifetime!Disconnect(t) PROVE LifetimeInv'
    BY <1>3, DisconnectKeeps
<1>4. ASSUME NEW t \in Callers, Lifetime!Step(t) PROVE LifetimeInv'
  <2>1. ~(pc[t] \in {"wrlock", "wmutex", "take", "destroy", "drop", "done"})
      OBVIOUS
  <2>2. ~(\/ Lifetime!WriteLock(t) \/ Lifetime!FreeLinks(t) \/ Lifetime!TakeContext(t)
          \/ Lifetime!Destroy(t) \/ Lifetime!Drop(t) \/ Lifetime!Disconnected(t))
      BY <2>1 DEF Lifetime!WriteLock, Lifetime!FreeLinks, Lifetime!TakeContext,
                  Lifetime!Destroy, Lifetime!Drop, Lifetime!Disconnected
  <2> HIDE DEF LifetimeInv
  <2> QED BY <1>4, <2>2, EnterKeeps, ReadPointerKeeps, LeaveKeeps, StatsReadKeeps,
             AcquireLoadKeeps, AcquireFlagKeeps, AcquireCasKeeps, AcquireRecheckKeeps,
             BodyKeeps, ReleaseKeeps, DestroyFinalKeeps
          DEF Lifetime!Step
<1>5. ASSUME NEW t \in Destroyers, Lifetime!Step(t) PROVE LifetimeInv'
  <2>1. ~(pc[t] \in {"lock", "read", "leave", "acquire", "flag", "cas", "recheck", "body",
                     "touch", "release"})
      OBVIOUS
  <2>2. ~(\/ Lifetime!Enter(t) \/ Lifetime!ReadPointer(t) \/ Lifetime!Leave(t)
          \/ Lifetime!StatsRead(t) \/ Lifetime!AcquireLoad(t) \/ Lifetime!AcquireFlag(t)
          \/ Lifetime!AcquireCas(t) \/ Lifetime!AcquireRecheck(t) \/ Lifetime!Body(t)
          \/ Lifetime!Release(t))
      BY <2>1 DEF Lifetime!Enter, Lifetime!ReadPointer, Lifetime!Leave, Lifetime!StatsRead,
                  Lifetime!AcquireLoad, Lifetime!AcquireFlag, Lifetime!AcquireCas,
                  Lifetime!AcquireRecheck, Lifetime!Body, Lifetime!Release
  <2> HIDE DEF LifetimeInv
  <2> QED BY <1>5, <2>2, DestroyFinalKeeps, WriteLockKeeps, FreeLinksKeeps,
             TakeContextKeeps, DestroyKeeps, DropKeeps, DisconnectedKeeps
          DEF Lifetime!Step
<1> HIDE DEF LifetimeInv
<1> QED BY <1>1, <1>2, <1>3, <1>4, <1>5 DEF Lifetime!Next

\* Module RudpLifetime counts with the operator this module counts with.
LEMMA SameCardinality == \A S : Lifetime!Cardinality(S) = Cardinality(S)
BY Zenon DEF Lifetime!Cardinality, Cardinality

\* The count is the owner's reference and the calls', and the context is touched
\* by calls on unlocked paths only once it is freed.
LEMMA LifetimeImplies ==
    LifetimeInv => Lifetime!LockedPathsAreSafe /\ Lifetime!CountIsHolders
<1> SUFFICES ASSUME LifetimeInv
             PROVE  Lifetime!LockedPathsAreSafe /\ Lifetime!CountIsHolders
    OBVIOUS
<1>1. ASSUME freed > 0, NEW t \in Callers \cup Destroyers, pc[t] \in Lifetime!Touching
      PROVE  path[t] \in {"arp", "stats"}
  <2>1. refcount = 0 /\ OwnerGone
      BY <1>1, CountFacts
  <2>2. destroying /\ ~rudp /\ ~ssl /\ pc[t] # "final" /\ pc[t] # "drop"
      BY <1>1, <2>1 DEF OwnerGone
  <2>3. t \in Callers
      BY <1>1, <2>2
  <2> QED BY <1>1, <2>2, <2>3
<1>2. Lifetime!CountIsHolders
  <2>1. Lifetime!HeldBy(1) = Held(refs, 1) /\ Lifetime!HeldBy(2) = Held(refs, 2)
      BY SameCardinality DEF Lifetime!HeldBy, Held
  <2>2. Lifetime!Owner = IF OwnerGone THEN 0 ELSE 1
      BY DEF Lifetime!Owner, OwnerGone
  <2>3. Count
      OBVIOUS
  <2> HIDE DEF LifetimeInv
  <2> QED BY <2>1, <2>2, <2>3, HeldFacts DEF Lifetime!CountIsHolders, Count
<1> QED BY <1>1, <1>2 DEF Lifetime!LockedPathsAreSafe

\* Only rudp_destroy_final frees, and nobody holds a reference then.
LEMMA FreeingWaits ==
    ASSUME LifetimeInv, Lifetime!Next, freed' # freed
    PROVE  \A t \in Callers \cup Destroyers : refs[t] = 0
<1>1. PICK t \in Callers \cup Destroyers : Lifetime!DestroyFinal(t)
  <2> HIDE DEF LifetimeInv
  <2> QED BY DEF Lifetime!Next, Lifetime!Step, Lifetime!Call, Lifetime!Disconnect,
       Lifetime!Enter, Lifetime!ReadPointer, Lifetime!Leave, Lifetime!StatsRead,
       Lifetime!AcquireLoad, Lifetime!AcquireFlag, Lifetime!AcquireCas,
       Lifetime!AcquireRecheck, Lifetime!Body, Lifetime!Release, Lifetime!WriteLock,
       Lifetime!FreeLinks, Lifetime!TakeContext, Lifetime!Destroy, Lifetime!Drop,
       Lifetime!Disconnected
<1> QED BY <1>1, DestroyFinalKeeps

HIDE DEF LifetimeInv, Lifetime!TypeOK, Lifetime!Touching, Roles, References, Teardown, Locks,
         Freeing, Lifetime!Goto, Lifetime!Alive, Lifetime!connVars, Lifetime!lockVars,
         Lifetime!ctxVars, Lifetime!Returned

-----------------------------------------------------------------------------
(***************************************************************************)
(* The parts together.                                                     *)
(***************************************************************************)

AccelerationInv == LifetimeInv /\ BudgetInv /\ ReceptionInv

\* A step is one of the part's own, and leaves the others where they are.
LEMMA OnePart ==
    ASSUME [Next]_vars
    PROVE  /\ Lifetime!Next \/ UNCHANGED lifetimeVars
           /\ Budget!Next \/ UNCHANGED budgetVars
           /\ Reception!Next \/ UNCHANGED receptionVars
BY DEF Next, vars, OnlyLifetime, OnlyBudget, OnlyReception

\* The parts do not disturb each other.
LEMMA AccelerationInvHolds == Spec => []AccelerationInv
<1>1. Init => AccelerationInv
    BY LifetimeStart, BudgetStart, ReceptionStart DEF Init, AccelerationInv
<1>2. AccelerationInv /\ [Next]_vars => AccelerationInv'
    BY OnePart, LifetimeStep, BudgetStep, ReceptionStep DEF AccelerationInv
<1> QED BY <1>1, <1>2, PTL DEF Spec

\* A call that reaches conn->rudp under its lock never touches a freed context;
\* the reference count is the owner's reference and those of the calls in
\* progress; and rudp_destroy_final runs once, after the last call returned,
\* also for calls that came under no lock: for any number of threads.
THEOREM ContextOutlivesItsCalls == Spec => ContextIsFreedSafely
<1>1. AccelerationInv =>
        Lifetime!TypeOK /\ Lifetime!LockedPathsAreSafe /\ Lifetime!CountIsHolders
    BY LifetimeImplies DEF AccelerationInv, LifetimeInv
<1>2. AccelerationInv /\ [Next]_vars =>
        [freed' # freed => \A t \in Lifetime!Threads : refs[t] = 0]_(Lifetime!vars)
    BY OnePart, FreeingWaits, ThreadFacts DEF AccelerationInv, lifetimeVars
<1> QED BY <1>1, <1>2, AccelerationInvHolds, PTL
        DEF Spec, ContextIsFreedSafely, Lifetime!FreeWaitsForCalls

\* rudp_is_send_ready sends data over UDP only on a path that received steadily
\* for RUDP_REQUIRE_CONTINUOUS and whose peer hears us; the sender then finds
\* the path unsuspended and the window open; suspensions double; and datagrams
\* older than the window are not taken: for any timeouts, windows and delays.
THEOREM UdpIsProvenFirst == Spec => UdpIsUsedWhenProven
<1>1. AccelerationInv => /\ Budget!TypeOK /\ Budget!ReadyHasBudget
                         /\ Reception!TypeOK
    BY DEF AccelerationInv, BudgetInv, ReceptionInv
<1>2. AccelerationInv /\ [Next]_vars =>
        [/\ ~udp_data_suspended /\ udp_data_suspended' =>
              length' = IF suspension_count = 0 THEN SuspendTicks
                        ELSE Budget!Cap(2 * length, Budget!MaxSuspension)
         /\ suspension_count' < suspension_count =>
              lossAge = CleanReset /\ ~udp_data_suspended]_(Budget!vars)
    BY OnePart, NextBackoff
    DEF AccelerationInv, budgetVars, Budget!vars, Budget!windowVars, Budget!suspendVars
<1>3. AccelerationInv /\ [Next]_vars =>
        /\ [~ready /\ ready' => /\ last_recv_tick + KaTimeout >= now
                                /\ steady + RequireContinuous <= now]_(Reception!vars)
        /\ [~ready /\ ready' => peerSaw + WindowSize + KaTimeout >= now]_(Reception!vars)
        /\ [last_peer_tick_seen' # last_peer_tick_seen =>
              last_peer_tick_seen' > last_recv_your_tick - WindowSize]_(Reception!vars)
    BY OnePart, BecomingReady, TakingADatagram DEF AccelerationInv, receptionVars
<1> QED BY <1>1, <1>2, <1>3, AccelerationInvHolds, PTL
        DEF Spec, UdpIsUsedWhenProven, Budget!BackoffDoubles, Reception!ReadyMeansSteady,
            Reception!ReadyMeansTwoWay, Reception!ReplayWindow
=============================================================================
