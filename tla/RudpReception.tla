---------------------------- MODULE RudpReception ----------------------------
(***************************************************************************)
(* How softether_rudp.c judges the UDP path alive: the receive timing of   *)
(* rudp_poll and rudp_process_inner, the keepalives, the tick window and   *)
(* the keepalive half of rudp_is_send_ready, over a network that loses,    *)
(* delays, reorders and duplicates datagrams.  The send window and the     *)
(* suspension, the other half, are module RudpSendBudget.                  *)
(*                                                                         *)
(* Both ends read one clock that starts at 1, zero meaning "never" in the  *)
(* code's tick fields.  A datagram that fails decryption, the cookie, the  *)
(* padding or a length check changes nothing and is a lost one.            *)
(***************************************************************************)
EXTENDS Integers, FiniteSets, FiniteSetsExt

CONSTANTS
    KaTimeout, KaMin, KaMax,    \* RUDP_KA_TIMEOUT, RUDP_KA_INTERVAL_MIN, _MAX
    RequireContinuous, WindowSize, PeerTickLossGap,
    MaxClock, MaxFlight         \* bounds: the clock, datagrams under way

VARIABLES
    clock,
    now,                        \* ctx->now
    last_recv_tick, first_stable_receive_tick,
    last_recv_my_tick,          \* the newest of our ticks the peer echoed
    last_recv_your_tick,        \* the newest tick of the peer
    last_peer_tick_seen,
    next_send_keepalive,
    sent,                       \* tick of the last datagram we sent
    peerSaw,                    \* the newest of our ticks the peer received
    flight,                     \* datagrams from the peer under way
    steady,                     \* history: when reception last resumed after a
                                \* silence longer than KaTimeout
    ready                       \* rudp_is_send_ready told a sender to use UDP

recvVars == <<last_recv_tick, first_stable_receive_tick, last_recv_my_tick,
              last_recv_your_tick, last_peer_tick_seen, steady>>
netVars == <<peerSaw, flight>>
vars == <<clock, now, recvVars, next_send_keepalive, sent, netVars, ready>>

Ticks == 1..MaxClock
Datagrams == [my : Ticks, your : 0..MaxClock]

Init ==
    /\ clock = 1
    /\ now = 1
    /\ last_recv_tick = 0
    /\ first_stable_receive_tick = 0
    /\ last_recv_my_tick = 0
    /\ last_recv_your_tick = 0
    /\ last_peer_tick_seen = 0
    /\ next_send_keepalive = 0
    /\ sent = 0
    /\ peerSaw = 0
    /\ flight = {}
    /\ steady = 0
    /\ ready = FALSE

-----------------------------------------------------------------------------
(* The clock, the peer and the network. *)

TimePasses ==
    /\ clock < MaxClock
    /\ clock' = clock + 1
    /\ UNCHANGED <<now, recvVars, next_send_keepalive, sent, netVars, ready>>

\* The peer receives our last datagram; one it never receives is lost.
PeerReceives ==
    /\ sent > peerSaw
    /\ peerSaw' = sent
    /\ UNCHANGED <<clock, now, recvVars, next_send_keepalive, sent, flight, ready>>

\* The peer sends: its own tick, and the newest tick of ours it has seen.
PeerSends ==
    /\ Cardinality(flight) < MaxFlight
    /\ flight' = flight \cup {[my |-> clock, your |-> peerSaw]}
    /\ UNCHANGED <<clock, now, recvVars, next_send_keepalive, sent, peerSaw, ready>>

Lose ==
    /\ \E d \in flight : flight' = flight \ {d}
    /\ UNCHANGED <<clock, now, recvVars, next_send_keepalive, sent, peerSaw, ready>>

-----------------------------------------------------------------------------
(* Our end. *)

\* The start of a poll: after a silence longer than the keepalive timeout
\* reception counts as stable only from the next datagram on.
StableAfterSilence ==
    IF last_recv_tick # 0 /\ last_recv_tick + KaTimeout < clock
      THEN 0 ELSE first_stable_receive_tick

\* Then the keepalive that is due, and the time of the next one.
Keepalive ==
    IF next_send_keepalive = 0 \/ next_send_keepalive <= clock
      THEN /\ sent' = clock
           /\ next_send_keepalive' \in {clock + i : i \in KaMin..(KaMax - 1)}
      ELSE UNCHANGED <<sent, next_send_keepalive>>

\* The window check of rudp_process_inner.
TooOld(d) ==
    /\ d.my < last_recv_your_tick
    /\ last_recv_your_tick - d.my >= WindowSize

\* A jump of the peer's tick against the datagram processed before is counted
\* as a loss (PeerTickGap of module RudpSendBudget).
IsGap(d) ==
    /\ last_peer_tick_seen # 0
    /\ d.my > last_peer_tick_seen + PeerTickLossGap

\* A poll that reads nothing, or only what is dropped.
PollNothing ==
    /\ now' = clock
    /\ first_stable_receive_tick' = StableAfterSilence
    /\ Keepalive
    /\ UNCHANGED <<clock, last_recv_tick, last_recv_my_tick, last_recv_your_tick,
                   last_peer_tick_seen, steady, netVars, ready>>

\* Mutant: a datagram counts as reception whatever it echoes.
EchoIgnored(d) == TRUE

\* Reception counts if the peer has lately heard us.
EchoIsRecent(d) ==
    LET my == Max({d.your, last_recv_my_tick})
    IN  my # 0 /\ my + WindowSize >= clock

\* A poll that reads datagram d, or a copy of it.  Reading several is polling
\* several times within one tick.
PollDatagram(d) ==
    /\ ~TooOld(d)
    /\ now' = clock
    /\ Keepalive
    /\ last_recv_my_tick' = Max({d.your, last_recv_my_tick})
    /\ last_recv_your_tick' = Max({d.my, last_recv_your_tick})
    /\ last_peer_tick_seen' = d.my
    /\ IF EchoIsRecent(d)
         THEN /\ last_recv_tick' = clock
              /\ first_stable_receive_tick' =
                   IF StableAfterSilence = 0 THEN clock ELSE StableAfterSilence
              /\ steady' = IF last_recv_tick # 0 /\ last_recv_tick + KaTimeout >= clock
                              THEN steady ELSE clock
         ELSE /\ first_stable_receive_tick' = StableAfterSilence
              /\ UNCHANGED <<last_recv_tick, steady>>
    /\ flight' \in {flight, flight \ {d}}
    /\ UNCHANGED <<clock, peerSaw, ready>>

\* rudp_is_send_ready with the keepalive check, against the time of the last
\* poll or send.
IsSendReady ==
    LET alive == last_recv_tick # 0 /\ last_recv_tick + KaTimeout >= now
    IN  /\ ~ready
        /\ ready' = (alive /\ first_stable_receive_tick + RequireContinuous <= now)
        /\ first_stable_receive_tick' = IF alive THEN first_stable_receive_tick ELSE 0
        /\ UNCHANGED <<clock, now, last_recv_tick, last_recv_my_tick, last_recv_your_tick,
                       last_peer_tick_seen, steady, next_send_keepalive,
                       sent, netVars>>

\* rudp_send of a data block.
SendData ==
    /\ ready
    /\ now' = clock
    /\ sent' = clock
    /\ ready' = FALSE
    /\ UNCHANGED <<clock, recvVars, next_send_keepalive, netVars>>

Next ==
    \/ TimePasses \/ PeerReceives \/ PeerSends \/ Lose
    \/ PollNothing \/ (\E d \in flight : PollDatagram(d))
    \/ IsSendReady \/ SendData

Spec == Init /\ [][Next]_vars

-----------------------------------------------------------------------------
(* Properties. *)

TypeOK ==
    /\ clock \in Ticks /\ now \in Ticks /\ now <= clock
    /\ {last_recv_tick, first_stable_receive_tick, last_recv_my_tick,
        last_recv_your_tick, last_peer_tick_seen, steady, sent, peerSaw} \subseteq 0..clock
    /\ next_send_keepalive \in 0..(clock + KaMax - 1)
    /\ flight \subseteq Datagrams
    /\ ready \in BOOLEAN

\* UDP is used for data only after a stretch of RUDP_REQUIRE_CONTINUOUS in
\* which reception never paused for more than the keepalive timeout.
ReadyMeansSteady ==
    [][~ready /\ ready' =>
         last_recv_tick + KaTimeout >= now /\ steady + RequireContinuous <= now]_vars

\* ... and only if the peer, too, has heard us: its newest echo is no older
\* than the window and one keepalive timeout.
ReadyMeansTwoWay ==
    [][~ready /\ ready' => peerSaw + WindowSize + KaTimeout >= now]_vars

\* No datagram older than the newest by the whole window is taken, however long
\* the network kept it.
ReplayWindow ==
    [][last_peer_tick_seen' # last_peer_tick_seen =>
         last_peer_tick_seen' > last_recv_your_tick - WindowSize]_vars

\* "A large forward jump between consecutive packets means the peer transmitted
\* traffic we never saw": what is counted lies beyond every datagram processed.
GapMeansUnseen ==
    [][\A d \in flight : PollDatagram(d) /\ IsGap(d) =>
         last_recv_your_tick + PeerTickLossGap < d.my]_vars
=============================================================================
