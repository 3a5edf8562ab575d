---------------------------- MODULE RudpSendBudget ----------------------------
(***************************************************************************)
(* When softether_rudp.c lets data go over UDP: the loss-adaptive send     *)
(* window, the suspension after receive-queue overflows with its backoff,  *)
(* and the clean period that resets it.  A sender polls, asks              *)
(* rudp_is_send_ready and sends, in three critical sections; the receive   *)
(* thread polls and drains the queue in between.                           *)
(*                                                                         *)
(* ctx->now only enters as differences, so times are kept relative to it:  *)
(* how long ago (up to the bound that matters) or how far ahead.  Whether  *)
(* the path is alive (keepalives) is an input here; module RudpReception   *)
(* is about that half of rudp_is_send_ready.                               *)
(***************************************************************************)
EXTENDS Integers

CONSTANTS
    CwinStart, CwinMin, CwinMax, CwinGrow,  \* the window, and its growth per tick
    MaxBlock,           \* the largest data block a sender sends
    RecvQueueSize, OverflowThreshold,
    SuspendTicks, MaxShift, CleanReset

VARIABLES
    cwin_bytes, cwin_inited,
    refillAge,              \* now - cwin_last_refill_tick
    lossAge,                \* now - last_loss_event_tick; NoLoss before the first
    udp_data_suspended,
    resumeIn,               \* udp_data_resume_tick - now, 0 once passed
    suspension_count,
    recent_overflows,
    recv_queue_count,
    pc,                     \* the sender: "idle", "polled", "ready"
    length                  \* of the current or last suspension, in ticks

windowVars == <<cwin_bytes, cwin_inited, refillAge>>
suspendVars == <<udp_data_suspended, resumeIn, suspension_count, length>>
vars == <<windowVars, lossAge, suspendVars, recent_overflows, recv_queue_count, pc>>

NoLoss == -1
Cap(n, most) == IF n > most THEN most ELSE n
MaxRefillAge == (CwinMax \div CwinGrow) + 1
MaxSuspension == SuspendTicks * 2^MaxShift

Init ==
    /\ cwin_bytes = 0
    /\ cwin_inited = FALSE
    /\ refillAge = 0
    /\ lossAge = NoLoss
    /\ udp_data_suspended = FALSE
    /\ resumeIn = 0
    /\ suspension_count = 0
    /\ length = 0
    /\ recent_overflows = 0
    /\ recv_queue_count = 0
    /\ pc = "idle"

-----------------------------------------------------------------------------
(* The window. *)

\* rudp_cwin_refill: what the window holds after it.
Refilled ==
    IF cwin_inited THEN Cap(cwin_bytes + CwinGrow * refillAge, CwinMax) ELSE CwinStart

Refill(left) == cwin_bytes' = left /\ cwin_inited' = TRUE /\ refillAge' = 0

\* rudp_cwin_on_loss.
OnLoss ==
    /\ cwin_bytes' = IF cwin_bytes \div 2 < CwinMin THEN CwinMin ELSE cwin_bytes \div 2
    /\ lossAge' = 0
    /\ UNCHANGED <<cwin_inited, refillAge>>

-----------------------------------------------------------------------------
(* Time and the receive thread. *)

\* A poll or a send reads the clock into ctx->now.
TimePasses ==
    /\ refillAge' = Cap(refillAge + 1, MaxRefillAge)
    /\ lossAge' = IF lossAge = NoLoss THEN NoLoss ELSE Cap(lossAge + 1, CleanReset)
    /\ resumeIn' = IF resumeIn = 0 THEN 0 ELSE resumeIn - 1
    /\ UNCHANGED <<cwin_bytes, cwin_inited, udp_data_suspended, suspension_count,
                   length, recent_overflows, recv_queue_count, pc>>

\* rudp_poll finds that nothing was received for the keepalive timeout.
ReceiveTimeout ==
    /\ lossAge' = 0
    /\ UNCHANGED <<windowVars, suspendVars, recent_overflows, recv_queue_count, pc>>

\* rudp_process_inner: the peer's tick jumped.
PeerTickGap ==
    /\ OnLoss
    /\ UNCHANGED <<suspendVars, recent_overflows, recv_queue_count, pc>>

\* rudp_process_inner queues a data block of an acceptable size.
QueueBlock ==
    /\ recv_queue_count < RecvQueueSize
    /\ recv_queue_count' = recv_queue_count + 1
    /\ UNCHANGED <<windowVars, lossAge, suspendVars, recent_overflows, pc>>

\* rudp_process_inner drops one, the queue being full.  Further overflows
\* above the threshold are not told apart.
QueueOverflow ==
    /\ recv_queue_count = RecvQueueSize
    /\ recent_overflows' = Cap(recent_overflows + 1, OverflowThreshold)
    /\ OnLoss
    /\ UNCHANGED <<suspendVars, recv_queue_count, pc>>

\* rudp_recv takes a block.
RudpRecv ==
    /\ recv_queue_count > 0
    /\ recv_queue_count' = recv_queue_count - 1
    /\ UNCHANGED <<windowVars, lossAge, suspendVars, recent_overflows, pc>>

-----------------------------------------------------------------------------
(* The sender: softether_send_data_block. *)

\* It polls first; what a poll does is above.
SenderPolls ==
    /\ pc = "idle"
    /\ pc' = "polled"
    /\ UNCHANGED <<windowVars, lossAge, suspendVars, recent_overflows, recv_queue_count>>

\* Mutant: there is no clean period.
CleanNever == FALSE

\* The parts of rudp_is_send_ready_nolock, in order.  A clean period:
Clean == ~udp_data_suspended /\ lossAge = CleanReset

CountAfterClean == IF Clean THEN 0 ELSE suspension_count

\* The suspension has not run out.
StillSuspended == udp_data_suspended /\ resumeIn > 0

\* A clean period clears the overflows, and so does the end of a suspension.
OverflowsLeft == IF Clean \/ udp_data_suspended THEN 0 ELSE recent_overflows

\* Each suspension that follows without a clean period is twice as long, up
\* to a limit.
Suspension == SuspendTicks * 2^Cap(CountAfterClean, MaxShift)

\* The suspension goes on: the block goes over TCP.
AskSuspended ==
    /\ pc = "polled"
    /\ StillSuspended
    /\ Refill(Refilled)
    /\ pc' = "idle"
    /\ UNCHANGED <<lossAge, suspendVars, recent_overflows, recv_queue_count>>

\* Too many overflows: UDP data is suspended.  (suspension_count only matters
\* up to MaxShift.)
AskSuspends ==
    /\ pc = "polled"
    /\ ~StillSuspended
    /\ OverflowsLeft >= OverflowThreshold
    /\ Refill(Refilled)
    /\ udp_data_suspended' = TRUE
    /\ suspension_count' = Cap(CountAfterClean + 1, MaxShift + 1)
    /\ length' = Suspension
    /\ resumeIn' = Suspension
    /\ recent_overflows' = OverflowsLeft
    /\ pc' = "idle"
    /\ UNCHANGED <<lossAge, recv_queue_count>>

\* UDP may be used if the path is alive and the window is not empty; a
\* suspension that has run out is over.
Ask ==
    /\ pc = "polled"
    /\ ~StillSuspended
    /\ OverflowsLeft < OverflowThreshold
    /\ Refill(Refilled)
    /\ udp_data_suspended' = FALSE
    /\ suspension_count' = CountAfterClean
    /\ recent_overflows' = OverflowsLeft
    /\ pc' \in IF Refilled > 0 THEN {"idle", "ready"} ELSE {"idle"}
    /\ UNCHANGED <<lossAge, resumeIn, length, recv_queue_count>>

\* rudp_send: sendto fails and the block goes over TCP, or the block uses up
\* its share of the window.
Send ==
    /\ pc = "ready"
    /\ \/ \E size \in 1..MaxBlock :
            Refill(IF Refilled >= size THEN Refilled - size ELSE 0)
       \/ UNCHANGED windowVars
    /\ pc' = "idle"
    /\ UNCHANGED <<lossAge, suspendVars, recent_overflows, recv_queue_count>>

Sender == SenderPolls \/ AskSuspended \/ AskSuspends \/ Ask \/ Send

Next ==
    \/ TimePasses
    \/ ReceiveTimeout \/ PeerTickGap \/ QueueBlock \/ QueueOverflow \/ RudpRecv
    \/ Sender

Spec == Init /\ [][Next]_vars

\* Time passes, and the tunnel keeps sending.
FairSpec == Spec /\ WF_vars(TimePasses) /\ WF_vars(Sender)

-----------------------------------------------------------------------------
(* Properties. *)

TypeOK ==
    /\ cwin_bytes \in 0..CwinMax
    /\ cwin_inited \in BOOLEAN
    /\ refillAge \in 0..MaxRefillAge
    /\ lossAge \in NoLoss..CleanReset
    /\ udp_data_suspended \in BOOLEAN
    /\ resumeIn \in 0..MaxSuspension
    /\ length \in 0..MaxSuspension
    /\ suspension_count \in 0..(MaxShift + 1)
    /\ recent_overflows \in 0..OverflowThreshold
    /\ recv_queue_count \in 0..RecvQueueSize
    /\ pc \in {"idle", "polled", "ready"}

\* A sender that was told to use UDP does so on a path that is not suspended
\* and whose window is not empty, whatever the receive thread did since.
ReadyHasBudget == pc = "ready" => ~udp_data_suspended /\ cwin_bytes > 0

\* "Each consecutive failed probe doubles the suspension" up to its limit;
\* only a period without loss, and never one spent in suspension, starts it
\* over.
BackoffDoubles ==
    [][/\ ~udp_data_suspended /\ udp_data_suspended' =>
            length' = IF suspension_count = 0 THEN SuspendTicks
                                              ELSE Cap(2 * length, MaxSuspension)
       /\ suspension_count' < suspension_count =>
            lossAge = CleanReset /\ ~udp_data_suspended]_vars

\* A suspension ends, and the path is probed again.
SuspensionEnds == udp_data_suspended ~> ~udp_data_suspended

\* If losses stop, the backoff is forgotten for good ("so a temporarily bad
\* network doesn't pin the session on TCP forever").
BackoffIsForgotten == <>[](lossAge # 0) => <>[](suspension_count = 0)

\* "A detected loss ... halves the send window": it never grows by a loss.
LossShrinksWindow ==
    [][PeerTickGap /\ cwin_inited => cwin_bytes' <= cwin_bytes]_vars
=============================================================================
