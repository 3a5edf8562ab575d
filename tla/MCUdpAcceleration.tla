-------------------------- MODULE MCUdpAcceleration --------------------------
(***************************************************************************)
(* UDP acceleration (softether_rudp.c) for TLC: the life of its context,   *)
(* its send budget, and the judgement of the path.  They share no state of *)
(* the model, so a behaviour follows one of them (part) while the others   *)
(* keep their initial state, and the states add up instead of multiplying. *)
(***************************************************************************)
EXTENDS Integers, FiniteSets

CONSTANTS
    Callers, Destroyers,      \* threads that use, and that destroy, the context
    CwinStart, CwinMin, CwinMax, CwinGrow, MaxBlock, RecvQueueSize,
    OverflowThreshold, SuspendTicks, CleanReset,               \* the send budget
    KaTimeout, KaMin, KaMax, RequireContinuous, WindowSize, PeerTickLossGap,
    MaxClock, MaxFlight                                        \* the reception

\* The values of softether_rudp.h are of this kind: the window neither closes nor
\* outgrows its maximum, and overflows are tolerated before a suspension.
ASSUME UdpAccelerationAssumption ==
    /\ IsFiniteSet(Callers) /\ Callers \cap Destroyers = {}
    /\ "nobody" \notin Callers \cup Destroyers
    /\ {CwinStart, CwinMin, CwinMax, CwinGrow, MaxBlock, RecvQueueSize} \subseteq Nat \ {0}
    /\ CwinStart <= CwinMax /\ CwinMin <= CwinMax
    /\ {OverflowThreshold, SuspendTicks, CleanReset} \subseteq Nat \ {0}
    /\ {KaTimeout, KaMin, KaMax, RequireContinuous, WindowSize, PeerTickLossGap}
         \subseteq Nat \ {0}
    /\ {MaxClock, MaxFlight} \subseteq Nat \ {0}

VARIABLES
    part,
    state, ssl, rudp, connect_mutex, write_mutex, readers, writer,
    refcount, destroying, freed, pc, path, old, refs,
    cwin_bytes, cwin_inited, refillAge, lossAge, udp_data_suspended, resumeIn,
    suspension_count, recent_overflows, recv_queue_count, senderPc, length,
    clock, now, last_recv_tick, first_stable_receive_tick, last_recv_my_tick,
    last_recv_your_tick, last_peer_tick_seen, next_send_keepalive, sent, peerSaw,
    flight, steady, ready

\* Calls of all paths against disconnects.
Lifetime == INSTANCE RudpLifetime WITH Paths <- {"send", "fill", "jni", "arp", "stats"}

\* RUDP_SUSPEND_BACKOFF_MAX_SHIFT is 3.
Budget == INSTANCE RudpSendBudget WITH MaxShift <- 3, pc <- senderPc

Reception == INSTANCE RudpReception

lifetimeVars == <<state, ssl, rudp, connect_mutex, write_mutex, readers, writer,
    refcount, destroying, freed, pc, path, old, refs>>
budgetVars == <<cwin_bytes, cwin_inited, refillAge, lossAge, udp_data_suspended,
    resumeIn, suspension_count, recent_overflows, recv_queue_count, senderPc, length>>
receptionVars == <<clock, now, last_recv_tick, first_stable_receive_tick,
    last_recv_my_tick, last_recv_your_tick, last_peer_tick_seen, next_send_keepalive,
    sent, peerSaw, flight, steady, ready>>
vars == <<part, lifetimeVars, budgetVars, receptionVars>>

Init ==
    /\ part \in {"lifetime", "budget", "reception"}
    /\ Lifetime!Init /\ Budget!Init /\ Reception!Init

OnlyLifetime == part = "lifetime" /\ UNCHANGED <<part, budgetVars, receptionVars>>
OnlyBudget == part = "budget" /\ UNCHANGED <<part, lifetimeVars, receptionVars>>
OnlyReception == part = "reception" /\ UNCHANGED <<part, lifetimeVars, budgetVars>>

Next ==
    \/ OnlyLifetime /\ Lifetime!Next
    \/ OnlyBudget /\ Budget!Next
    \/ OnlyReception /\ Reception!Next

\* The fairness of the components' own specifications.
Spec ==
    /\ Init /\ [][Next]_vars
    /\ \A t \in Lifetime!Threads : WF_vars(OnlyLifetime /\ Lifetime!Step(t))
    /\ WF_vars(OnlyBudget /\ Budget!TimePasses)
    /\ WF_vars(OnlyBudget /\ Budget!Sender)

-----------------------------------------------------------------------------
(* Properties: those of the components, grouped by what they are about.    *)

\* Calls that start under the documented locks never touch a freed context; its
\* reference count is the owner's and the calls' references at all times; it is
\* freed only once the calls in progress have returned.
ContextIsFreedSafely ==
    /\ [](Lifetime!TypeOK /\ Lifetime!LockedPathsAreSafe /\ Lifetime!CountIsHolders)
    /\ Lifetime!FreeWaitsForCalls

\* Data goes over UDP only out of suspension and with budget left, after a
\* stretch of steady reception, on a path whose peer hears us too; what is
\* judged are datagrams within the window; suspensions double until a clean period.
UdpIsUsedWhenProven ==
    /\ [](Budget!TypeOK /\ Budget!ReadyHasBudget)
    /\ Budget!BackoffDoubles
    /\ []Reception!TypeOK
    /\ Reception!ReadyMeansSteady
    /\ Reception!ReadyMeansTwoWay
    /\ Reception!ReplayWindow

\* A context that is being destroyed, or data that is suspended from UDP.
Pending ==
    \/ part = "lifetime" /\ destroying
    \/ part = "budget" /\ udp_data_suspended

\* It is freed, or data may use UDP again.
Resolved ==
    \/ part = "lifetime" /\ freed = 1
    \/ part = "budget" /\ ~udp_data_suspended

\* A destroyed context is freed, every suspension ends, and the backoff is
\* forgotten once losses stop.  (The first two are EventuallyFreed and
\* SuspensionEnds of the parts as one formula, which TLC checks once.)
NothingIsStuck ==
    /\ Pending ~> Resolved
    /\ Budget!BackoffIsForgotten
=============================================================================
