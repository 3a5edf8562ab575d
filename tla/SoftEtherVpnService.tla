------------------------- MODULE SoftEtherVpnService -------------------------
(***************************************************************************)
(* One instance of the SoftEther VPN service (SoftEtherVpnService.kt): its *)
(* main thread (start, user stop, onDestroy), the connect coroutine of     *)
(* every session, the reconnect coroutine of every session's controller,   *)
(* and the teardown coroutines that stopVpn and onDestroy launch.  They    *)
(* share the fields `connectionJob` and `controller`, the session policy,  *)
(* the TUN coordinator and the process-wide native slot, with no common    *)
(* lock: stopVpn runs on whatever thread asks for it.                      *)
(*                                                                         *)
(* A session's controller is abstracted to what ConnectionController.tla   *)
(* shows of it: a flow is in native code ("in"), connected ("up") or       *)
(* neither ("none"); destroyResources closes it to new flows and confirms  *)
(* only when no flow is inside; a flow that leaves a destroyed controller  *)
(* completes the cleanup.  The slot is NativeLifetimeRegistry.tla's, its   *)
(* soft bounds may have elapsed at any start (GateAccepts).  An attempt is *)
(* granted the slot just before its session starts, so the lease carries   *)
(* that session's number.                                                  *)
(***************************************************************************)
EXTENDS SoftEtherSessionPolicy, Sequences, FiniteSets

CONSTANTS MaxSessions,      \* bound: sessions ever started
          MaxDescriptors,   \* bound: TUN descriptors ever established
          MaxStops          \* bound: calls of stopVpn

ASSUME ServiceAssumption ==
    MaxSessions \in Nat /\ MaxDescriptors \in Nat /\ MaxStops \in Nat

VARIABLES
    installer, descriptorOwner, tun, madeBy, openTuns, revoked  \* the TUN

tunVars == <<installer, descriptorOwner, tun, madeBy, openTuns, revoked>>

VARIABLES
    connectionJob,      \* session whose job the field holds, 0 = null
    controller,         \* session whose controller the field holds, 0 = null
    connectingStamp,    \* attemptConnectingEnteredAtMs # 0
    cancelled,          \* sessions whose connect job was cancelled
    created,            \* sessions whose coroutine has controllerCreated set
    owned,              \* controller a cancelled coroutine decided it owns
    destroyed,          \* sessions whose controller was told to tear down
    confirmed,          \* ... and whose native cleanup was proven
    native,             \* what each session's native connection is doing
    slotOwner, slotPhase, slotExpired, slotAged,   \* the native slot
    displaced,          \* sessions the slot was taken away from
    stops,              \* every stopVpn call and the teardown it launched
    stopId,             \* the call a thread is executing
    back,               \* where a thread goes on after stopVpn
    pc,
    stopSelfCalled, serviceDestroyed

fieldVars == <<connectionJob, controller, connectingStamp, cancelled>>
controllerVars == <<destroyed, confirmed, native>>
slotVars == <<slotOwner, slotPhase, slotExpired, slotAged>>
coVars == <<created, owned>>
threadVars == <<pc, stopId, back>>
serviceVars == <<stopSelfCalled, serviceDestroyed>>
vars == <<policyVars, tunVars, fieldVars, coVars, controllerVars, slotVars,
          displaced, stops, threadVars, serviceVars>>

Sessions == 1..MaxSessions
Main == <<"main", 0>>
Co(s) == <<"connect", s>>
Rep(s) == <<"reconnect", s>>
Threads == {Main} \cup {Co(s) : s \in Sessions} \cup {Rep(s) : s \in Sessions}

\* The coordinator's idea of the current session: the last one claimed.
Tun == INSTANCE TunOwnershipCoordinator WITH
    current <- IF pc[Main] = "claim" THEN sessionGeneration - 1
                                     ELSE sessionGeneration

Init ==
    /\ PolicyInit
    /\ Tun!TunInit
    /\ connectionJob = 0
    /\ controller = 0
    /\ connectingStamp = FALSE
    /\ cancelled = {}
    /\ created = {}
    /\ owned = [s \in Sessions |-> 0]
    /\ destroyed = {}
    /\ confirmed = {}
    /\ native = [s \in Sessions |-> "none"]
    /\ slotOwner = 0
    /\ slotPhase = "RESERVED"
    /\ slotExpired = FALSE
    /\ slotAged = FALSE
    /\ displaced = {}
    /\ stops = <<>>
    /\ stopId = [t \in Threads |-> 0]
    /\ back = [t \in Threads |-> "idle"]
    /\ pc = [t \in Threads |-> "idle"]
    /\ stopSelfCalled = FALSE
    /\ serviceDestroyed = FALSE

Goto(t, l) == pc' = [pc EXCEPT ![t] = l]

ResourcesLive == controller # 0 \/ tun # 0 \/ connectionJob # 0

-----------------------------------------------------------------------------
(* The controller and the slot, as their callers see them. *)

\* confirmTeardown with the lease of session s.  The phase and stamps a free
\* slot remembers are never read.
ReleaseSlot(s) ==
    IF slotOwner = s
      THEN /\ slotOwner' = 0
           /\ slotPhase' = "RESERVED"
           /\ slotExpired' = FALSE
           /\ slotAged' = FALSE
      ELSE UNCHANGED slotVars

\* A phase is entered with a fresh stamp.
SetPhase(s, phase) ==
    /\ slotPhase' = IF slotOwner = s THEN phase ELSE slotPhase
    /\ slotAged' = (slotAged /\ slotOwner # s)
    /\ UNCHANGED <<slotOwner, slotExpired>>

\* A controller closes the descriptor it installed, if it is still open.
CloseOwn(s) ==
    IF \E d \in openTuns : madeBy[d] = s
      THEN \E d \in openTuns : madeBy[d] = s /\ Tun!CloseReference(d)
      ELSE UNCHANGED tunVars

\* Mutant: every flow that leaves completes the cleanup, torn down or not.
FlowExitConfirming(s, to) ==
    /\ native' = [native EXCEPT ![s] = to]
    /\ confirmed' = confirmed \cup {s}
    /\ ReleaseSlot(s)

\* A flow of session s leaves native code, its connection `to`; if the
\* controller was torn down meanwhile the flow completes the cleanup.
FlowExit(s, to) ==
    IF s \in destroyed
      THEN /\ native' = [native EXCEPT ![s] = "none"]
           /\ confirmed' = confirmed \cup {s}
           /\ ReleaseSlot(s)
      ELSE /\ native' = [native EXCEPT ![s] = to]
           /\ UNCHANGED confirmed
           /\ IF to = "up" THEN SetPhase(s, "CONNECTED") ELSE UNCHANGED slotVars

\* destroyResources of controller s, up to its wait for a flow.
DestroyBegins(s) ==
    /\ destroyed' = destroyed \cup {s}
    /\ CloseOwn(s)
    /\ SetPhase(s, "TEARDOWN")
    /\ UNCHANGED <<confirmed, native>>

\* destroyResources returns NATIVE_CONFIRMED: no flow was inside.
DestroyConfirms(s) ==
    /\ native[s] # "in"
    /\ native' = [native EXCEPT ![s] = "none"]
    /\ confirmed' = confirmed \cup {s}
    /\ ReleaseSlot(s)
    /\ UNCHANGED destroyed

\* Mutant: the slot is given up when the wait for the flow expires.
DestroyTimesOutReleasing(s) ==
    /\ native[s] = "in"
    /\ ReleaseSlot(s)
    /\ UNCHANGED controllerVars

\* destroyResources returns NATIVE_UNRESOLVED: the bounded wait expired.
DestroyTimesOut(s) ==
    /\ native[s] = "in"
    /\ slotExpired' = (slotExpired \/ slotOwner = s)
    /\ UNCHANGED <<slotOwner, slotPhase, slotAged, controllerVars>>

-----------------------------------------------------------------------------
(* startVpn, on the main thread. *)

\* abandonWedgedConnectingAttemptIfAny, its 30 s bound elapsed: the attempt is
\* dropped without touching its native side.  A launched coroutine is assumed
\* to be dispatched and in connect() well before the bound.
AbandonWedged ==
    /\ pc[Main] = "idle"
    /\ ~serviceDestroyed
    /\ connectingStamp /\ connectionJob # 0 /\ ~isRunning
    /\ pc[Co(connectionJob)] \notin {"launched", "construct", "connect"}
    /\ cancelled' = cancelled \cup {connectionJob}
    /\ connectionJob' = 0
    /\ controller' = 0
    /\ connectingStamp' = FALSE
    /\ Tun!Release(sessionGeneration)
    /\ Goto(Main, "gate")
    /\ UNCHANGED <<policyVars, coVars, controllerVars, slotVars, displaced,
                   stops, stopId, back, serviceVars>>

\* The start gate accepts.  By then a soft bound of the slot (30 s, 90 s) has
\* elapsed or not; none elapses between two statements of startVpn.
GateAccepts ==
    /\ pc[Main] \in {"idle", "gate"}
    /\ ~serviceDestroyed
    /\ sessionGeneration < MaxSessions
    /\ AcceptStart(ResourcesLive)
    /\ slotAged' \in BOOLEAN
    /\ slotAged' => slotPhase \in {"CONNECTING", "TEARDOWN"}
    /\ Goto(Main, "acquire")
    /\ UNCHANGED <<policyVars, tunVars, fieldVars, coVars, controllerVars,
                   slotOwner, slotPhase, slotExpired, displaced, stops, stopId,
                   back, serviceVars>>

\* The start gate refuses (from "idle" that changes nothing).
GateRefuses ==
    /\ pc[Main] = "gate"
    /\ ~AcceptStart(ResourcesLive) \/ sessionGeneration = MaxSessions
    /\ Goto(Main, "idle")
    /\ UNCHANGED <<policyVars, tunVars, fieldVars, coVars, controllerVars,
                   slotVars, displaced, stops, stopId, back, serviceVars>>

\* The slot's owner may be displaced by one of the registry's soft bounds.
SlotReclaimable ==
    slotAged /\ (slotPhase = "CONNECTING" \/ (slotPhase = "TEARDOWN" /\ slotExpired))

\* acquireNativeSlotOrRecover grants, and the session starts.
AcquireSlot ==
    /\ pc[Main] = "acquire"
    /\ slotOwner = 0 \/ SlotReclaimable
    /\ displaced' = IF slotOwner = 0 THEN displaced ELSE displaced \cup {slotOwner}
    /\ slotOwner' = sessionGeneration + 1
    /\ slotPhase' = "RESERVED"
    /\ slotExpired' = FALSE
    /\ slotAged' = FALSE
    /\ OnSessionStart
    /\ Goto(Main, "claim")
    /\ UNCHANGED <<tunVars, fieldVars, coVars, controllerVars, stops, stopId,
                   back, serviceVars>>

\* ... or refuses: notifyNativeBusy, and the start is dropped.
NativeBusy ==
    /\ pc[Main] = "acquire"
    /\ slotOwner # 0 /\ ~SlotReclaimable
    /\ slotAged' = FALSE
    /\ Goto(Main, "idle")
    /\ UNCHANGED <<policyVars, tunVars, fieldVars, coVars, controllerVars,
                   slotOwner, slotPhase, slotExpired, displaced, stops, stopId,
                   back, serviceVars>>

\* Mutant: TUN ownership is claimed for the session being replaced.
ClaimTunForPrevious ==
    /\ pc[Main] = "claim"
    /\ Tun!TunClaim(sessionGeneration - 1)
    /\ Goto(Main, "launch")
    /\ UNCHANGED <<policyVars, fieldVars, coVars, controllerVars, slotVars,
                   displaced, stops, stopId, back, serviceVars>>

ClaimTun ==
    /\ pc[Main] = "claim"
    /\ Tun!TunClaim(sessionGeneration)
    /\ Goto(Main, "launch")
    /\ UNCHANGED <<policyVars, fieldVars, coVars, controllerVars, slotVars,
                   displaced, stops, stopId, back, serviceVars>>

\* The connect coroutine is launched, to be dispatched later.
LaunchConnect ==
    /\ pc[Main] = "launch"
    /\ connectingStamp' = TRUE
    /\ connectionJob' = sessionGeneration
    /\ pc' = [pc EXCEPT ![Main] = "idle", ![Co(sessionGeneration)] = "launched"]
    /\ UNCHANGED <<policyVars, tunVars, controller, cancelled, coVars,
                   controllerVars, slotVars, displaced, stops, stopId, back,
                   serviceVars>>

-----------------------------------------------------------------------------
(* The connect coroutine of session s. *)

CoOnly == <<policyVars, tunVars, fieldVars, coVars, controllerVars, slotVars,
            displaced, stops, stopId, back, serviceVars>>

\* The body starts, or never does because the job was cancelled first.
CoStart(s) ==
    /\ pc[Co(s)] = "launched"
    /\ Goto(Co(s), IF s \in cancelled THEN "done" ELSE "construct")
    /\ UNCHANGED CoOnly

\* controller = ConnectionController(...), whatever the field holds.
CoConstruct(s) ==
    /\ pc[Co(s)] = "construct"
    /\ controller' = s
    /\ created' = created \cup {s}
    /\ Goto(Co(s), "connect")
    /\ UNCHANGED <<policyVars, tunVars, connectionJob, connectingStamp, cancelled,
                   owned, controllerVars, slotVars, displaced, stops, stopId,
                   back, serviceVars>>

CoConstructFails(s) ==
    /\ pc[Co(s)] = "construct"
    /\ Goto(Co(s), "caught")
    /\ UNCHANGED CoOnly

\* controller?.connect() on a field that was cleared or taken over.
CoNoController(s) ==
    /\ pc[Co(s)] = "connect"
    /\ controller # s
    /\ Goto(Co(s), "returned")
    /\ UNCHANGED CoOnly

\* connect() does not start: no network, or the controller is torn down, noticed
\* before (it returns) or after (it throws) performConnect cleared its flag.
CoConnectRefused(s) ==
    /\ pc[Co(s)] \in {"connect", "retry"}
    /\ pc[Co(s)] = "connect" => controller = s
    /\ \/ pc[Co(s)] = "connect" /\ Goto(Co(s), "onError")
       \/ s \in destroyed /\ Goto(Co(s), "returned")
       \/ s \in destroyed /\ Goto(Co(s), "cancelPath")
    /\ UNCHANGED CoOnly

\* A flow enters native code; markNativeEntered.
CoEnterNative(s) ==
    /\ pc[Co(s)] \in {"connect", "retry"}
    /\ pc[Co(s)] = "connect" => controller = s
    /\ s \notin destroyed
    /\ native' = [native EXCEPT ![s] = "in"]
    /\ SetPhase(s, "CONNECTING")
    /\ Goto(Co(s), "native")
    /\ UNCHANGED <<policyVars, tunVars, fieldVars, coVars, destroyed, confirmed,
                   displaced, stops, stopId, back, serviceVars>>

\* Native connect and DHCP succeed; a teardown noticed now ends the attempt.
CoNativeReturns(s) ==
    /\ pc[Co(s)] = "native"
    /\ s \notin destroyed
    /\ Goto(Co(s), "install")
    /\ UNCHANGED CoOnly

\* It fails, or notices the teardown and throws CancellationException.
CoNativeFails(s) ==
    /\ pc[Co(s)] = "native"
    /\ FlowExit(s, "none")
    /\ Goto(Co(s), "failed") \/ (s \in destroyed /\ Goto(Co(s), "cancelPath"))
    /\ UNCHANGED <<policyVars, tunVars, fieldVars, coVars, destroyed, displaced,
                   stops, stopId, back, serviceVars>>

\* installTun, markConnected, data forwarding; connect() returns.
CoInstall(s) ==
    /\ pc[Co(s)] = "install"
    /\ Tun!Install(s)
    /\ FlowExit(s, "up")
    /\ Goto(Co(s), "returned")
    /\ UNCHANGED <<policyVars, fieldVars, coVars, destroyed, displaced, stops,
                   stopId, back, serviceVars>>

\* installTun throws: refused, or the platform declined.
CoInstallFails(s) ==
    /\ pc[Co(s)] = "install"
    /\ \/ ~Tun!MayInstall(s) /\ UNCHANGED tunVars
       \/ Tun!InstallFails(s)
    /\ FlowExit(s, "none")
    /\ Goto(Co(s), "failed")
    /\ UNCHANGED <<policyVars, fieldVars, coVars, destroyed, displaced, stops,
                   stopId, back, serviceVars>>

\* connect()'s catch: torn down, retry after a delay (which throws if the job
\* was cancelled), or give up.
CoFailed(s) ==
    /\ pc[Co(s)] = "failed"
    /\ \/ s \in destroyed /\ Goto(Co(s), "returned")
       \/ s \notin destroyed /\ s \notin cancelled /\ Goto(Co(s), "retry")
       \/ s \notin destroyed /\ s \in cancelled /\ Goto(Co(s), "cancelPath")
       \/ s \notin destroyed /\ Goto(Co(s), "onError")
    /\ UNCHANGED CoOnly

\* The session check of onError (and of the generic catch), made before and
\* apart from the stopVpn it guards.
ErrorLabels == {"onError", "caught"}

AfterError(t) ==
    IF t[1] = "reconnect" THEN "idle"
    ELSE IF pc[t] = "caught" THEN "unclaimed" ELSE "returned"

ErrorAccepted(t) ==
    /\ pc[t] \in ErrorLabels
    /\ IsCurrentSession(t[2])
    /\ Goto(t, "stopBegin")
    /\ back' = [back EXCEPT ![t] = AfterError(t)]
    /\ UNCHANGED <<policyVars, tunVars, fieldVars, coVars, controllerVars,
                   slotVars, displaced, stops, stopId, serviceVars>>

ErrorIgnored(t) ==
    /\ pc[t] \in ErrorLabels
    /\ ~IsCurrentSession(t[2])
    /\ Goto(t, AfterError(t))
    /\ UNCHANGED CoOnly

\* connect() returned: the session check ...
CoReturned(s) ==
    /\ pc[Co(s)] = "returned"
    /\ Goto(Co(s), IF IsCurrentSession(s) THEN "running" ELSE "done")
    /\ UNCHANGED CoOnly

\* ... and onRunning, for whatever session is current by now.
CoRunning(s) ==
    /\ pc[Co(s)] = "running"
    /\ OnRunning
    /\ connectingStamp' = FALSE
    /\ Goto(Co(s), "done")
    /\ UNCHANGED <<tunVars, connectionJob, controller, cancelled, coVars,
                   controllerVars, slotVars, displaced, stops, stopId, back,
                   serviceVars>>

\* The cancellation path: destroy the controller if this session is current.
CoCancelled(s) ==
    /\ pc[Co(s)] = "cancelPath"
    /\ LET mine == IF IsCurrentSession(s) THEN controller ELSE 0
       IN  /\ owned' = [owned EXCEPT ![s] = mine]
           /\ IF mine = 0
                THEN /\ Goto(Co(s), "unclaimed")
                     /\ UNCHANGED <<tunVars, controllerVars, slotVars>>
                ELSE DestroyBegins(mine) /\ Goto(Co(s), "cancelDestroy")
    /\ UNCHANGED <<policyVars, fieldVars, created, displaced, stops, stopId,
                   back, serviceVars>>

\* Its wait never expires: the flow of this session has left native code.
CoCancelDestroy(s) ==
    /\ pc[Co(s)] = "cancelDestroy"
    /\ DestroyConfirms(owned[s])
    /\ Goto(Co(s), "unclaimed")
    /\ UNCHANGED <<policyVars, tunVars, fieldVars, coVars, displaced, stops,
                   stopId, back, serviceVars>>

\* releaseLeaseIfUnclaimed, then controller = null if a controller was owned.
CoUnclaimed(s) ==
    /\ pc[Co(s)] = "unclaimed"
    /\ IF s \in created THEN UNCHANGED slotVars ELSE ReleaseSlot(s)
    /\ controller' = IF owned[s] # 0 THEN 0 ELSE controller
    /\ stopSelfCalled' = (stopSelfCalled \/ IsCurrentSession(s))
    /\ Goto(Co(s), "done")
    /\ UNCHANGED <<policyVars, tunVars, connectionJob, connectingStamp, cancelled,
                   coVars, controllerVars, displaced, stops, stopId, back,
                   serviceDestroyed>>

-----------------------------------------------------------------------------
(* The reconnect coroutine of session s's controller. *)

RepBegin(s) ==
    /\ pc[Rep(s)] = "idle"
    /\ native[s] = "up"
    /\ s \notin destroyed
    /\ native' = [native EXCEPT ![s] = "in"]
    /\ CloseOwn(s)
    /\ Goto(Rep(s), "native")
    /\ UNCHANGED <<policyVars, fieldVars, coVars, destroyed, confirmed, slotVars,
                   displaced, stops, stopId, back, serviceVars>>

RepReinstall(s) ==
    /\ pc[Rep(s)] = "native"
    /\ s \notin destroyed
    /\ Tun!Install(s)
    /\ FlowExit(s, "up")
    /\ Goto(Rep(s), "idle")
    /\ UNCHANGED <<policyVars, fieldVars, coVars, destroyed, displaced, stops,
                   stopId, back, serviceVars>>

\* Connect, DHCP or TUN installation throws: the catch reports the error, torn
\* down or not.  A teardown noticed at one of the checks is not reported; after
\* the last of them the descriptor just installed is released.
RepFails(s) ==
    /\ pc[Rep(s)] = "native"
    /\ FlowExit(s, "none")
    /\ \/ /\ Goto(Rep(s), "onError")
          /\ UNCHANGED tunVars \/ Tun!InstallFails(s)
       \/ /\ s \in destroyed
          /\ Goto(Rep(s), "idle")
          /\ UNCHANGED tunVars \/ Tun!Release(s)
    /\ UNCHANGED <<policyVars, fieldVars, coVars, destroyed, displaced, stops,
                   stopId, back, serviceVars>>

-----------------------------------------------------------------------------
(* stopVpn, on any thread, and the teardown coroutine it launches.  `by` is  *)
(* the session whose error asked for the stop, 0 for the user's disconnect.  *)

Stop(t) == stops[stopId[t]]

StopReturns(t) ==
    /\ Goto(t, back[t])
    /\ stopId' = [stopId EXCEPT ![t] = 0]
    /\ back' = [back EXCEPT ![t] = "idle"]

UserDisconnect ==
    /\ pc[Main] = "idle"
    /\ ~serviceDestroyed
    /\ Len(stops) < MaxStops
    /\ Goto(Main, "stopBegin")
    /\ back' = [back EXCEPT ![Main] = "idle"]
    /\ UNCHANGED <<policyVars, tunVars, fieldVars, coVars, controllerVars,
                   slotVars, displaced, stops, stopId, serviceVars>>

\* Mutant: the permission to establish survives until release().
StopBeginLate(t) ==
    /\ pc[t] = "stopBegin"
    /\ Len(stops) < MaxStops
    /\ stops' = Append(stops, [session |-> sessionGeneration, by |-> t[2],
                               target |-> 0, at |-> "stopping",
                               outcome |-> "none"])
    /\ stopId' = [stopId EXCEPT ![t] = Len(stops) + 1]
    /\ Goto(t, "stopDecide")
    /\ UNCHANGED <<policyVars, tunVars, fieldVars, coVars, controllerVars,
                   slotVars, displaced, back, serviceVars>>

\* The session to tear down is the current one now; its TUN permission goes.
StopBegin(t) ==
    /\ pc[t] = "stopBegin"
    /\ Len(stops) < MaxStops
    /\ stops' = Append(stops, [session |-> sessionGeneration, by |-> t[2],
                               target |-> 0, at |-> "stopping",
                               outcome |-> "none"])
    /\ stopId' = [stopId EXCEPT ![t] = Len(stops) + 1]
    /\ Tun!Invalidate(sessionGeneration)
    /\ Goto(t, "stopDecide")
    /\ UNCHANGED <<policyVars, fieldVars, coVars, controllerVars, slotVars,
                   displaced, back, serviceVars>>

\* beginTeardown says no: the waiter is told NOOP_REENTRANT.
StopReentrant(t) ==
    /\ pc[t] = "stopDecide"
    /\ NothingToTearDown(ResourcesLive)
    /\ stops' = [stops EXCEPT ![stopId[t]].at = "done",
                              ![stopId[t]].outcome = "NOOP_REENTRANT"]
    /\ StopReturns(t)
    /\ UNCHANGED <<policyVars, tunVars, fieldVars, coVars, controllerVars,
                   slotVars, displaced, serviceVars>>

\* beginTeardown says yes: the connect job is cancelled.
StopDecide(t) ==
    /\ pc[t] = "stopDecide"
    /\ ~NothingToTearDown(ResourcesLive)
    /\ BeginTeardown
    /\ cancelled' = cancelled \cup ({connectionJob} \ {0})
    /\ connectionJob' = 0
    /\ connectingStamp' = FALSE
    /\ Goto(t, "stopTake")
    /\ UNCHANGED <<tunVars, controller, coVars, controllerVars, slotVars,
                   displaced, stops, stopId, back, serviceVars>>

\* Snapshot of the controller, and controller = null.
StopTake(t) ==
    /\ pc[t] = "stopTake"
    /\ stops' = [stops EXCEPT ![stopId[t]].target = controller]
    /\ controller' = 0
    /\ Goto(t, "stopRelease")
    /\ UNCHANGED <<policyVars, tunVars, connectionJob, connectingStamp, cancelled,
                   coVars, controllerVars, slotVars, displaced, stopId, back,
                   serviceVars>>

\* tunOwnership.release, and the teardown coroutine is launched.
StopRelease(t) ==
    /\ pc[t] = "stopRelease"
    /\ Tun!Release(Stop(t).session)
    /\ stops' = [stops EXCEPT ![stopId[t]].at = "destroy"]
    /\ StopReturns(t)
    /\ UNCHANGED <<policyVars, fieldVars, coVars, controllerVars, slotVars,
                   displaced, serviceVars>>

StopStep(t) ==
    \/ StopBegin(t) \/ StopReentrant(t) \/ StopDecide(t)
    \/ StopTake(t) \/ StopRelease(t)

TeardownDestroys(i) ==
    /\ stops[i].at = "destroy"
    /\ stops[i].target # 0
    /\ DestroyBegins(stops[i].target)
    /\ stops' = [stops EXCEPT ![i].at = "wait"]
    /\ UNCHANGED <<policyVars, fieldVars, coVars, displaced, threadVars,
                   serviceVars>>

\* notifyTeardownComplete, and stopSelf if the session was not replaced.
Complete(i, outcome) ==
    /\ stops' = [stops EXCEPT ![i].at = "done", ![i].outcome = outcome]
    /\ stopSelfCalled' = (stopSelfCalled \/ IsCurrentSession(stops[i].session))
    /\ UNCHANGED serviceDestroyed

\* No controller was taken: nothing is destroyed and nothing confirmed.
TeardownWithoutController(i) ==
    /\ stops[i].at = "destroy"
    /\ stops[i].target = 0
    /\ Complete(i, "NATIVE_UNRESOLVED")
    /\ UNCHANGED <<policyVars, tunVars, fieldVars, coVars, controllerVars,
                   slotVars, displaced, threadVars>>

TeardownConfirmed(i) ==
    /\ stops[i].at = "wait"
    /\ DestroyConfirms(stops[i].target)
    /\ Complete(i, "NATIVE_CONFIRMED")
    /\ UNCHANGED <<policyVars, tunVars, fieldVars, coVars, displaced, threadVars>>

\* Mutant: completion is reported as success whatever destroyResources said.
TeardownUnresolvedAsSuccess(i) ==
    /\ stops[i].at = "wait"
    /\ DestroyTimesOut(stops[i].target)
    /\ Complete(i, "NATIVE_CONFIRMED")
    /\ UNCHANGED <<policyVars, tunVars, fieldVars, coVars, displaced, threadVars>>

TeardownUnresolved(i) ==
    /\ stops[i].at = "wait"
    /\ DestroyTimesOut(stops[i].target)
    /\ Complete(i, "NATIVE_UNRESOLVED")
    /\ UNCHANGED <<policyVars, tunVars, fieldVars, coVars, displaced, threadVars>>

TeardownStep(i) ==
    \/ TeardownDestroys(i) \/ TeardownWithoutController(i)
    \/ TeardownConfirmed(i) \/ TeardownUnresolved(i)

\* onDestroy, after a stopSelf: no session survives.  Its cleanup coroutine
\* reports to nobody (session 0).
OnDestroy ==
    /\ pc[Main] = "idle"
    /\ stopSelfCalled /\ ~serviceDestroyed
    /\ serviceDestroyed' = TRUE
    /\ cancelled' = Sessions
    /\ connectionJob' = 0
    /\ controller' = 0
    /\ Tun!ReleaseAll
    /\ stops' = Append(stops, [session |-> 0, by |-> 0, target |-> controller,
                               at |-> "destroy", outcome |-> "none"])
    /\ UNCHANGED <<policyVars, connectingStamp, coVars, controllerVars, slotVars,
                   displaced, threadVars, stopSelfCalled>>

-----------------------------------------------------------------------------
CoStep(s) ==
    \/ CoStart(s) \/ CoConstruct(s) \/ CoConstructFails(s)
    \/ CoNoController(s) \/ CoConnectRefused(s) \/ CoEnterNative(s)
    \/ CoNativeReturns(s) \/ CoNativeFails(s)
    \/ CoInstall(s) \/ CoInstallFails(s) \/ CoFailed(s)
    \/ CoReturned(s) \/ CoRunning(s)
    \/ CoCancelled(s) \/ CoCancelDestroy(s) \/ CoUnclaimed(s)

StartStep ==
    \/ AbandonWedged \/ GateAccepts \/ GateRefuses
    \/ AcquireSlot \/ NativeBusy
    \/ ClaimTun \/ LaunchConnect

Next ==
    \/ StartStep
    \/ UserDisconnect
    \/ \E s \in Sessions : CoStep(s)
    \/ \E s \in Sessions : RepBegin(s) \/ RepReinstall(s) \/ RepFails(s)
    \/ \E t \in Threads : ErrorAccepted(t) \/ ErrorIgnored(t) \/ StopStep(t)
    \/ \E i \in DOMAIN stops : TeardownStep(i)
    \/ OnDestroy

Spec == Init /\ [][Next]_vars

-----------------------------------------------------------------------------
Labels ==
    {"idle", "gate", "acquire", "claim", "launch", "launched",
     "construct", "connect", "retry", "native", "install", "failed", "onError",
     "caught", "returned", "running", "cancelPath", "cancelDestroy", "unclaimed",
     "done", "stopBegin", "stopDecide", "stopTake", "stopRelease"}

Outcomes == {"none", "NATIVE_CONFIRMED", "NATIVE_UNRESOLVED", "NOOP_REENTRANT"}

\* The types of the service's state.
TypeOK ==
    /\ isStopping \in BOOLEAN
    /\ isRunning \in BOOLEAN
    /\ sessionGeneration \in 0..MaxSessions
    /\ connectionJob \in 0..sessionGeneration
    /\ controller \in 0..sessionGeneration
    /\ connectingStamp \in BOOLEAN
    /\ cancelled \subseteq Sessions
    /\ created \subseteq 1..sessionGeneration
    /\ owned \in [Sessions -> 0..MaxSessions]
    /\ destroyed \subseteq created
    /\ confirmed \subseteq destroyed
    /\ native \in [Sessions -> {"none", "in", "up"}]
    /\ slotOwner \in 0..MaxSessions
    /\ slotPhase \in {"RESERVED", "CONNECTING", "CONNECTED", "TEARDOWN"}
    /\ slotExpired \in BOOLEAN
    /\ slotAged \in BOOLEAN
    /\ displaced \subseteq Sessions
    /\ \A i \in DOMAIN stops :
          /\ stops[i].session \in 0..MaxSessions
          /\ stops[i].by \in 0..MaxSessions
          /\ stops[i].target \in 0..MaxSessions
          /\ stops[i].at \in {"stopping", "destroy", "wait", "done"}
          /\ stops[i].outcome \in Outcomes
    /\ stopId \in [Threads -> 0..Len(stops)]
    /\ back \in [Threads -> {"idle", "returned", "unclaimed"}]
    /\ pc \in [Threads -> Labels]
    /\ stopSelfCalled \in BOOLEAN
    /\ serviceDestroyed \in BOOLEAN

\* Two sessions have native connections at the same time only if the registry
\* took the slot away from one of them: the lease claimed before a session
\* starts outlives everything teardown clears synchronously.
SingleNativeAttempt ==
    \A s, u \in Sessions :
        s # u /\ native[s] # "none" /\ native[u] # "none"
            => s \in displaced \/ u \in displaced

\* A NATIVE_CONFIRMED completion is true, and stays true: the controller it
\* is about has no native connection, never gets one again, and does not hold
\* the slot (stopVpn's teardown coroutine).
CompletionsAreTrue ==
    \A i \in DOMAIN stops :
        stops[i].outcome = "NATIVE_CONFIRMED" =>
            /\ native[stops[i].target] = "none"
            /\ slotOwner # stops[i].target

\* A start that is admitted replaces no live session: it never overwrites
\* another session's job, nor a controller nobody is tearing down
\* (decideStart, against "a live, unowned tunnel").
AdmissionOrphansNobody ==
    [][pc[Main] = "launch" /\ pc'[Main] = "idle"
          => connectionJob = 0 /\ controller \in {0} \cup destroyed]_vars

\* Once the user, or a session's own error, began to stop the session, no
\* thread of it establishes a TUN descriptor again, however long it was
\* blocked in native code.
StoppedSessionsStayDown ==
    [][Len(madeBy') > Len(madeBy) =>
          \A i \in DOMAIN stops :
              stops[i].session = madeBy'[Len(madeBy')]
                  => stops[i].by \notin {0, stops[i].session}]_vars

\* A stop that lost its session to a newer one leaves the newer session's
\* descriptor registered (tunOwnership.release(tearingDown)).
StaleStopKeepsTun ==
    [][\A t \in Threads :
          /\ pc[t] = "stopRelease" /\ pc'[t] # "stopRelease"
          /\ tun # 0 /\ madeBy[tun] # Stop(t).session
          => tun' = tun]_vars

\* The service uses the TUN coordinator as its specification allows.
UsesTunCoordinator == Tun!Spec

\* "Ignoring error from obsolete session": an error tears down only the
\* session that reported it (shouldTearDownOnError).
ErrorsStopTheirOwnSession ==
    \A i \in DOMAIN stops : stops[i].by # 0 => stops[i].session = stops[i].by

\* "Releasing it here is what keeps a session cancelled before controller
\* construction from refusing every future start": while a session holds the
\* slot, somebody will release it or a soft bound can.
SlotHasReleaser ==
    slotOwner # 0 =>
        \/ pc[Main] \in {"claim", "launch"}
        \/ pc[Co(slotOwner)] # "done"
        \/ controller = slotOwner
        \/ native[slotOwner] = "in"
        \/ slotPhase = "CONNECTING" \/ (slotPhase = "TEARDOWN" /\ slotExpired)
        \/ \E i \in DOMAIN stops :
              stops[i].target = slotOwner /\ stops[i].at # "done"

\* "only tear down the controller that belongs to THIS session": a cancelled
\* coroutine never clears the field while it holds a newer session's
\* controller.
CancelClearsOwnController ==
    [][\A s \in Sessions :
          pc[Co(s)] = "unclaimed" /\ pc'[Co(s)] = "done"
          /\ controller # 0 /\ controller # owned[s]
          => controller' = controller]_vars
=============================================================================
