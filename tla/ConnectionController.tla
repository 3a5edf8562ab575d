------------------------ MODULE ConnectionController ------------------------
(***************************************************************************)
(* One connection attempt of the SoftEther client                          *)
(* (controller/ConnectionController.kt): the connect coroutine with its    *)
(* retry loop, the automatic reconnect coroutine, and any number of        *)
(* concurrent callers of destroyResources, around one native connection    *)
(* handle, one coordinator and one process-wide lease.                     *)
(*                                                                         *)
(* A step is a lock section, a native call entered or left, or a run of    *)
(* assignments no other thread reads in between.  A native call may take   *)
(* for ever; what it works on is in `using` until it returns.  The lease   *)
(* is this attempt's view of NativeLifetimeRegistry.tla: the registry may  *)
(* take it away (ForceRelease) in the phases its soft bounds name.         *)
(*                                                                         *)
(* currentState "CONNECTING" stands for every state between DISCONNECTED   *)
(* and CONNECTED.  TUN descriptors are TunOwnershipCoordinator.tla's: here *)
(* installing one succeeds or throws.  A handle value is never reused.     *)
(***************************************************************************)
EXTENDS NativeAttemptCoordinator

CONSTANTS
    Callers,            \* threads calling destroyResources, once each
    MaxHandles,         \* bound: native connections ever created
    TailOutlastsDelay   \* may the end of connect outlast RECONNECT_DELAY_MS?

Connect == "connect"       \* the service's connection coroutine
Reconnect == "reconnect"   \* the controller's reconnectJob
Flows == {Connect, Reconnect}
Procs == Flows \cup Callers

ASSUME ControllerAssumption ==
    /\ MaxHandles \in Nat
    /\ TailOutlastsDelay \in BOOLEAN
    /\ Callers \cap Flows = {}
    /\ NoFlow \notin Flows

MAX_RECONNECT_ATTEMPTS == 2

VARIABLES
    pc,                 \* where each thread is
    isCancelled, currentState, reconnectAttempts,
    scopeCancelled,     \* destroyResources cancelled the controller's scope
    forwarding,         \* data forwarding was started: errors trigger reconnects
    created,            \* number of native connections ever created
    live,               \* native connections allocated and not freed
    using,              \* the handle a thread's current native call works on
    fresh,              \* a flow's local `created`
    flowHandle,         \* Flow.handle, read by teardown to interrupt
    claimed,            \* the handle a thread claimed and must destroy
    resume,             \* where a claim-and-destroy returns to
    ending,             \* how the connect flow ended: ok, failed, cancelled
    seenFlow,           \* the flow a teardown snapshotted
    outcome,            \* what destroyResources returned
    lease, leasePhase, deadlineExpired

nativeVars == <<created, live, using>>
localVars == <<fresh, flowHandle, claimed, resume, ending, seenFlow, outcome>>
stateVars == <<isCancelled, currentState, reconnectAttempts, scopeCancelled,
               forwarding>>
leaseVars == <<lease, leasePhase, deadlineExpired>>
vars == <<slotVars, coordinatorVars, pc, stateVars, nativeVars, localVars,
          leaseVars>>

Handles == 1..MaxHandles

Init ==
    /\ SlotInit
    /\ CoordinatorInit
    /\ pc = [p \in Procs |-> "idle"]
    /\ isCancelled = FALSE
    /\ currentState = "DISCONNECTED"
    /\ reconnectAttempts = 0
    /\ scopeCancelled = FALSE
    /\ forwarding = FALSE
    /\ created = 0
    /\ live = {}
    /\ using = [p \in Procs |-> NoHandle]
    /\ fresh = [t \in Flows |-> NoHandle]
    /\ flowHandle = [t \in Flows |-> NoHandle]
    /\ claimed = [p \in Procs |-> NoHandle]
    /\ resume = [p \in Procs |-> "exit"]
    /\ ending = "ok"
    /\ seenFlow = [d \in Callers |-> NoFlow]
    /\ outcome = [d \in Callers |-> "none"]
    /\ lease = "held"
    /\ leasePhase = "RESERVED"
    /\ deadlineExpired = FALSE

Goto(p, l) == pc' = [pc EXCEPT ![p] = l]

\* The test attemptReconnect repeats after every blocking step.
Aborted == isCancelled \/ destroyed \/ currentState = "DISCONNECTED"

-----------------------------------------------------------------------------
(* The connect coroutine, up to its native work. *)

\* connect: not started once cancelled.
ConnectStart ==
    /\ pc[Connect] = "idle"
    /\ IF isCancelled THEN Goto(Connect, "done") ELSE Goto(Connect, "perform")
    /\ reconnectAttempts' = IF isCancelled THEN reconnectAttempts ELSE 0
    /\ UNCHANGED <<slotVars, coordinatorVars, isCancelled, currentState,
                   scopeCancelled, forwarding, nativeVars, localVars, leaseVars>>

\* performConnect clears the cancel flag a teardown may just have set.
PerformConnect ==
    /\ pc[Connect] = "perform"
    /\ Goto(Connect, "check")
    /\ currentState' = "CONNECTING"
    /\ isCancelled' = FALSE
    /\ UNCHANGED <<slotVars, coordinatorVars, reconnectAttempts, scopeCancelled,
                   forwarding, nativeVars, localVars, leaseVars>>

\* The fast-path isDestroyed check of performConnect.
CheckDestroyed ==
    /\ pc[Connect] = "check"
    /\ IF destroyed THEN Goto(Connect, "done") ELSE Goto(Connect, "begin")
    /\ isCancelled' = (isCancelled \/ destroyed)
    /\ UNCHANGED <<slotVars, coordinatorVars, currentState, reconnectAttempts,
                   scopeCancelled, forwarding, nativeVars, localVars, leaseVars>>

\* beginFlow refused: teardown won the lock.
BeginRefused(t) ==
    /\ pc[t] = "begin"
    /\ destroyed
    /\ IF t = Connect THEN Goto(t, "done") ELSE Goto(t, "idle")
    /\ isCancelled' = (isCancelled \/ t = Connect)
    /\ UNCHANGED <<slotVars, coordinatorVars, currentState, reconnectAttempts,
                   scopeCancelled, forwarding, nativeVars, localVars, leaseVars>>

BeginFlow(t) ==
    /\ pc[t] = "begin"
    /\ RegisterFlow(t)
    /\ IF t = Connect THEN Goto(t, "mark") ELSE Goto(t, "create")
    /\ flowHandle' = [flowHandle EXCEPT ![t] = NoHandle]
    /\ UNCHANGED <<slotVars, stateVars, nativeVars, fresh, claimed, resume,
                   ending, seenFlow, outcome, leaseVars>>

\* markNativeEntered on this attempt's lease (the reconnect does not call it).
MarkNativeEntered ==
    /\ pc[Connect] = "mark"
    /\ Goto(Connect, "create")
    /\ leasePhase' = IF lease = "held" THEN "CONNECTING" ELSE leasePhase
    /\ UNCHANGED <<slotVars, coordinatorVars, stateVars, nativeVars, localVars,
                   lease, deadlineExpired>>

-----------------------------------------------------------------------------
(* The native work both flows do. *)

\* Mutant: performConnect has no catch, only the finally.
ThrowWithoutTeardown(t, how) ==
    /\ IF t = Connect THEN Goto(t, "exit") ELSE Goto(t, "failed")
    /\ UNCHANGED resume
    /\ ending' = IF t = Connect THEN how ELSE ending

\* The exception path of a flow: performConnect's catch destroys and leaves,
\* attemptReconnect's catch destroys, reports and leaves.
Throw(t, how) ==
    /\ Goto(t, "claim")
    /\ resume' = [resume EXCEPT ![t] = IF t = Connect THEN "exit" ELSE "failed"]
    /\ ending' = IF t = Connect THEN how ELSE ending

\* attemptReconnect's early exits inside a flow: destroy and return.
AbortReconnect ==
    /\ Goto(Reconnect, "claim")
    /\ resume' = [resume EXCEPT ![Reconnect] = "exit"]
    /\ UNCHANGED ending

NativeCreate(t) ==
    /\ pc[t] = "create"
    /\ created < MaxHandles
    /\ created' = created + 1
    /\ live' = live \cup {created + 1}
    /\ fresh' = [fresh EXCEPT ![t] = created + 1]
    /\ Goto(t, "publishFlow")
    /\ UNCHANGED <<slotVars, coordinatorVars, stateVars, using, flowHandle,
                   claimed, resume, ending, seenFlow, outcome, leaseVars>>

\* nativeCreate returns 0.
NativeCreateFails(t) ==
    /\ pc[t] = "create"
    /\ Throw(t, "failed")
    /\ UNCHANGED <<slotVars, coordinatorVars, stateVars, nativeVars, fresh,
                   flowHandle, claimed, seenFlow, outcome, leaseVars>>

\* flow.publishHandle(created), before the slot knows the handle.
PublishFlow(t) ==
    /\ pc[t] = "publishFlow"
    /\ flowHandle' = [flowHandle EXCEPT ![t] = fresh[t]]
    /\ Goto(t, "publishSlot")
    /\ UNCHANGED <<slotVars, coordinatorVars, stateVars, nativeVars, fresh,
                   claimed, resume, ending, seenFlow, outcome, leaseVars>>

\* nativeHandle = created: a refused publish is silently dropped.
PublishSlot(t) ==
    /\ pc[t] = "publishSlot"
    /\ Publish(fresh[t])
    /\ Goto(t, "enter")
    /\ UNCHANGED <<coordinatorVars, stateVars, nativeVars, localVars, leaseVars>>

\* nativeConnectWithHub(nativeHandle, ...) is entered.  Before it, arming the
\* socket protector may fail, and performConnectInner gives up if cancelled.
EnterConnect(t) ==
    /\ pc[t] = "enter"
    /\ t = Connect => ~isCancelled
    /\ using' = [using EXCEPT ![t] = handle]
    /\ Goto(t, "native")
    /\ currentState' = IF t = Connect THEN "CONNECTING" ELSE currentState
    /\ UNCHANGED <<slotVars, coordinatorVars, isCancelled, reconnectAttempts,
                   scopeCancelled, forwarding, created, live, localVars,
                   leaseVars>>

EnterConnectFails(t) ==
    /\ pc[t] = "enter"
    /\ \/ Throw(t, "failed")
       \/ t = Connect /\ isCancelled /\ Throw(t, "cancelled")
    /\ UNCHANGED <<slotVars, coordinatorVars, stateVars, nativeVars, fresh,
                   flowHandle, claimed, seenFlow, outcome, leaseVars>>

Return(t) == using' = [using EXCEPT ![t] = NoHandle]

\* nativeConnectWithHub succeeds and the certificate pin does not object.
ConnectReturns(t) ==
    /\ pc[t] = "native"
    /\ using[t] # NoHandle
    /\ t = Connect => ~isCancelled
    /\ Return(t)
    /\ Goto(t, "enterDhcp")
    /\ reconnectAttempts' = IF t = Connect THEN 0 ELSE reconnectAttempts
    /\ UNCHANGED <<slotVars, coordinatorVars, isCancelled, currentState,
                   scopeCancelled, forwarding, created, live, localVars,
                   leaseVars>>

\* nativeConnectWithHub fails (always, on a zero handle).
ConnectErrs(t) ==
    /\ pc[t] = "native"
    /\ Return(t)
    /\ IF t = Connect /\ isCancelled
         THEN Throw(t, "cancelled") /\ UNCHANGED currentState
         ELSE /\ Throw(t, "failed")
              /\ currentState' = IF t = Connect THEN "ERROR" ELSE currentState
    /\ UNCHANGED <<slotVars, coordinatorVars, isCancelled, reconnectAttempts,
                   scopeCancelled, forwarding, created, live, fresh, flowHandle,
                   claimed, seenFlow, outcome, leaseVars>>

\* verifyTofuAfterHandshake says BLOCK: no retry, no second report.
PinMismatch(t) ==
    /\ pc[t] = "native"
    /\ using[t] # NoHandle
    /\ t = Connect => ~isCancelled
    /\ Return(t)
    /\ isCancelled' = TRUE
    /\ currentState' = "ERROR"
    /\ IF t = Connect THEN Throw(t, "failed") ELSE AbortReconnect
    /\ UNCHANGED <<slotVars, coordinatorVars, reconnectAttempts, scopeCancelled,
                   forwarding, created, live, fresh, flowHandle, claimed,
                   seenFlow, outcome, leaseVars>>

\* doDhcp(nativeHandle) is entered, unless the flow notices a cancellation.
EnterDhcp(t) ==
    /\ pc[t] = "enterDhcp"
    /\ IF t = Connect THEN ~isCancelled ELSE ~Aborted
    /\ using' = [using EXCEPT ![t] = handle]
    /\ Goto(t, "dhcp")
    /\ UNCHANGED <<slotVars, coordinatorVars, stateVars, created, live,
                   localVars, leaseVars>>

EnterDhcpCancelled(t) ==
    /\ pc[t] = "enterDhcp"
    /\ \/ t = Connect /\ isCancelled /\ Throw(t, "cancelled")
       \/ t = Reconnect /\ Aborted /\ AbortReconnect
    /\ UNCHANGED <<slotVars, coordinatorVars, stateVars, nativeVars, fresh,
                   flowHandle, claimed, seenFlow, outcome, leaseVars>>

\* doDhcp returns.  The reconnect looks for a cancellation only when it got an
\* address, the connect flow always does.
DhcpReturns(t) ==
    /\ pc[t] = "dhcp"
    /\ t = Connect => ~isCancelled
    /\ Return(t)
    /\ Goto(t, "install")
    /\ UNCHANGED <<slotVars, coordinatorVars, stateVars, created, live,
                   localVars, leaseVars>>

DhcpReturnsCancelled(t) ==
    /\ pc[t] = "dhcp"
    /\ Return(t)
    /\ \/ t = Connect /\ isCancelled /\ Throw(t, "cancelled")
       \/ t = Reconnect /\ Aborted /\ AbortReconnect
    /\ UNCHANGED <<slotVars, coordinatorVars, stateVars, created, live, fresh,
                   flowHandle, claimed, seenFlow, outcome, leaseVars>>

\* installTun refused: this session does not own TUN establishment any more.
InstallRefused(t) ==
    /\ pc[t] = "install"
    /\ Throw(t, "failed")
    /\ UNCHANGED <<slotVars, coordinatorVars, stateVars, nativeVars, fresh,
                   flowHandle, claimed, seenFlow, outcome, leaseVars>>

\* installTun succeeds; the reconnect then looks for a cancellation once more
\* and otherwise, like the connect flow, markConnected runs on the lease.
InstallTun(t) ==
    /\ pc[t] = "install"
    /\ t = Reconnect => ~Aborted
    /\ Goto(t, "connected")
    /\ leasePhase' = IF lease = "held" THEN "CONNECTED" ELSE leasePhase
    /\ UNCHANGED <<slotVars, coordinatorVars, stateVars, nativeVars, localVars,
                   lease, deadlineExpired>>

InstallAborted ==
    /\ pc[Reconnect] = "install"
    /\ Aborted
    /\ AbortReconnect
    /\ UNCHANGED <<slotVars, coordinatorVars, stateVars, nativeVars, fresh,
                   flowHandle, claimed, seenFlow, outcome, leaseVars>>

\* currentState = CONNECTED and startDataForwarding: the tunnel is up.
StartForwarding(t) ==
    /\ pc[t] = "connected"
    /\ currentState' = "CONNECTED"
    /\ forwarding' = TRUE
    /\ reconnectAttempts' = IF t = Reconnect THEN 0 ELSE reconnectAttempts
    /\ ending' = IF t = Connect THEN "ok" ELSE ending
    /\ Goto(t, "exit")
    /\ UNCHANGED <<slotVars, coordinatorVars, isCancelled, scopeCancelled,
                   nativeVars, fresh, flowHandle, claimed, resume, seenFlow,
                   outcome, leaseVars>>

\* startDataForwarding throws: destroyResources set vpnInterface to null.
StartForwardingThrows(t) ==
    /\ pc[t] = "connected"
    /\ scopeCancelled
    /\ currentState' = "CONNECTED"
    /\ Throw(t, "failed")
    /\ UNCHANGED <<slotVars, coordinatorVars, isCancelled, reconnectAttempts,
                   scopeCancelled, forwarding, nativeVars, fresh, flowHandle,
                   claimed, seenFlow, outcome, leaseVars>>

-----------------------------------------------------------------------------
(* Claim and destroy: claimAndDestroyNativeHandle of the flows, and the      *)
(* body of runCleanup (resume "cleanup") of the cleanup owner.               *)

Claim(p) ==
    /\ pc[p] = "claim"
    /\ ClaimTakes
    /\ claimed' = [claimed EXCEPT ![p] = handle]
    /\ Goto(p, "destroy")
    /\ UNCHANGED <<coordinatorVars, stateVars, nativeVars, fresh, flowHandle,
                   resume, ending, seenFlow, outcome, leaseVars>>

ClaimNothing(p) ==
    /\ pc[p] = "claim"
    /\ ClaimFindsNothing
    /\ IF resume[p] = "cleanup" THEN Goto(p, "release") ELSE Goto(p, resume[p])
    /\ UNCHANGED <<coordinatorVars, stateVars, nativeVars, localVars, leaseVars>>

ClaimLost(p) ==
    /\ pc[p] = "claim"
    /\ ClaimFindsLost
    /\ IF resume[p] = "cleanup" THEN Goto(p, "finish") ELSE Goto(p, resume[p])
    /\ UNCHANGED <<coordinatorVars, stateVars, nativeVars, localVars, leaseVars>>

\* nativeDestroy (after nativeDisconnect, for the flows) returned.
DestroyReturns(p) ==
    /\ pc[p] = "destroy"
    /\ live' = live \ {claimed[p]}
    /\ SettleDestroyed
    /\ claimed' = [claimed EXCEPT ![p] = NoHandle]
    /\ IF resume[p] = "cleanup" THEN Goto(p, "release") ELSE Goto(p, resume[p])
    /\ UNCHANGED <<coordinatorVars, stateVars, created, using, fresh,
                   flowHandle, resume, ending, seenFlow, outcome, leaseVars>>

\* Mutant: a destroy that threw is taken for a completed one.
DestroyThrowsUnnoticed(p) ==
    /\ pc[p] = "destroy"
    /\ live' \in {live, live \ {claimed[p]}}
    /\ SettleDestroyed
    /\ claimed' = [claimed EXCEPT ![p] = NoHandle]
    /\ IF resume[p] = "cleanup" THEN Goto(p, "release") ELSE Goto(p, resume[p])
    /\ UNCHANGED <<coordinatorVars, stateVars, created, using, fresh,
                   flowHandle, resume, ending, seenFlow, outcome, leaseVars>>

\* It threw: the structure may or may not have been freed.
DestroyThrows(p) ==
    /\ pc[p] = "destroy"
    /\ live' \in {live, live \ {claimed[p]}}
    /\ SettleLost
    /\ claimed' = [claimed EXCEPT ![p] = NoHandle]
    /\ IF resume[p] = "cleanup" THEN Goto(p, "finish") ELSE Goto(p, resume[p])
    /\ UNCHANGED <<coordinatorVars, stateVars, created, using, fresh,
                   flowHandle, resume, ending, seenFlow, outcome, leaseVars>>

\* releaseLease: confirmTeardown, a no-op once the registry took it away.
Release(p) ==
    /\ pc[p] = "release"
    /\ lease' = IF lease = "held" THEN "released" ELSE lease
    /\ Goto(p, "finishConfirmed")
    /\ UNCHANGED <<slotVars, coordinatorVars, stateVars, nativeVars, localVars,
                   leasePhase, deadlineExpired>>

\* The end of runCleanup; a teardown caller then has its outcome.
Finish(p) ==
    /\ pc[p] \in {"finish", "finishConfirmed"}
    /\ FinishCleanup(pc[p] = "finishConfirmed")
    /\ IF p \in Flows
         THEN Goto(p, "after") /\ UNCHANGED outcome
         ELSE IF pc[p] = "finishConfirmed"
           THEN /\ outcome' = [outcome EXCEPT ![p] = "CONFIRMED"]
                /\ Goto(p, "done")
           ELSE Goto(p, "expire") /\ UNCHANGED outcome
    /\ UNCHANGED <<slotVars, stateVars, nativeVars, fresh, flowHandle, claimed,
                   resume, ending, seenFlow, leaseVars>>

-----------------------------------------------------------------------------
(* Leaving a flow. *)

\* Mutant: an exiting flow never takes over the cleanup of a teardown that
\* timed out waiting for it.
ExitNeverCleans(t) ==
    /\ pc[t] = "exit"
    /\ t \in inFlow
    /\ inFlow' = inFlow \ {t}
    /\ activeFlow' = IF activeFlow = t THEN NoFlow ELSE activeFlow
    /\ Goto(t, "after")
    /\ UNCHANGED <<slotVars, destroyed, cleanupClaimed, cleanupFinished,
                   cleanupConfirmed, stateVars, nativeVars, localVars, leaseVars>>

\* flow.exit() in the finally of both flows.
Exit(t) ==
    /\ pc[t] = "exit"
    /\ t \in inFlow
    /\ ExitFlow(t)
    /\ IF ExitOwnsCleanup
         THEN Goto(t, "claim") /\ resume' = [resume EXCEPT ![t] = "cleanup"]
         ELSE Goto(t, "after") /\ UNCHANGED resume
    /\ UNCHANGED <<slotVars, stateVars, nativeVars, fresh, flowHandle, claimed,
                   ending, seenFlow, outcome, leaseVars>>

\* attemptReconnect's finally when it never registered a flow.
ExitWithoutFlow ==
    /\ pc[Reconnect] = "exit"
    /\ Reconnect \notin inFlow
    /\ Goto(Reconnect, "idle")
    /\ UNCHANGED <<slotVars, coordinatorVars, stateVars, nativeVars, localVars,
                   leaseVars>>

\* connect's loop after performConnect: done, or the attempt failed and there
\* is budget and network for another one.
ConnectEnds ==
    /\ pc[Connect] = "after"
    /\ ending # "failed" \/ isCancelled
    /\ Goto(Connect, "done")
    /\ UNCHANGED <<slotVars, coordinatorVars, stateVars, nativeVars, localVars,
                   leaseVars>>

ConnectGivesUp ==
    /\ pc[Connect] = "after"
    /\ ending = "failed" /\ ~isCancelled
    /\ currentState' = "DISCONNECTED"
    /\ \/ UNCHANGED reconnectAttempts        \* no network
       \/ /\ reconnectAttempts + 1 >= MAX_RECONNECT_ATTEMPTS
          /\ reconnectAttempts' = reconnectAttempts + 1
    /\ Goto(Connect, "done")
    /\ UNCHANGED <<slotVars, coordinatorVars, isCancelled, scopeCancelled,
                   forwarding, nativeVars, localVars, leaseVars>>

\* Mutant: the retry budget is off by one.
ConnectRetriesOnceMore ==
    /\ pc[Connect] = "after"
    /\ ending = "failed" /\ ~isCancelled
    /\ reconnectAttempts + 1 <= MAX_RECONNECT_ATTEMPTS
    /\ reconnectAttempts' = reconnectAttempts + 1
    /\ Goto(Connect, "retryDelay")
    /\ UNCHANGED <<slotVars, coordinatorVars, isCancelled, currentState,
                   scopeCancelled, forwarding, nativeVars, localVars, leaseVars>>

ConnectRetries ==
    /\ pc[Connect] = "after"
    /\ ending = "failed" /\ ~isCancelled
    /\ reconnectAttempts + 1 < MAX_RECONNECT_ATTEMPTS
    /\ reconnectAttempts' = reconnectAttempts + 1
    /\ Goto(Connect, "retryDelay")
    /\ UNCHANGED <<slotVars, coordinatorVars, isCancelled, currentState,
                   scopeCancelled, forwarding, nativeVars, localVars, leaseVars>>

\* delay(RECONNECT_DELAY_MS): over, or the service cancelled the coroutine.
RetryDelayOver ==
    /\ pc[Connect] = "retryDelay"
    /\ Goto(Connect, "perform") \/ Goto(Connect, "done")
    /\ UNCHANGED <<slotVars, coordinatorVars, stateVars, nativeVars, localVars,
                   leaseVars>>

-----------------------------------------------------------------------------
(* The reconnect coroutine. *)

\* triggerReconnect, from the send, receive and keepalive loops.
TriggerReconnect ==
    /\ forwarding
    /\ ~Aborted
    /\ ~scopeCancelled
    /\ pc[Reconnect] = "idle"
    /\ Goto(Reconnect, "start")
    /\ UNCHANGED <<slotVars, coordinatorVars, stateVars, nativeVars, localVars,
                   leaseVars>>

\* attemptReconnect's entry checks and its budget.
ReconnectStart ==
    /\ pc[Reconnect] = "start"
    /\ ~lost /\ ~Aborted
    /\ reconnectAttempts + 1 < MAX_RECONNECT_ATTEMPTS
    /\ reconnectAttempts' = reconnectAttempts + 1
    /\ Goto(Reconnect, "reset")
    /\ UNCHANGED <<slotVars, coordinatorVars, isCancelled, currentState,
                   scopeCancelled, forwarding, nativeVars, localVars, leaseVars>>

ReconnectSkipped ==
    /\ pc[Reconnect] = "start"
    /\ lost \/ Aborted
    /\ Goto(Reconnect, "idle")
    /\ UNCHANGED <<slotVars, coordinatorVars, stateVars, nativeVars, localVars,
                   leaseVars>>

\* isCancelled.set(false), and on to the old handle, outside any flow.
ReconnectReset ==
    /\ pc[Reconnect] = "reset"
    /\ isCancelled' = FALSE
    /\ Goto(Reconnect, "claim")
    /\ resume' = [resume EXCEPT ![Reconnect] = "recheck"]
    /\ UNCHANGED <<slotVars, coordinatorVars, currentState, reconnectAttempts,
                   scopeCancelled, forwarding, nativeVars, fresh, flowHandle,
                   claimed, ending, seenFlow, outcome, leaseVars>>

ReconnectRecheck ==
    /\ pc[Reconnect] = "recheck"
    /\ IF Aborted THEN Goto(Reconnect, "idle") ELSE Goto(Reconnect, "delay")
    /\ currentState' = IF Aborted THEN currentState ELSE "CONNECTING"
    /\ UNCHANGED <<slotVars, coordinatorVars, isCancelled, reconnectAttempts,
                   scopeCancelled, forwarding, nativeVars, localVars, leaseVars>>

\* delay(RECONNECT_DELAY_MS) is over.  By then the connect flow has left,
\* unless TailOutlastsDelay.
ReconnectDelayOver ==
    /\ pc[Reconnect] = "delay"
    /\ TailOutlastsDelay \/ Connect \notin inFlow
    /\ IF Aborted THEN Goto(Reconnect, "idle") ELSE Goto(Reconnect, "begin")
    /\ UNCHANGED <<slotVars, coordinatorVars, stateVars, nativeVars, localVars,
                   leaseVars>>

\* The delay throws CancellationException, which catch (e: Exception) takes
\* for a failed reconnect.
ReconnectDelayCancelled ==
    /\ pc[Reconnect] = "delay"
    /\ scopeCancelled
    /\ Throw(Reconnect, "failed")
    /\ UNCHANGED <<slotVars, coordinatorVars, stateVars, nativeVars, fresh,
                   flowHandle, claimed, seenFlow, outcome, leaseVars>>

\* The end of attemptReconnect's catch.
ReconnectFailed ==
    /\ pc[Reconnect] = "failed"
    /\ currentState' = "DISCONNECTED"
    /\ reconnectAttempts' = 0
    /\ Goto(Reconnect, "exit")
    /\ UNCHANGED <<slotVars, coordinatorVars, isCancelled, scopeCancelled,
                   forwarding, nativeVars, localVars, leaseVars>>

ReconnectEnds ==
    /\ pc[Reconnect] = "after"
    /\ Goto(Reconnect, "idle")
    /\ UNCHANGED <<slotVars, coordinatorVars, stateVars, nativeVars, localVars,
                   leaseVars>>

-----------------------------------------------------------------------------
(* destroyResources, by caller d. *)

DestroyResources(d) ==
    /\ pc[d] = "idle"
    /\ isCancelled' = TRUE
    /\ Goto(d, "mark")
    /\ UNCHANGED <<slotVars, coordinatorVars, currentState, reconnectAttempts,
                   scopeCancelled, forwarding, nativeVars, localVars, leaseVars>>

\* DISCONNECTED, markTeardownRequested, and the scope with its jobs cancelled.
MarkTeardownRequested(d) ==
    /\ pc[d] = "mark"
    /\ currentState' = "DISCONNECTED"
    /\ scopeCancelled' = TRUE
    /\ leasePhase' = IF lease = "held" THEN "TEARDOWN" ELSE leasePhase
    /\ Goto(d, "request")
    /\ UNCHANGED <<slotVars, coordinatorVars, isCancelled, reconnectAttempts,
                   forwarding, nativeVars, localVars, lease, deadlineExpired>>

\* requestTeardown: terminal flag and snapshot of the active flow.
RequestTeardown(d) ==
    /\ pc[d] = "request"
    /\ BeginTeardown
    /\ seenFlow' = [seenFlow EXCEPT ![d] = activeFlow]
    /\ IF activeFlow = NoFlow
         THEN Goto(d, "claimCleanup")
         ELSE Goto(d, "interrupt")
    /\ UNCHANGED <<slotVars, stateVars, nativeVars, fresh, flowHandle, claimed,
                   resume, ending, outcome, leaseVars>>

\* interruptNative(flow.currentHandle), entered without any lock.
Interrupt(d) ==
    /\ pc[d] = "interrupt"
    /\ using' = [using EXCEPT ![d] = flowHandle[seenFlow[d]]]
    /\ Goto(d, "interrupting")
    /\ UNCHANGED <<slotVars, coordinatorVars, stateVars, created, live,
                   localVars, leaseVars>>

InterruptReturns(d) ==
    /\ pc[d] = "interrupting"
    /\ Return(d)
    /\ Goto(d, "await")
    /\ UNCHANGED <<slotVars, coordinatorVars, stateVars, created, live,
                   localVars, leaseVars>>

\* flow.awaitExit: the flow left, or the wait expired.
FlowExited(d) ==
    /\ pc[d] = "await"
    /\ seenFlow[d] \notin inFlow
    /\ Goto(d, "claimCleanup")
    /\ UNCHANGED <<slotVars, coordinatorVars, stateVars, nativeVars, localVars,
                   leaseVars>>

\* Mutant: on timeout the caller goes on to destroy under the running flow.
AwaitExitGivesUp(d) ==
    /\ pc[d] = "await"
    /\ seenFlow[d] \in inFlow
    /\ Goto(d, "claimCleanup")
    /\ UNCHANGED <<slotVars, coordinatorVars, stateVars, nativeVars, localVars,
                   leaseVars>>

\* Mutant: the wait for the flow is not bounded.
AwaitExitForever(d) ==
    /\ pc[d] = "await"
    /\ FALSE
    /\ UNCHANGED vars

AwaitExitExpires(d) ==
    /\ pc[d] = "await"
    /\ seenFlow[d] \in inFlow
    /\ Goto(d, "expire")
    /\ UNCHANGED <<slotVars, coordinatorVars, stateVars, nativeVars, localVars,
                   leaseVars>>

TakeCleanup(d) ==
    /\ pc[d] = "claimCleanup"
    /\ ClaimCleanup
    /\ Goto(d, "claim")
    /\ resume' = [resume EXCEPT ![d] = "cleanup"]
    /\ UNCHANGED <<slotVars, stateVars, nativeVars, fresh, flowHandle, claimed,
                   ending, seenFlow, outcome, leaseVars>>

\* Somebody else owns the cleanup: wait for the result, bounded.
CleanupOwned(d) ==
    /\ pc[d] = "claimCleanup"
    /\ cleanupClaimed
    /\ Goto(d, "awaitCleanup")
    /\ UNCHANGED <<slotVars, coordinatorVars, stateVars, nativeVars, localVars,
                   leaseVars>>

CleanupDone(d) ==
    /\ pc[d] = "awaitCleanup"
    /\ cleanupFinished
    /\ IF cleanupConfirmed
         THEN /\ outcome' = [outcome EXCEPT ![d] = "ALREADY_CONFIRMED"]
              /\ Goto(d, "done")
         ELSE Goto(d, "expire") /\ UNCHANGED outcome
    /\ UNCHANGED <<slotVars, coordinatorVars, stateVars, nativeVars, fresh,
                   flowHandle, claimed, resume, ending, seenFlow, leaseVars>>

AwaitCleanupExpires(d) ==
    /\ pc[d] = "awaitCleanup"
    /\ ~cleanupFinished
    /\ Goto(d, "expire")
    /\ UNCHANGED <<slotVars, coordinatorVars, stateVars, nativeVars, localVars,
                   leaseVars>>

\* UNRESOLVED: markDeadlineExpired on the lease, nothing is released.
Unresolved(d) ==
    /\ pc[d] = "expire"
    /\ deadlineExpired' = (deadlineExpired \/ lease = "held")
    /\ outcome' = [outcome EXCEPT ![d] = "UNRESOLVED"]
    /\ Goto(d, "done")
    /\ UNCHANGED <<slotVars, coordinatorVars, stateVars, nativeVars, fresh,
                   flowHandle, claimed, resume, ending, seenFlow, lease,
                   leasePhase>>

-----------------------------------------------------------------------------
\* The registry's soft bounds, evaluated when a new attempt asks for the slot.
SoftBoundApplies ==
    \/ leasePhase = "TEARDOWN" /\ deadlineExpired
    \/ leasePhase = "CONNECTING"

ForceRelease ==
    /\ lease = "held"
    /\ SoftBoundApplies
    /\ lease' = "forced"
    /\ UNCHANGED <<slotVars, coordinatorVars, pc, stateVars, nativeVars,
                   localVars, leasePhase, deadlineExpired>>

\* Steps of a flow inside native code: how long they take is the network's.
NativeReturn(t) ==
    \/ ConnectReturns(t) \/ ConnectErrs(t) \/ PinMismatch(t)
    \/ DhcpReturns(t) \/ DhcpReturnsCancelled(t)

FlowStep(t) ==
    \/ BeginRefused(t) \/ BeginFlow(t)
    \/ NativeCreate(t) \/ NativeCreateFails(t)
    \/ PublishFlow(t) \/ PublishSlot(t)
    \/ EnterConnect(t) \/ EnterConnectFails(t)
    \/ EnterDhcp(t) \/ EnterDhcpCancelled(t)
    \/ InstallRefused(t) \/ InstallTun(t)
    \/ StartForwarding(t) \/ StartForwardingThrows(t)
    \/ Exit(t)

ConnectStep ==
    \/ PerformConnect \/ CheckDestroyed \/ MarkNativeEntered
    \/ ConnectEnds \/ ConnectGivesUp \/ ConnectRetries \/ RetryDelayOver

ReconnectStep ==
    \/ ReconnectStart \/ ReconnectSkipped \/ ReconnectReset \/ ReconnectRecheck
    \/ ReconnectDelayOver \/ ReconnectDelayCancelled \/ ReconnectFailed
    \/ InstallAborted \/ ExitWithoutFlow \/ ReconnectEnds

NativeDestroy(p) == DestroyReturns(p) \/ DestroyThrows(p)

CleanupStep(p) ==
    \/ Claim(p) \/ ClaimNothing(p) \/ ClaimLost(p)
    \/ Release(p) \/ Finish(p)

CallerStep(d) ==
    \/ MarkTeardownRequested(d) \/ RequestTeardown(d)
    \/ Interrupt(d) \/ InterruptReturns(d)
    \/ FlowExited(d) \/ AwaitExitExpires(d)
    \/ TakeCleanup(d) \/ CleanupOwned(d)
    \/ CleanupDone(d) \/ AwaitCleanupExpires(d) \/ Unresolved(d)

Next ==
    \/ ConnectStart \/ ConnectStep
    \/ TriggerReconnect \/ ReconnectStep
    \/ \E t \in Flows : FlowStep(t) \/ NativeReturn(t)
    \/ \E p \in Procs : CleanupStep(p) \/ NativeDestroy(p)
    \/ \E d \in Callers : DestroyResources(d) \/ CallerStep(d)
    \/ ForceRelease

Spec == Init /\ [][Next]_vars

\* The fairness of the threads: whoever can take a step eventually does, the
\* bounded waits expire and nativeDestroy returns or throws.  A connect or
\* DHCP call may block for ever (no WF of NativeReturn), and nothing forces a
\* teardown, a reconnect or a soft bound.
FairSpec ==
    /\ Spec
    /\ WF_vars(ConnectStep)
    /\ WF_vars(ReconnectStep)
    /\ \A t \in Flows : WF_vars(FlowStep(t))
    /\ \A p \in Procs : WF_vars(CleanupStep(p)) /\ WF_vars(NativeDestroy(p))
    /\ \A d \in Callers : WF_vars(CallerStep(d))

-----------------------------------------------------------------------------
Labels ==
    {"idle", "perform", "check", "begin", "mark", "create", "publishFlow",
     "publishSlot", "enter", "native", "enterDhcp", "dhcp", "install",
     "connected", "claim", "destroy", "release", "finish", "finishConfirmed",
     "exit", "after", "retryDelay", "done", "start", "reset", "recheck",
     "delay", "failed", "request", "interrupt", "interrupting", "await",
     "claimCleanup", "awaitCleanup", "expire"}

\* The types of the controller's state, its coordinator's and its slot's.
TypeOK ==
    /\ handle \in 0..created
    /\ destroyInFlight \in BOOLEAN
    /\ lost \in BOOLEAN
    /\ destroyed \in BOOLEAN
    /\ activeFlow \in Flows \cup {NoFlow}
    /\ inFlow \subseteq Flows
    /\ cleanupClaimed \in BOOLEAN
    /\ cleanupFinished \in BOOLEAN
    /\ cleanupConfirmed \in BOOLEAN
    /\ pc \in [Procs -> Labels]
    /\ isCancelled \in BOOLEAN
    /\ currentState \in {"DISCONNECTED", "CONNECTING", "CONNECTED", "ERROR"}
    /\ reconnectAttempts \in 0..MAX_RECONNECT_ATTEMPTS
    /\ scopeCancelled \in BOOLEAN
    /\ forwarding \in BOOLEAN
    /\ created \in 0..MaxHandles
    /\ live \subseteq 1..created
    /\ using \in [Procs -> 0..MaxHandles]
    /\ fresh \in [Flows -> 0..MaxHandles]
    /\ flowHandle \in [Flows -> 0..MaxHandles]
    /\ claimed \in [Procs -> 0..MaxHandles]
    /\ resume \in [Procs -> {"exit", "failed", "recheck", "cleanup"}]
    /\ ending \in {"ok", "failed", "cancelled"}
    /\ seenFlow \in [Callers -> Flows \cup {NoFlow}]
    /\ outcome \in [Callers -> {"none", "CONFIRMED", "ALREADY_CONFIRMED",
                                "UNRESOLVED"}]
    /\ lease \in {"held", "released", "forced"}
    /\ leasePhase \in {"RESERVED", "CONNECTING", "CONNECTED", "TEARDOWN"}
    /\ deadlineExpired \in BOOLEAN

\* No teardown, retry or reconnect frees a connection under a flow's native
\* call (destroyNative: "Must only be called with no flow executing").
FlowsUseLiveHandles ==
    \A t \in Flows : using[t] # NoHandle => using[t] \in live

\* A handle is destroyed at most once, by one owner: whoever is about to
\* destroy holds an allocated handle that nobody else holds (claimHandle).
OneDestroyerPerHandle ==
    \A p \in Procs : claimed[p] # NoHandle =>
        /\ claimed[p] \in live
        /\ claimed[p] # handle
        /\ \A q \in Procs \ {p} : claimed[q] # claimed[p]

\* Once the attempt gave its lease back, no flow is inside the protocol and
\* nothing native is allocated, now or ever again (runCleanup: destroy, then
\* release, and never after an unproven destroy).
ReleasedMeansGone ==
    lease = "released" => inFlow = {} /\ live = {}

\* What destroyResources tells its caller is true: a confirmed cleanup left
\* nothing allocated and does not keep the slot (isCleanupConfirmed).
ConfirmedMeansGone ==
    \A d \in Callers :
        outcome[d] \in {"CONFIRMED", "ALREADY_CONFIRMED"} =>
            /\ inFlow = {}
            /\ live = {}
            /\ lease # "held"

\* No connection is forgotten: an allocated one is in the slot, about to be
\* destroyed, or not published yet by its flow, unless a loss is on record.
NoForgottenHandle ==
    lost \/ \A h \in live :
        \/ h = handle
        \/ \E p \in Procs : claimed[p] = h
        \/ \E t \in Flows : fresh[t] = h /\ pc[t] \in {"publishFlow", "publishSlot"}

\* Teardown interrupts the connection a flow is using, never one that is
\* already gone (interruptNative: "Must be safe to call while a connect is
\* executing").
InterruptsReachLiveHandles ==
    \A d \in Callers : using[d] # NoHandle => using[d] \in live

\* "The caller checks isLost before creating one and aborts the attempt"
\* (the nativeHandle setter): nothing is created once a loss is on record.
NothingCreatedAfterLoss == [][lost => created' = created]_vars

\* "the lease stays held for the rest of the process" (NativeHandleClaim.Lost):
\* after an unproven destroy no other attempt is admitted.
LossKeepsLease == lost => lease # "forced"

\* A teardown is always brought to an end unless a flow never returns from
\* native code: if a caller times out waiting for the flow, the exiting flow
\* runs the cleanup (Flow.exit).
TeardownIsDecided ==
    destroyed ~> \/ cleanupFinished
                 \/ \E t \in Flows : [](pc[t] \in {"native", "dhcp"})

\* Every call of destroyResources returns an outcome, even while a flow is
\* blocked in native code for ever.
CallersReturn == \A d \in Callers : pc[d] = "mark" ~> outcome[d] # "none"

\* The attempt keeps the promise of AttemptLifetime.tla.
Lifetime == INSTANCE AttemptLifetime
    WITH closed <- destroyed, users <- inFlow,
         using <- [t \in Flows |-> using[t]]

ImplementsLifetime == Lifetime!Spec
=============================================================================
