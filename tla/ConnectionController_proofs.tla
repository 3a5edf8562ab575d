-------------------- MODULE ConnectionController_proofs --------------------
(***************************************************************************)
(* Proofs about ConnectionController.tla, for any number of teardown       *)
(* callers and of native connections: a connection is destroyed at most    *)
(* once, and the slot only ever offers one that is still allocated.        *)
(*                                                                         *)
(* OneDestroyerPerHandle is not inductive: it has to know that the slot    *)
(* holds an allocated connection (HandleIsLive), and that one created and  *)
(* not yet published is known to its flow alone (PendingOwned).            *)
(* The types need to know in addition that the retry budget is spent       *)
(* before the last attempt (BudgetSpent) and that a caller interrupts what *)
(* its own snapshot named (SnapshotTaken).                                 *)
(***************************************************************************)
EXTENDS ConnectionController, TLAPS

\* The flow holds a connection the slot has not seen yet.
Pending(t) == pc[t] \in {"publishFlow", "publishSlot"}

\* What the argument needs of the types.
OwnerTypes ==
    /\ pc \in [Procs -> Labels]
    /\ resume \in [Procs -> {"exit", "failed", "recheck", "cleanup"}]
    /\ created \in Nat
    /\ live \subseteq 1..created
    /\ handle \in Nat
    /\ fresh \in [Flows -> Nat]
    /\ claimed \in [Procs -> Nat]

HandleIsLive == handle # NoHandle => handle \in live

PendingOwned ==
    \A t \in Flows : Pending(t) =>
        /\ fresh[t] \in live
        /\ fresh[t] # handle
        /\ \A p \in Procs : claimed[p] # fresh[t]
        /\ \A u \in Flows \ {t} : Pending(u) => fresh[u] # fresh[t]

OwnerInv ==
    /\ OwnerTypes
    /\ HandleIsLive
    /\ PendingOwned
    /\ OneDestroyerPerHandle

ownerVars == <<handle, created, live, fresh, claimed>>

-----------------------------------------------------------------------------
(* The steps that hand no connection over. *)

\* Thread p goes on, and not to a point where it holds a new connection.
Moves(p) ==
    \E l \in Labels \ {"publishFlow", "publishSlot"} : Goto(p, l)

\* A step of p that leaves every connection where it is.
LeavesOwners(p) ==
    /\ Moves(p)
    /\ resume' \in [Procs -> {"exit", "failed", "recheck", "cleanup"}]
    /\ UNCHANGED ownerVars

\* Such a step keeps the invariant: nothing becomes pending.
LEMMA KeepsOwners ==
    ASSUME OwnerInv, NEW p \in Procs, LeavesOwners(p)
    PROVE  OwnerInv'
<1> USE DEF OwnerInv, LeavesOwners, ownerVars
<1>1. PICK l \in Labels \ {"publishFlow", "publishSlot"} : pc' = [pc EXCEPT ![p] = l]
    BY DEF Moves, Goto
<1>2. OwnerTypes'
    BY <1>1 DEF OwnerTypes
<1>3. \A t \in Flows : Pending(t)' => Pending(t)
    BY <1>1 DEF Pending, OwnerTypes, Procs
<1>4. PendingOwned'
    BY <1>3 DEF PendingOwned
<1>5. HandleIsLive' /\ OneDestroyerPerHandle'
    BY DEF HandleIsLive, OneDestroyerPerHandle
<1> QED BY <1>2, <1>4, <1>5

\* The connect coroutine outside its native work.
LEMMA ConnectStepKeeps ==
    ASSUME OwnerTypes, ConnectStart \/ ConnectStep
    PROVE  LeavesOwners(Connect)
<1> USE DEF LeavesOwners, Moves, Goto, Labels, OwnerTypes, ownerVars,
        slotVars, nativeVars, localVars
<1>p. Connect \in Procs
    BY DEF Procs, Flows
<1>1. CASE ConnectStart
    BY <1>p, <1>1 DEF ConnectStart
<1>2. CASE PerformConnect
    BY <1>p, <1>2 DEF PerformConnect
<1>3. CASE CheckDestroyed
    BY <1>p, <1>3 DEF CheckDestroyed
<1>4. CASE MarkNativeEntered
    BY <1>p, <1>4 DEF MarkNativeEntered
<1>5. CASE ConnectEnds
    BY <1>p, <1>5 DEF ConnectEnds
<1>6. CASE ConnectGivesUp
    BY <1>p, <1>6 DEF ConnectGivesUp
<1>7. CASE ConnectRetries
    BY <1>p, <1>7 DEF ConnectRetries
<1>8. CASE RetryDelayOver
    BY <1>p, <1>8 DEF RetryDelayOver
<1> QED BY <1>1, <1>2, <1>3, <1>4, <1>5, <1>6, <1>7, <1>8 DEF ConnectStep

\* The reconnect coroutine outside its native work.
LEMMA ReconnectStepKeeps ==
    ASSUME OwnerTypes, TriggerReconnect \/ ReconnectStep
    PROVE  LeavesOwners(Reconnect)
<1> USE DEF LeavesOwners, Moves, Goto, Labels, OwnerTypes, ownerVars,
        slotVars, nativeVars, localVars
<1>p. Reconnect \in Procs
    BY DEF Procs, Flows
<1>1. CASE TriggerReconnect
    BY <1>p, <1>1 DEF TriggerReconnect
<1>2. CASE ReconnectStart
    BY <1>p, <1>2 DEF ReconnectStart
<1>3. CASE ReconnectSkipped
    BY <1>p, <1>3 DEF ReconnectSkipped
<1>4. CASE ReconnectReset
    BY <1>p, <1>4 DEF ReconnectReset
<1>5. CASE ReconnectRecheck
    BY <1>p, <1>5 DEF ReconnectRecheck
<1>6. CASE ReconnectDelayOver
    BY <1>p, <1>6 DEF ReconnectDelayOver
<1>7. CASE ReconnectDelayCancelled
    BY <1>p, <1>7 DEF ReconnectDelayCancelled, Throw
<1>8. CASE ReconnectFailed
    BY <1>p, <1>8 DEF ReconnectFailed
<1>9. CASE InstallAborted
    BY <1>p, <1>9 DEF InstallAborted, AbortReconnect
<1>10. CASE ExitWithoutFlow
    BY <1>p, <1>10 DEF ExitWithoutFlow
<1>11. CASE ReconnectEnds
    BY <1>p, <1>11 DEF ReconnectEnds
<1> QED BY <1>1, <1>2, <1>3, <1>4, <1>5, <1>6, <1>7, <1>8, <1>9, <1>10, <1>11
           DEF ReconnectStep

\* The native work, but for creating and publishing.
LEMMA FlowStepKeeps ==
    ASSUME OwnerTypes, NEW t \in Flows,
           \/ NativeReturn(t)
           \/ FlowStep(t) /\ ~NativeCreate(t) /\ ~PublishFlow(t) /\ ~PublishSlot(t)
    PROVE  LeavesOwners(t)
<1> USE DEF LeavesOwners, Moves, Goto, Labels, OwnerTypes, ownerVars,
        slotVars, nativeVars, localVars
<1>p. t \in Procs
    BY DEF Procs, Flows
<1>1. CASE BeginRefused(t)
    BY <1>p, <1>1 DEF BeginRefused
<1>2. CASE BeginFlow(t)
    BY <1>p, <1>2 DEF BeginFlow
<1>3. CASE NativeCreateFails(t)
    BY <1>p, <1>3 DEF NativeCreateFails, Throw
<1>4. CASE EnterConnect(t)
    BY <1>p, <1>4 DEF EnterConnect
<1>5. CASE EnterConnectFails(t)
    BY <1>p, <1>5 DEF EnterConnectFails, Throw
<1>6. CASE EnterDhcp(t)
    BY <1>p, <1>6 DEF EnterDhcp
<1>7. CASE EnterDhcpCancelled(t)
    BY <1>p, <1>7 DEF EnterDhcpCancelled, Throw, AbortReconnect
<1>8. CASE InstallRefused(t)
    BY <1>p, <1>8 DEF InstallRefused, Throw
<1>9. CASE InstallTun(t)
    BY <1>p, <1>9 DEF InstallTun
<1>10. CASE StartForwarding(t)
    BY <1>p, <1>10 DEF StartForwarding
<1>11. CASE StartForwardingThrows(t)
    BY <1>p, <1>11 DEF StartForwardingThrows, Throw
<1>12. CASE Exit(t)
    BY <1>p, <1>12 DEF Exit
<1>13. CASE ConnectReturns(t)
    BY <1>p, <1>13 DEF ConnectReturns
<1>14. CASE ConnectErrs(t)
    BY <1>p, <1>14 DEF ConnectErrs, Throw
<1>15. CASE PinMismatch(t)
  <2>1. CASE t = Connect
      BY <1>p, <1>15, <2>1 DEF PinMismatch, Throw
  <2>2. CASE t # Connect
    <3>1. t = Reconnect
        BY <2>2 DEF Flows
    <3> QED BY <1>p, <1>15, <2>2, <3>1 DEF PinMismatch, AbortReconnect
  <2> QED BY <2>1, <2>2
<1>16. CASE DhcpReturns(t)
    BY <1>p, <1>16 DEF DhcpReturns
<1>17. CASE DhcpReturnsCancelled(t)
    BY <1>p, <1>17 DEF DhcpReturnsCancelled, Throw, AbortReconnect
<1> QED BY <1>1, <1>2, <1>3, <1>4, <1>5, <1>6, <1>7, <1>8, <1>9, <1>10, <1>11,
           <1>12, <1>13, <1>14, <1>15, <1>16, <1>17 DEF FlowStep, NativeReturn

\* A teardown caller outside the cleanup.
LEMMA CallerStepKeeps ==
    ASSUME OwnerTypes, NEW d \in Callers,
           DestroyResources(d) \/ CallerStep(d)
    PROVE  LeavesOwners(d)
<1> USE DEF LeavesOwners, Moves, Goto, Labels, OwnerTypes, ownerVars,
        slotVars, nativeVars, localVars
<1>p. d \in Procs
    BY DEF Procs, Flows
<1>1. CASE DestroyResources(d)
    BY <1>p, <1>1 DEF DestroyResources
<1>2. CASE MarkTeardownRequested(d)
    BY <1>p, <1>2 DEF MarkTeardownRequested
<1>3. CASE RequestTeardown(d)
    BY <1>p, <1>3 DEF RequestTeardown
<1>4. CASE Interrupt(d)
    BY <1>p, <1>4 DEF Interrupt
<1>5. CASE InterruptReturns(d)
    BY <1>p, <1>5 DEF InterruptReturns
<1>6. CASE FlowExited(d)
    BY <1>p, <1>6 DEF FlowExited
<1>7. CASE AwaitExitExpires(d)
    BY <1>p, <1>7 DEF AwaitExitExpires
<1>8. CASE TakeCleanup(d)
    BY <1>p, <1>8 DEF TakeCleanup
<1>9. CASE CleanupOwned(d)
    BY <1>p, <1>9 DEF CleanupOwned
<1>10. CASE CleanupDone(d)
    BY <1>p, <1>10 DEF CleanupDone
<1>11. CASE AwaitCleanupExpires(d)
    BY <1>p, <1>11 DEF AwaitCleanupExpires
<1>12. CASE Unresolved(d)
    BY <1>p, <1>12 DEF Unresolved
<1> QED BY <1>1, <1>2, <1>3, <1>4, <1>5, <1>6, <1>7, <1>8, <1>9, <1>10, <1>11,
           <1>12 DEF CallerStep

\* The cleanup, but for claiming and destroying.
LEMMA CleanupStepKeeps ==
    ASSUME OwnerTypes, NEW p \in Procs,
           CleanupStep(p) /\ ~Claim(p)
    PROVE  LeavesOwners(p)
<1> USE DEF LeavesOwners, Moves, Goto, Labels, OwnerTypes, ownerVars,
        slotVars, nativeVars, localVars
<1>p. p \in Procs
    BY DEF Procs, Flows
<1>1. CASE ClaimNothing(p)
    BY <1>p, <1>1 DEF ClaimNothing, ClaimFindsNothing
<1>2. CASE ClaimLost(p)
    BY <1>p, <1>2 DEF ClaimLost, ClaimFindsLost
<1>3. CASE Release(p)
    BY <1>p, <1>3 DEF Release
<1>4. CASE Finish(p)
    BY <1>p, <1>4 DEF Finish
<1> QED BY <1>1, <1>2, <1>3, <1>4 DEF CleanupStep

-----------------------------------------------------------------------------
(* The steps that hand a connection over. *)

\* nativeCreate: the new connection is nobody else's.
LEMMA NativeCreateKeeps ==
    ASSUME OwnerInv, NEW t \in Flows, NativeCreate(t)
    PROVE  OwnerInv'
<1> USE DEF OwnerInv
<1>0. t \in Procs /\ Flows \subseteq Procs
    BY DEF Procs
<1>1. created + 1 \notin live /\ live' = live \cup {created + 1}
    BY DEF NativeCreate, OwnerTypes
<1>2. UNCHANGED <<handle, claimed, resume>>
    BY DEF NativeCreate, slotVars
<1>3. fresh' = [fresh EXCEPT ![t] = created + 1] /\ created' = created + 1
    BY DEF NativeCreate
<1>4. pc' = [pc EXCEPT ![t] = "publishFlow"]
    BY DEF NativeCreate, Goto
<1>5. OwnerTypes'
    BY <1>0, <1>1, <1>2, <1>3, <1>4 DEF OwnerTypes, Labels
<1>6. HandleIsLive' /\ OneDestroyerPerHandle'
    BY <1>1, <1>2 DEF HandleIsLive, OneDestroyerPerHandle
<1>7. \A u \in Flows \ {t} : fresh'[u] = fresh[u] /\ (Pending(u)' => Pending(u))
    BY <1>0, <1>3, <1>4 DEF OwnerTypes, Pending
<1>8. fresh'[t] = created + 1 /\ created + 1 # NoHandle
    BY <1>3 DEF OwnerTypes, NoHandle
<1>9. \A p \in Procs : claimed[p] # created + 1
    BY <1>1, <1>8 DEF OneDestroyerPerHandle
<1>10. handle # created + 1
    BY <1>1, <1>8 DEF HandleIsLive
<1>11. PendingOwned'
    BY <1>1, <1>2, <1>7, <1>8, <1>9, <1>10 DEF PendingOwned
<1> QED BY <1>5, <1>6, <1>11

\* flow.publishHandle: the slot does not see the connection yet.
LEMMA PublishFlowKeeps ==
    ASSUME OwnerInv, NEW t \in Flows, PublishFlow(t)
    PROVE  OwnerInv'
<1> USE DEF OwnerInv
<1>0. t \in Procs /\ Flows \subseteq Procs
    BY DEF Procs
<1>1. UNCHANGED <<ownerVars, resume>>
    BY DEF PublishFlow, ownerVars, slotVars, nativeVars
<1>2. pc[t] = "publishFlow" /\ pc' = [pc EXCEPT ![t] = "publishSlot"]
    BY DEF PublishFlow, Goto
<1>3. OwnerTypes'
    BY <1>0, <1>1, <1>2 DEF OwnerTypes, Labels, ownerVars
<1>4. HandleIsLive' /\ OneDestroyerPerHandle'
    BY <1>1 DEF HandleIsLive, OneDestroyerPerHandle, ownerVars
<1>5. \A u \in Flows : Pending(u)' => Pending(u)
    BY <1>0, <1>2 DEF OwnerTypes, Pending
<1>6. PendingOwned'
    BY <1>1, <1>5 DEF PendingOwned, ownerVars
<1> QED BY <1>3, <1>4, <1>6

\* nativeHandle = created: the slot takes the connection over, or refuses it.
LEMMA PublishSlotKeeps ==
    ASSUME OwnerInv, NEW t \in Flows, PublishSlot(t)
    PROVE  OwnerInv'
<1> USE DEF OwnerInv
<1>0. t \in Procs /\ Flows \subseteq Procs
    BY DEF Procs
<1>1. UNCHANGED <<created, live, fresh, claimed, resume>>
    BY DEF PublishSlot, nativeVars, localVars
<1>2. pc[t] = "publishSlot" /\ pc' = [pc EXCEPT ![t] = "enter"]
    BY DEF PublishSlot, Goto
<1>3. handle' \in {handle, fresh[t]}
    BY DEF PublishSlot, Publish
<1>4. OwnerTypes'
    BY <1>0, <1>1, <1>2, <1>3 DEF OwnerTypes, Labels
<1>5. \A u \in Flows : Pending(u)' => u # t /\ Pending(u)
    BY <1>0, <1>2 DEF OwnerTypes, Pending
<1>6. /\ fresh[t] \in live
      /\ \A p \in Procs : claimed[p] # fresh[t]
      /\ \A u \in Flows \ {t} : Pending(u) => fresh[u] # fresh[t]
    BY <1>2 DEF PendingOwned, Pending
<1>7. HandleIsLive' /\ OneDestroyerPerHandle'
    BY <1>1, <1>3, <1>6 DEF HandleIsLive, OneDestroyerPerHandle
<1>8. PendingOwned'
    BY <1>1, <1>3, <1>5, <1>6 DEF PendingOwned
<1> QED BY <1>4, <1>7, <1>8

\* claimHandle: the connection leaves the slot for its one destroyer.
LEMMA ClaimKeeps ==
    ASSUME OwnerInv, NEW p \in Procs, Claim(p)
    PROVE  OwnerInv'
<1> USE DEF OwnerInv
<1>0. Flows \subseteq Procs
    BY DEF Procs
<1>1. UNCHANGED <<created, live, fresh, resume>>
    BY DEF Claim, nativeVars
<1>2. pc' = [pc EXCEPT ![p] = "destroy"]
    BY DEF Claim, Goto
<1>3. /\ handle # NoHandle /\ handle' = NoHandle
      /\ claimed' = [claimed EXCEPT ![p] = handle]
    BY DEF Claim, ClaimTakes
<1>4. OwnerTypes'
    BY <1>1, <1>2, <1>3 DEF OwnerTypes, Labels, NoHandle
<1>5. \A u \in Flows : Pending(u)' => Pending(u)
    BY <1>0, <1>2 DEF OwnerTypes, Pending
<1>6. claimed'[p] = handle /\ \A q \in Procs \ {p} : claimed'[q] = claimed[q]
    BY <1>3 DEF OwnerTypes
<1>7. handle \in live /\ NoHandle \notin live
    BY <1>3 DEF HandleIsLive, OwnerTypes, NoHandle
<1>8. HandleIsLive'
    BY <1>3 DEF HandleIsLive
<1>9. OneDestroyerPerHandle'
    BY <1>1, <1>3, <1>6, <1>7 DEF OneDestroyerPerHandle
<1>10. PendingOwned'
    BY <1>1, <1>3, <1>5, <1>6, <1>7 DEF PendingOwned
<1> QED BY <1>4, <1>8, <1>9, <1>10

\* nativeDestroy: nobody else names the connection that may be gone now.
LEMMA NativeDestroyKeeps ==
    ASSUME OwnerInv, NEW p \in Procs, NativeDestroy(p)
    PROVE  OwnerInv'
<1> USE DEF OwnerInv
<1>0. Flows \subseteq Procs
    BY DEF Procs
<1>1. UNCHANGED <<handle, created, fresh, resume>>
    BY DEF NativeDestroy, DestroyReturns, DestroyThrows, SettleDestroyed, SettleLost
<1>2. Moves(p)
    BY DEF NativeDestroy, DestroyReturns, DestroyThrows, Moves, Goto, Labels,
           OwnerTypes
<1>3. PICK l \in Labels \ {"publishFlow", "publishSlot"} : pc' = [pc EXCEPT ![p] = l]
    BY <1>2 DEF Moves, Goto
<1>4. /\ live' \in {live, live \ {claimed[p]}}
      /\ claimed' = [claimed EXCEPT ![p] = NoHandle]
    BY DEF NativeDestroy, DestroyReturns, DestroyThrows
<1>5. OwnerTypes'
    BY <1>1, <1>3, <1>4 DEF OwnerTypes, NoHandle
<1>6. \A u \in Flows : Pending(u)' => Pending(u)
    BY <1>0, <1>3 DEF OwnerTypes, Pending
<1>7. claimed'[p] = NoHandle /\ \A q \in Procs \ {p} : claimed'[q] = claimed[q]
    BY <1>4 DEF OwnerTypes
<1>8. claimed[p] = NoHandle => claimed[p] \notin live
    BY DEF OwnerTypes, NoHandle
<1>9. HandleIsLive'
    BY <1>1, <1>4, <1>8 DEF HandleIsLive, OneDestroyerPerHandle
<1>10. OneDestroyerPerHandle'
    BY <1>1, <1>4, <1>7 DEF OneDestroyerPerHandle
<1>11. NoHandle \notin live
    BY DEF OwnerTypes, NoHandle
<1>12. PendingOwned'
    BY <1>1, <1>4, <1>6, <1>7, <1>11 DEF PendingOwned
<1> QED BY <1>5, <1>9, <1>10, <1>12

-----------------------------------------------------------------------------
\* At the start nothing is allocated and nobody owns anything.
LEMMA OwnerInit == Init => OwnerInv
BY DEF Init, SlotInit, OwnerInv, OwnerTypes, HandleIsLive, PendingOwned, Pending,
       OneDestroyerPerHandle, Labels, Procs, NoHandle

\* Every step of every thread keeps the invariant.
LEMMA OwnerStep == OwnerInv /\ [Next]_vars => OwnerInv'
<1> SUFFICES ASSUME OwnerInv, [Next]_vars PROVE OwnerInv'
    OBVIOUS
<1>0. OwnerTypes /\ {Connect, Reconnect} \subseteq Procs /\ Flows \subseteq Procs
      /\ Callers \subseteq Procs
    BY DEF OwnerInv, Procs, Flows
<1>1. CASE ConnectStart \/ ConnectStep
    BY <1>0, <1>1, ConnectStepKeeps, KeepsOwners
<1>2. CASE TriggerReconnect \/ ReconnectStep
    BY <1>0, <1>2, ReconnectStepKeeps, KeepsOwners
<1>3. ASSUME NEW t \in Flows, FlowStep(t) \/ NativeReturn(t) PROVE OwnerInv'
  <2>1. CASE NativeCreate(t)
      BY <2>1, NativeCreateKeeps
  <2>2. CASE PublishFlow(t)
      BY <2>2, PublishFlowKeeps
  <2>3. CASE PublishSlot(t)
      BY <2>3, PublishSlotKeeps
  <2>4. CASE ~NativeCreate(t) /\ ~PublishFlow(t) /\ ~PublishSlot(t)
      BY <1>0, <1>3, <2>4, FlowStepKeeps, KeepsOwners
  <2> QED BY <2>1, <2>2, <2>3, <2>4
<1>4. ASSUME NEW p \in Procs, CleanupStep(p) \/ NativeDestroy(p) PROVE OwnerInv'
  <2>1. CASE Claim(p)
      BY <2>1, ClaimKeeps
  <2>2. CASE NativeDestroy(p)
      BY <2>2, NativeDestroyKeeps
  <2>3. CASE CleanupStep(p) /\ ~Claim(p)
      BY <1>0, <2>3, CleanupStepKeeps, KeepsOwners
  <2> QED BY <1>4, <2>1, <2>2, <2>3
<1>5. ASSUME NEW d \in Callers, DestroyResources(d) \/ CallerStep(d) PROVE OwnerInv'
    BY <1>0, <1>5, CallerStepKeeps, KeepsOwners
<1>6. CASE ForceRelease \/ UNCHANGED vars
  <2>1. UNCHANGED <<pc, resume, ownerVars>>
      BY <1>6 DEF ForceRelease, vars, slotVars, nativeVars, localVars, ownerVars
  <2> QED BY <2>1 DEF OwnerInv, OwnerTypes, HandleIsLive, PendingOwned, Pending,
                      OneDestroyerPerHandle, ownerVars
<1> QED BY <1>1, <1>2, <1>3, <1>4, <1>5, <1>6 DEF Next

\* The ownership invariant holds throughout.
THEOREM Ownership == Spec => []OwnerInv
BY OwnerInit, OwnerStep, PTL DEF Spec

\* claimHandle's promise: whoever is about to destroy a connection is the only
\* one to hold it, and it is still allocated, however connect, reconnect and
\* any number of teardowns interleave.
THEOREM SingleDestroyer == Spec => []OneDestroyerPerHandle
<1>1. OwnerInv => OneDestroyerPerHandle
    BY DEF OwnerInv
<1> QED BY <1>1, Ownership, PTL

\* The slot never offers a connection that was destroyed (claimHandle may then
\* free what it takes).
THEOREM SlotHoldsLiveHandle == Spec => []HandleIsLive
<1>1. OwnerInv => HandleIsLive
    BY DEF OwnerInv
<1> QED BY <1>1, Ownership, PTL

-----------------------------------------------------------------------------
(* The types.  TypeOK is not inductive: the retry counter stays in range     *)
(* because it reaches its bound only as the connect coroutine gives up, and  *)
(* an interrupt names a flow because teardown only interrupts one it saw.    *)

BudgetSpent ==
    reconnectAttempts = MAX_RECONNECT_ATTEMPTS => pc[Connect] = "done"

SnapshotTaken ==
    \A d \in Callers : pc[d] = "interrupt" => seenFlow[d] \in Flows

TypeInv ==
    /\ TypeOK
    /\ BudgetSpent
    /\ SnapshotTaken

\* The connect coroutine keeps the types.
LEMMA ConnectTypes ==
    ASSUME TypeInv, OwnerInv',
           ConnectStart \/ ConnectStep
    PROVE  TypeOK' /\ BudgetSpent'
<1> USE DEF TypeInv, TypeOK, BudgetSpent, OwnerTypes, Labels, Procs,
        Flows, Connect, Reconnect, Goto, slotVars, coordinatorVars, stateVars,
        nativeVars, localVars, leaseVars
<1>o. OwnerTypes' /\ handle' \in 0..created'
    BY DEF OwnerInv, HandleIsLive, NoHandle
<1>1. CASE ConnectStart
    BY <1>o, <1>1 DEF ConnectStart, MAX_RECONNECT_ATTEMPTS
<1>2. CASE PerformConnect
  <2>1. isCancelled' \in BOOLEAN
      BY <1>2 DEF PerformConnect
  <2> QED BY <1>o, <1>2, <2>1 DEF PerformConnect
<1>3. CASE CheckDestroyed
    BY <1>o, <1>3 DEF CheckDestroyed
<1>4. CASE MarkNativeEntered
    BY <1>o, <1>4 DEF MarkNativeEntered
<1>5. CASE ConnectEnds
    BY <1>o, <1>5 DEF ConnectEnds
<1>6. CASE ConnectGivesUp
    BY <1>o, <1>6 DEF ConnectGivesUp, MAX_RECONNECT_ATTEMPTS
<1>7. CASE ConnectRetries
    BY <1>o, <1>7 DEF ConnectRetries, MAX_RECONNECT_ATTEMPTS
<1>8. CASE RetryDelayOver
    BY <1>o, <1>8 DEF RetryDelayOver
<1> QED BY <1>1, <1>2, <1>3, <1>4, <1>5, <1>6, <1>7, <1>8 DEF ConnectStep

\* So does the reconnect coroutine.
LEMMA ReconnectTypes ==
    ASSUME TypeInv, OwnerInv',
           TriggerReconnect \/ ReconnectStep
    PROVE  TypeOK' /\ BudgetSpent'
<1> USE DEF TypeInv, TypeOK, BudgetSpent, OwnerTypes, Labels, Procs,
        Flows, Connect, Reconnect, Goto, slotVars, coordinatorVars, stateVars,
        nativeVars, localVars, leaseVars
<1>o. OwnerTypes' /\ handle' \in 0..created'
    BY DEF OwnerInv, HandleIsLive, NoHandle
<1>1. CASE TriggerReconnect
    BY <1>o, <1>1 DEF TriggerReconnect
<1>2. CASE ReconnectStart
    BY <1>o, <1>2 DEF ReconnectStart, MAX_RECONNECT_ATTEMPTS
<1>3. CASE ReconnectSkipped
    BY <1>o, <1>3 DEF ReconnectSkipped
<1>4. CASE ReconnectReset
  <2>1. isCancelled' \in BOOLEAN
      BY <1>4 DEF ReconnectReset
  <2> QED BY <1>o, <1>4, <2>1 DEF ReconnectReset
<1>5. CASE ReconnectRecheck
    BY <1>o, <1>5 DEF ReconnectRecheck
<1>6. CASE ReconnectDelayOver
    BY <1>o, <1>6 DEF ReconnectDelayOver
<1>7. CASE ReconnectDelayCancelled
    BY <1>o, <1>7 DEF ReconnectDelayCancelled, Throw
<1>8. CASE ReconnectFailed
    BY <1>o, <1>8 DEF ReconnectFailed, MAX_RECONNECT_ATTEMPTS
<1>9. CASE InstallAborted
    BY <1>o, <1>9 DEF InstallAborted, AbortReconnect
<1>10. CASE ExitWithoutFlow
    BY <1>o, <1>10 DEF ExitWithoutFlow
<1>11. CASE ReconnectEnds
    BY <1>o, <1>11 DEF ReconnectEnds
<1> QED BY <1>1, <1>2, <1>3, <1>4, <1>5, <1>6, <1>7, <1>8, <1>9, <1>10, <1>11
           DEF ReconnectStep

\* So does the native work of a flow.
LEMMA FlowTypes ==
    ASSUME TypeInv, OwnerInv', NEW t \in Flows,
           FlowStep(t) \/ NativeReturn(t)
    PROVE  TypeOK' /\ BudgetSpent'
<1> USE DEF TypeInv, TypeOK, BudgetSpent, OwnerTypes, Labels, Procs,
        Flows, Connect, Reconnect, Goto, slotVars, coordinatorVars, stateVars,
        nativeVars, localVars, leaseVars
<1>o. OwnerTypes' /\ handle' \in 0..created'
    BY DEF OwnerInv, HandleIsLive, NoHandle
<1>1. CASE BeginRefused(t)
    BY <1>o, <1>1 DEF BeginRefused
<1>2. CASE BeginFlow(t)
    BY <1>o, <1>2, ControllerAssumption DEF BeginFlow, RegisterFlow, NoHandle
<1>3. CASE NativeCreate(t)
    BY <1>o, <1>3, ControllerAssumption DEF NativeCreate
<1>4. CASE NativeCreateFails(t)
    BY <1>o, <1>4 DEF NativeCreateFails, Throw
<1>5. CASE PublishFlow(t)
    BY <1>o, <1>5 DEF PublishFlow
<1>6. CASE PublishSlot(t)
    BY <1>o, <1>6 DEF PublishSlot, Publish
<1>7. CASE EnterConnect(t)
    BY <1>o, <1>7, ControllerAssumption DEF EnterConnect
<1>8. CASE EnterConnectFails(t)
    BY <1>o, <1>8 DEF EnterConnectFails, Throw
<1>9. CASE EnterDhcp(t)
    BY <1>o, <1>9, ControllerAssumption DEF EnterDhcp
<1>10. CASE EnterDhcpCancelled(t)
    BY <1>o, <1>10 DEF EnterDhcpCancelled, Throw, AbortReconnect
<1>11. CASE InstallRefused(t)
    BY <1>o, <1>11 DEF InstallRefused, Throw
<1>12. CASE InstallTun(t)
    BY <1>o, <1>12 DEF InstallTun
<1>13. CASE StartForwarding(t)
    BY <1>o, <1>13 DEF StartForwarding, MAX_RECONNECT_ATTEMPTS
<1>14. CASE StartForwardingThrows(t)
    BY <1>o, <1>14 DEF StartForwardingThrows, Throw
<1>15. CASE Exit(t)
    BY <1>o, <1>15 DEF Exit, ExitFlow, ExitOwnsCleanup
<1>16. CASE ConnectReturns(t)
    BY <1>o, <1>16, ControllerAssumption DEF ConnectReturns, Return,
           NoHandle, MAX_RECONNECT_ATTEMPTS
<1>17. CASE ConnectErrs(t)
    BY <1>o, <1>17, ControllerAssumption DEF ConnectErrs, Return, Throw,
           NoHandle
<1>18. CASE PinMismatch(t)
    BY <1>o, <1>18, ControllerAssumption DEF PinMismatch, Return, Throw,
           AbortReconnect, NoHandle
<1>19. CASE DhcpReturns(t)
    BY <1>o, <1>19, ControllerAssumption DEF DhcpReturns, Return, NoHandle
<1>20. CASE DhcpReturnsCancelled(t)
    BY <1>o, <1>20, ControllerAssumption DEF DhcpReturnsCancelled, Return,
           Throw, AbortReconnect, NoHandle
<1> QED BY <1>1, <1>2, <1>3, <1>4, <1>5, <1>6, <1>7, <1>8, <1>9, <1>10,
           <1>11, <1>12, <1>13, <1>14, <1>15, <1>16, <1>17, <1>18, <1>19,
           <1>20 DEF FlowStep, NativeReturn

\* So does a teardown caller.
LEMMA CallerTypes ==
    ASSUME TypeInv, OwnerInv', NEW d \in Callers,
           DestroyResources(d) \/ CallerStep(d)
    PROVE  TypeOK' /\ BudgetSpent'
<1> USE DEF TypeInv, TypeOK, BudgetSpent, OwnerTypes, Labels, Procs,
        Flows, Connect, Reconnect, Goto, slotVars, coordinatorVars, stateVars,
        nativeVars, localVars, leaseVars
<1>o. OwnerTypes' /\ handle' \in 0..created'
    BY DEF OwnerInv, HandleIsLive, NoHandle
<1>1. CASE DestroyResources(d)
    BY <1>o, <1>1 DEF DestroyResources
<1>2. CASE MarkTeardownRequested(d)
    BY <1>o, <1>2 DEF MarkTeardownRequested
<1>3. CASE RequestTeardown(d)
    BY <1>o, <1>3 DEF RequestTeardown, BeginTeardown
<1>4. CASE Interrupt(d)
  <2>1. flowHandle[seenFlow[d]] \in 0..MaxHandles
      BY <1>4 DEF Interrupt, SnapshotTaken
  <2> QED BY <1>o, <1>4, <2>1 DEF Interrupt
<1>5. CASE InterruptReturns(d)
    BY <1>o, <1>5, ControllerAssumption DEF InterruptReturns, Return,
           NoHandle
<1>6. CASE FlowExited(d)
    BY <1>o, <1>6 DEF FlowExited
<1>7. CASE AwaitExitExpires(d)
    BY <1>o, <1>7 DEF AwaitExitExpires
<1>8. CASE TakeCleanup(d)
    BY <1>o, <1>8 DEF TakeCleanup, ClaimCleanup
<1>9. CASE CleanupOwned(d)
    BY <1>o, <1>9 DEF CleanupOwned
<1>10. CASE CleanupDone(d)
    BY <1>o, <1>10 DEF CleanupDone
<1>11. CASE AwaitCleanupExpires(d)
    BY <1>o, <1>11 DEF AwaitCleanupExpires
<1>12. CASE Unresolved(d)
    BY <1>o, <1>12 DEF Unresolved
<1> QED BY <1>1, <1>2, <1>3, <1>4, <1>5, <1>6, <1>7, <1>8, <1>9, <1>10,
           <1>11, <1>12 DEF CallerStep

\* And so does whoever cleans up.
LEMMA CleanupTypes ==
    ASSUME TypeInv, OwnerInv', NEW p \in Procs,
           CleanupStep(p) \/ NativeDestroy(p)
    PROVE  TypeOK' /\ BudgetSpent'
<1> USE DEF TypeInv, TypeOK, BudgetSpent, OwnerTypes, Labels, Procs,
        Flows, Connect, Reconnect, Goto, slotVars, coordinatorVars, stateVars,
        nativeVars, localVars, leaseVars
<1>o. OwnerTypes' /\ handle' \in 0..created'
    BY DEF OwnerInv, HandleIsLive, NoHandle
<1>1. CASE Claim(p)
    BY <1>o, <1>1, ControllerAssumption DEF Claim, ClaimTakes
<1>2. CASE ClaimNothing(p)
    BY <1>o, <1>2 DEF ClaimNothing, ClaimFindsNothing
<1>3. CASE ClaimLost(p)
    BY <1>o, <1>3 DEF ClaimLost, ClaimFindsLost
<1>4. CASE Release(p)
    BY <1>o, <1>4 DEF Release
<1>5. CASE Finish(p)
    BY <1>o, <1>5 DEF Finish, FinishCleanup
<1>6. CASE DestroyReturns(p)
  <2>1. destroyInFlight' \in BOOLEAN /\ lost' \in BOOLEAN
      BY <1>6 DEF DestroyReturns, SettleDestroyed
  <2>2. claimed' \in [Procs -> 0..MaxHandles]
      BY <1>6, ControllerAssumption DEF DestroyReturns, NoHandle
  <2> QED BY <1>o, <1>6, <2>1, <2>2 DEF DestroyReturns, SettleDestroyed
<1>7. CASE DestroyThrows(p)
  <2>1. destroyInFlight' \in BOOLEAN /\ lost' \in BOOLEAN
      BY <1>7 DEF DestroyThrows, SettleLost
  <2>2. claimed' \in [Procs -> 0..MaxHandles]
      BY <1>7, ControllerAssumption DEF DestroyThrows, NoHandle
  <2> QED BY <1>o, <1>7, <2>1, <2>2 DEF DestroyThrows, SettleLost
<1> QED BY <1>1, <1>2, <1>3, <1>4, <1>5, <1>6, <1>7 DEF CleanupStep,
           NativeDestroy

\* Before anything starts every variable has its type.
LEMMA TypeInit == Init => TypeInv
<1> SUFFICES ASSUME Init PROVE TypeInv
    OBVIOUS
<1> USE DEF Init, SlotInit, CoordinatorInit
<1>1. /\ BudgetSpent
      /\ SnapshotTaken
    BY DEF BudgetSpent, SnapshotTaken, Procs, MAX_RECONNECT_ATTEMPTS
<1>2. /\ created \in 0..MaxHandles /\ handle \in 0..created
      /\ reconnectAttempts \in 0..MAX_RECONNECT_ATTEMPTS
      /\ using \in [Procs -> 0..MaxHandles] /\ claimed \in [Procs -> 0..MaxHandles]
      /\ fresh \in [Flows -> 0..MaxHandles] /\ flowHandle \in [Flows -> 0..MaxHandles]
    BY ControllerAssumption DEF NoHandle, MAX_RECONNECT_ATTEMPTS
<1>3. pc \in [Procs -> Labels]
    BY DEF Labels
<1>4. TypeOK
    BY <1>2, <1>3 DEF TypeOK
<1> QED BY <1>1, <1>4 DEF TypeInv

\* A coroutine moves nobody but itself, and no snapshot.
LEMMA FlowsLeaveCallers ==
    ASSUME TypeInv, NEW d \in Callers,
           \/ ConnectStart \/ ConnectStep \/ TriggerReconnect \/ ReconnectStep
           \/ \E t \in Flows : FlowStep(t) \/ NativeReturn(t)
    PROVE  pc'[d] = pc[d] /\ seenFlow' = seenFlow
<1> USE DEF TypeInv, TypeOK, Procs, Goto, localVars
<1>0. d \in Procs /\ d \notin Flows /\ d # Connect /\ d # Reconnect
    BY ControllerAssumption DEF Flows
<1>1. CASE ConnectStart \/ ConnectStep
    BY <1>0, <1>1
       DEF ConnectStart, ConnectStep, PerformConnect, CheckDestroyed,
           MarkNativeEntered, ConnectEnds, ConnectGivesUp, ConnectRetries,
           RetryDelayOver
<1>2. CASE TriggerReconnect \/ ReconnectStep
    BY <1>0, <1>2
       DEF TriggerReconnect, ReconnectStep, ReconnectStart, ReconnectSkipped,
           ReconnectReset, ReconnectRecheck, ReconnectDelayOver,
           ReconnectDelayCancelled, ReconnectFailed, InstallAborted,
           ExitWithoutFlow, ReconnectEnds, Throw, AbortReconnect
<1>3. ASSUME NEW t \in Flows, FlowStep(t)
      PROVE  pc'[d] = pc[d] /\ seenFlow' = seenFlow
    BY <1>0, <1>3
       DEF FlowStep, BeginRefused, BeginFlow, NativeCreate, NativeCreateFails,
           PublishFlow, PublishSlot, EnterConnect, EnterConnectFails, EnterDhcp,
           EnterDhcpCancelled, InstallRefused, InstallTun, StartForwarding,
           StartForwardingThrows, Exit, Throw, AbortReconnect
<1>4. ASSUME NEW t \in Flows, NativeReturn(t)
      PROVE  pc'[d] = pc[d] /\ seenFlow' = seenFlow
    BY <1>0, <1>4
       DEF NativeReturn, ConnectReturns, ConnectErrs, PinMismatch, DhcpReturns,
           DhcpReturnsCancelled, Throw, AbortReconnect
<1> QED BY <1>1, <1>2, <1>3, <1>4

\* Only requestTeardown sends a caller to interrupt, after its snapshot.
LEMMA SnapshotStep ==
    ASSUME TypeInv, Next
    PROVE  SnapshotTaken'
<1> USE DEF TypeInv, TypeOK, SnapshotTaken, Procs, Goto, localVars
<1>1. CASE \/ ConnectStart \/ ConnectStep \/ TriggerReconnect \/ ReconnectStep
           \/ \E t \in Flows : FlowStep(t) \/ NativeReturn(t)
    BY <1>1, FlowsLeaveCallers
<1>2. ASSUME NEW p \in Procs, CleanupStep(p) \/ NativeDestroy(p)
      PROVE  SnapshotTaken'
    BY <1>2 DEF CleanupStep, NativeDestroy, Claim, ClaimNothing, ClaimLost,
                Release, Finish, DestroyReturns, DestroyThrows
<1>3. ASSUME NEW d \in Callers, DestroyResources(d) \/ CallerStep(d)
      PROVE  SnapshotTaken'
  <2>1. CASE RequestTeardown(d)
      BY <2>1 DEF RequestTeardown
  <2>2. CASE ~RequestTeardown(d)
      BY <1>3, <2>2
         DEF DestroyResources, CallerStep, MarkTeardownRequested, Interrupt,
             InterruptReturns, FlowExited, AwaitExitExpires, TakeCleanup,
             CleanupOwned, CleanupDone, AwaitCleanupExpires, Unresolved
  <2> QED BY <2>1, <2>2
<1>4. CASE ForceRelease
    BY <1>4 DEF ForceRelease
<1> QED BY <1>1, <1>2, <1>3, <1>4 DEF Next

\* Every step of every thread keeps the types, given the ownership after it.
LEMMA TypeStep == TypeInv /\ OwnerInv' /\ [Next]_vars => TypeInv'
<1> SUFFICES ASSUME TypeInv, OwnerInv', [Next]_vars PROVE TypeInv'
    OBVIOUS
<1>1. CASE UNCHANGED vars
    BY <1>1 DEF vars, TypeInv, TypeOK, BudgetSpent, SnapshotTaken, slotVars,
                coordinatorVars, stateVars, nativeVars, localVars, leaseVars
<1>2. CASE Next
  <2>1. ASSUME ForceRelease PROVE TypeOK' /\ BudgetSpent'
      BY <2>1 DEF ForceRelease, TypeInv, TypeOK, BudgetSpent, slotVars,
                  coordinatorVars, stateVars, nativeVars, localVars
  <2>2. TypeOK' /\ BudgetSpent'
      BY <1>2, <2>1, ConnectTypes, ReconnectTypes, FlowTypes, CallerTypes,
         CleanupTypes DEF Next
  <2> QED BY <1>2, <2>2, SnapshotStep DEF TypeInv
<1> QED BY <1>1, <1>2

\* Every variable keeps its type: in particular no handle value outruns the
\* number of connections created, and the retry budget is never exceeded.
THEOREM ControllerTypes == Spec => []TypeOK
<1>1. TypeInv => TypeOK
    BY DEF TypeInv
<1> QED BY <1>1, TypeInit, TypeStep, Ownership, PTL DEF Spec

-----------------------------------------------------------------------------
(***************************************************************************)
(* ConnectionController.tla implements AttemptLifetime.tla, and its        *)
(* cleanup invariants, for any number of teardown callers and of native    *)
(* connections, when the end of connect does not outlast the reconnect     *)
(* delay (~TailOutlastsDelay, as in the configuration that checks them).   *)
(*                                                                         *)
(* None of FlowsUseLiveHandles, ReleasedMeansGone, ConfirmedMeansGone and  *)
(* NoForgottenHandle is inductive.  What carries them:                     *)
(*   - where a thread is says whether its flow is registered, whether it   *)
(*     owns the cleanup and whether it holds a claim (Places, SlotTruth);  *)
(*   - the coroutines take turns: the reconnect exists only once the       *)
(*     connect coroutine is on its way out (Turns), so a flow finds the    *)
(*     slot empty when it publishes (EmptySlot);                           *)
(*   - at most one flow is registered, and whoever cleans up does so when  *)
(*     none is (Alone): so nobody takes the handle a flow is using         *)
(*     (UsesSlot) and a proven cleanup leaves nothing behind (Gone).       *)
(***************************************************************************)

\* Where a registered flow does its native work.
Body ==
    {"mark", "create", "publishFlow", "publishSlot", "enter", "native",
     "enterDhcp", "dhcp", "install", "connected"}

\* Thread p runs the attempt's cleanup (runCleanup).
Cleaning(p) ==
    \/ pc[p] \in {"release", "finish", "finishConfirmed"}
    \/ pc[p] \in {"claim", "destroy"} /\ resume[p] = "cleanup"

\* Flow t destroys its connection and will then leave.
Failing(t) ==
    pc[t] \in {"claim", "destroy"} /\ resume[t] \in {"exit", "failed"}

\* The connect coroutine has no more native work to do, but cleaning up.
ConnectOver ==
    pc[Connect] \in {"exit", "after", "done"} \/ Cleaning(Connect)

Places ==
    /\ \A t \in Flows : pc[t] \in Body => t \in inFlow
    /\ \A t \in inFlow : pc[t] \in Body \cup {"exit", "failed"} \/ Failing(t)
    /\ \A d \in Callers : pc[d] \in {"claim", "destroy"} => resume[d] = "cleanup"
    /\ \A p \in Procs : Cleaning(p) => cleanupClaimed
    /\ \A t \in Flows : using[t] # NoHandle => pc[t] \in {"native", "dhcp"}

SlotTruth ==
    /\ \A p \in Procs : pc[p] = "destroy" <=> claimed[p] # NoHandle
    /\ destroyInFlight <=> \E p \in Procs : pc[p] = "destroy"
    /\ \A p, q \in Procs : pc[p] = "destroy" /\ pc[q] = "destroy" => p = q
    /\ destroyInFlight \/ lost => handle = NoHandle
    /\ lost => ~destroyInFlight

Turns ==
    /\ pc[Reconnect] # "idle" => forwarding
    /\ forwarding => ending = "ok" /\ ConnectOver

EmptySlot ==
    /\ ~forwarding /\ pc[Connect] \notin {"enter", "native", "enterDhcp", "dhcp",
                                          "install", "connected", "claim"}
        => handle = NoHandle
    /\ pc[Reconnect] \in {"recheck", "delay", "begin", "create", "publishFlow",
                          "publishSlot"}
        => handle = NoHandle

Alone ==
    /\ inFlow \subseteq {activeFlow}
    /\ pc[Reconnect] = "begin" => Connect \notin inFlow
    /\ cleanupClaimed => destroyed /\ inFlow = {}
    /\ \A d \in Callers :
        /\ pc[d] \in {"interrupt", "interrupting", "await"} =>
            destroyed /\ inFlow \subseteq {seenFlow[d]}
        /\ pc[d] = "claimCleanup" => destroyed /\ inFlow = {}

UsesSlot ==
    \A t \in Flows : using[t] # NoHandle => using[t] = handle

Gone ==
    /\ \A p \in Procs : pc[p] \in {"release", "finishConfirmed"} => live = {}
    /\ \A p \in Procs : pc[p] = "finishConfirmed" => lease # "held"
    /\ lease = "released" => cleanupClaimed /\ live = {}
    /\ cleanupConfirmed => cleanupClaimed /\ live = {} /\ lease # "held"
    /\ \A d \in Callers : outcome[d] \in {"CONFIRMED", "ALREADY_CONFIRMED"} =>
            cleanupClaimed /\ live = {} /\ lease # "held"

CleanupInv ==
    /\ Places
    /\ SlotTruth
    /\ Turns
    /\ EmptySlot
    /\ Alone
    /\ UsesSlot
    /\ NoForgottenHandle
    /\ Gone

\* The variables CleanupInv reads, but for pc.
cleanupVars ==
    <<handle, destroyInFlight, lost, destroyed, activeFlow, inFlow,
      cleanupClaimed, cleanupConfirmed, forwarding, created, live, using, fresh,
      claimed, resume, ending, seenFlow, outcome, lease>>

\* Thread p goes on to l and nothing else of interest happens.
Walks(p, l) == Goto(p, l) /\ UNCHANGED cleanupVars

\* Flow t gives up: it will destroy its connection and leave.
GivesUp(t) ==
    /\ pc[t] \in Body \ {"publishFlow", "publishSlot"}
    /\ Goto(t, "claim")
    /\ \E r \in {"exit", "failed"} : resume' = [resume EXCEPT ![t] = r]
    /\ t = Reconnect => ending' = ending
    /\ using'[t] = NoHandle
    /\ \A u \in Flows \ {t} : using'[u] = using[u]
    /\ UNCHANGED <<slotVars, destroyed, activeFlow, inFlow, cleanupClaimed,
                   cleanupConfirmed, forwarding, created, live, fresh, claimed,
                   seenFlow, outcome, lease>>

USE ControllerAssumption
    DEF Procs, Flows, Connect, Reconnect, Labels, Goto, Walks, cleanupVars,
        slotVars, coordinatorVars, stateVars, nativeVars, localVars, leaseVars,
        TypeOK, Body, Cleaning, Failing, ConnectOver, CleanupInv, Places,
        SlotTruth, Turns, EmptySlot, Alone, UsesSlot, NoForgottenHandle, Gone

-----------------------------------------------------------------------------
\* The connect coroutine outside its native work.
LEMMA ConnectCleans ==
    ASSUME TypeOK, CleanupInv, ConnectStart \/ ConnectStep
    PROVE  CleanupInv'
<1>1. CASE ConnectStart
  <2>1. pc[Connect] = "idle"
      BY <1>1 DEF ConnectStart
  <2>2. PICK l \in {"perform", "done"} : Walks(Connect, l)
      BY <1>1 DEF ConnectStart
  <2> QED BY <2>1, <2>2
<1>2. CASE PerformConnect
    BY <1>2 DEF PerformConnect
<1>3. CASE CheckDestroyed
  <2>1. pc[Connect] = "check"
      BY <1>3 DEF CheckDestroyed
  <2>2. PICK l \in {"begin", "done"} : Walks(Connect, l)
      BY <1>3 DEF CheckDestroyed
  <2> QED BY <2>1, <2>2
<1>4. CASE MarkNativeEntered
    BY <1>4 DEF MarkNativeEntered
<1>5. CASE ConnectEnds
    BY <1>5 DEF ConnectEnds
<1>6. CASE ConnectGivesUp
    BY <1>6 DEF ConnectGivesUp
<1>7. CASE ConnectRetries
    BY <1>7 DEF ConnectRetries
<1>8. CASE RetryDelayOver
  <2>1. pc[Connect] = "retryDelay"
      BY <1>8 DEF RetryDelayOver
  <2>2. PICK l \in {"perform", "done"} : Walks(Connect, l)
      BY <1>8 DEF RetryDelayOver
  <2> QED BY <2>1, <2>2
<1> QED BY <1>1, <1>2, <1>3, <1>4, <1>5, <1>6, <1>7, <1>8 DEF ConnectStep

\* A flow that gives up stays registered and takes nothing out of the slot yet.
LEMMA GivingUpCleans ==
    ASSUME TypeOK, CleanupInv, NEW t \in Flows, GivesUp(t)
    PROVE  CleanupInv'
<1>1. PICK r \in {"exit", "failed"} : resume' = [resume EXCEPT ![t] = r]
    BY DEF GivesUp
<1>2. Places' /\ SlotTruth'
    BY <1>1 DEF GivesUp
<1>3. Turns' /\ EmptySlot'
    BY <1>1 DEF GivesUp
<1>4. Alone' /\ UsesSlot'
    BY <1>1 DEF GivesUp
<1>5. NoForgottenHandle'
    BY <1>1 DEF GivesUp
<1>6. Gone'
    BY <1>1 DEF GivesUp
<1> QED BY <1>2, <1>3, <1>4, <1>5, <1>6

\* The reconnect coroutine outside its native work.
LEMMA ReconnectCleans ==
    ASSUME TypeOK, CleanupInv, ~TailOutlastsDelay,
           TriggerReconnect \/ ReconnectStep
    PROVE  CleanupInv'
<1>1. CASE TriggerReconnect
    BY <1>1 DEF TriggerReconnect
<1>2. CASE ReconnectStart
    BY <1>2 DEF ReconnectStart
<1>3. CASE ReconnectSkipped
    BY <1>3 DEF ReconnectSkipped
<1>4. CASE ReconnectReset
    BY <1>4 DEF ReconnectReset
<1>5. CASE ReconnectRecheck
  <2>1. pc[Reconnect] = "recheck"
      BY <1>5 DEF ReconnectRecheck
  <2>2. PICK l \in {"idle", "delay"} : Walks(Reconnect, l)
      BY <1>5 DEF ReconnectRecheck
  <2> QED BY <2>1, <2>2
<1>6. CASE ReconnectDelayOver
  <2>1. pc[Reconnect] = "delay" /\ Connect \notin inFlow
      BY <1>6 DEF ReconnectDelayOver
  <2>2. PICK l \in {"idle", "begin"} : Walks(Reconnect, l)
      BY <1>6 DEF ReconnectDelayOver
  <2> QED BY <2>1, <2>2
<1>7. CASE ReconnectDelayCancelled
    BY <1>7 DEF ReconnectDelayCancelled, Throw
<1>8. CASE ReconnectFailed
    BY <1>8 DEF ReconnectFailed
<1>9. CASE InstallAborted
  <2>1. GivesUp(Reconnect)
      BY <1>9 DEF InstallAborted, AbortReconnect, GivesUp
  <2> QED BY <2>1, GivingUpCleans
<1>10. CASE ExitWithoutFlow
    BY <1>10 DEF ExitWithoutFlow
<1>11. CASE ReconnectEnds
    BY <1>11 DEF ReconnectEnds
<1> QED BY <1>1, <1>2, <1>3, <1>4, <1>5, <1>6, <1>7, <1>8, <1>9, <1>10, <1>11
           DEF ReconnectStep

-----------------------------------------------------------------------------
(* The native work of a flow. *)

\* Every failure path of a flow is a flow giving up.
LEMMA FailureGivesUp ==
    ASSUME TypeOK, CleanupInv, NEW t \in Flows,
           \/ NativeCreateFails(t) \/ EnterConnectFails(t)
           \/ EnterDhcpCancelled(t) \/ InstallRefused(t)
           \/ StartForwardingThrows(t) \/ ConnectErrs(t) \/ PinMismatch(t)
           \/ DhcpReturnsCancelled(t)
    PROVE  GivesUp(t)
<1> USE DEF GivesUp, Throw, AbortReconnect, Return
<1>1. CASE NativeCreateFails(t)
    BY <1>1 DEF NativeCreateFails
<1>2. CASE EnterConnectFails(t)
    BY <1>2 DEF EnterConnectFails
<1>3. CASE EnterDhcpCancelled(t)
    BY <1>3 DEF EnterDhcpCancelled
<1>4. CASE InstallRefused(t)
    BY <1>4 DEF InstallRefused
<1>5. CASE StartForwardingThrows(t)
    BY <1>5 DEF StartForwardingThrows
<1>6. CASE ConnectErrs(t)
    BY <1>6 DEF ConnectErrs
<1>7. CASE PinMismatch(t)
  <2>1. CASE t = Connect
      BY <1>7, <2>1 DEF PinMismatch
  <2>2. CASE t = Reconnect
      BY <1>7, <2>2 DEF PinMismatch
  <2> QED BY <2>1, <2>2
<1>8. CASE DhcpReturnsCancelled(t)
    BY <1>8 DEF DhcpReturnsCancelled
<1> QED BY <1>1, <1>2, <1>3, <1>4, <1>5, <1>6, <1>7, <1>8

\* beginFlow: the flow finds no other one registered.
LEMMA BeginCleans ==
    ASSUME TypeOK, CleanupInv, NEW t \in Flows, BeginFlow(t)
    PROVE  CleanupInv'
<1>1. PICK l \in {"mark", "create"} : Goto(t, l)
    BY DEF BeginFlow
<1>2. /\ pc[t] = "begin" /\ ~destroyed
      /\ activeFlow' = t /\ inFlow' = inFlow \cup {t}
      /\ UNCHANGED <<handle, destroyInFlight, lost, destroyed, cleanupClaimed,
                     cleanupConfirmed, forwarding, created, live, using, fresh,
                     claimed, resume, ending, seenFlow, outcome, lease>>
    BY DEF BeginFlow, RegisterFlow
<1>3. inFlow = {}
    BY <1>2
<1> QED BY <1>1, <1>2, <1>3

\* Flow.exit: the last flow to leave after a teardown takes the cleanup over.
LEMMA ExitCleans ==
    ASSUME TypeOK, CleanupInv, NEW t \in Flows, Exit(t)
    PROVE  CleanupInv'
<1>1. /\ pc[t] = "exit" /\ t \in inFlow
      /\ inFlow' = {} /\ activeFlow' \in {activeFlow, NoFlow}
      /\ UNCHANGED <<handle, destroyInFlight, lost, destroyed, cleanupConfirmed,
                     forwarding, created, live, using, fresh, claimed, ending,
                     seenFlow, outcome, lease>>
    BY DEF Exit, ExitFlow
<1>2. CASE ExitOwnsCleanup
  <2>1. /\ Goto(t, "claim") /\ resume' = [resume EXCEPT ![t] = "cleanup"]
        /\ destroyed /\ cleanupClaimed' = TRUE
      BY <1>2 DEF Exit, ExitFlow, ExitOwnsCleanup
  <2>2. Places'
      BY <1>1, <2>1
  <2>3. Turns' /\ EmptySlot'
      BY <1>1, <2>1
  <2>4. Alone'
      BY <1>1, <2>1
  <2> QED BY <1>1, <2>1, <2>2, <2>3, <2>4
<1>3. CASE ~ExitOwnsCleanup
  <2>1. Goto(t, "after") /\ UNCHANGED <<resume, cleanupClaimed>>
      BY <1>3 DEF Exit, ExitFlow, ExitOwnsCleanup
  <2> QED BY <1>1, <2>1
<1> QED BY <1>2, <1>3

\* Every step of a flow keeps the cleanup invariant.
LEMMA FlowCleans ==
    ASSUME OwnerInv, TypeOK, CleanupInv, NEW t \in Flows,
           FlowStep(t) \/ NativeReturn(t)
    PROVE  CleanupInv'
<1>1. CASE BeginRefused(t)
  <2>1. pc[t] = "begin"
      BY <1>1 DEF BeginRefused
  <2>2. CASE t = Connect
    <3>1. Walks(Connect, "done")
        BY <1>1, <2>2 DEF BeginRefused
    <3> QED BY <2>1, <2>2, <3>1
  <2>3. CASE t = Reconnect
    <3>1. Walks(Reconnect, "idle")
        BY <1>1, <2>3 DEF BeginRefused
    <3> QED BY <2>1, <2>3, <3>1
  <2> QED BY <2>2, <2>3
<1>2. CASE BeginFlow(t)
    BY <1>2, BeginCleans
<1>3. CASE NativeCreate(t)
    BY <1>3 DEF NativeCreate
<1>4. CASE PublishFlow(t)
    BY <1>4 DEF PublishFlow
<1>5. CASE PublishSlot(t)
    BY <1>5 DEF PublishSlot, Publish
<1>6. CASE EnterConnect(t)
    BY <1>6 DEF EnterConnect
<1>7. CASE ConnectReturns(t)
    BY <1>7 DEF ConnectReturns, Return
<1>8. CASE EnterDhcp(t)
    BY <1>8 DEF EnterDhcp
<1>9. CASE DhcpReturns(t)
    BY <1>9 DEF DhcpReturns, Return
<1>10. CASE InstallTun(t)
    BY <1>10 DEF InstallTun
<1>11. CASE StartForwarding(t)
    BY <1>11 DEF StartForwarding
<1>12. CASE Exit(t)
    BY <1>12, ExitCleans
<1> QED BY <1>1, <1>2, <1>3, <1>4, <1>5, <1>6, <1>7, <1>8, <1>9, <1>10, <1>11,
           <1>12, FailureGivesUp, GivingUpCleans DEF FlowStep, NativeReturn

-----------------------------------------------------------------------------
\* A teardown caller: it goes on to the cleanup only when no flow is left.
LEMMA CallerCleans ==
    ASSUME TypeOK, CleanupInv, NEW d \in Callers,
           DestroyResources(d) \/ CallerStep(d)
    PROVE  CleanupInv'
<1>1. CASE DestroyResources(d)
    BY <1>1 DEF DestroyResources
<1>2. CASE MarkTeardownRequested(d)
    BY <1>2 DEF MarkTeardownRequested
<1>3. CASE RequestTeardown(d)
  <2>1. /\ destroyed' = TRUE /\ seenFlow' = [seenFlow EXCEPT ![d] = activeFlow]
        /\ pc[d] = "request"
        /\ UNCHANGED <<handle, destroyInFlight, lost, activeFlow, inFlow,
                       cleanupClaimed, cleanupConfirmed, forwarding, created,
                       live, using, fresh, claimed, resume, ending, outcome,
                       lease>>
      BY <1>3 DEF RequestTeardown, BeginTeardown
  <2>2. CASE activeFlow = NoFlow
    <3>1. Goto(d, "claimCleanup") /\ inFlow = {}
        BY <1>3, <2>2 DEF RequestTeardown
    <3> QED BY <2>1, <2>2, <3>1
  <2>3. CASE activeFlow # NoFlow
    <3>1. Goto(d, "interrupt")
        BY <1>3, <2>3 DEF RequestTeardown
    <3> QED BY <2>1, <2>3, <3>1
  <2> QED BY <2>2, <2>3
<1>4. CASE Interrupt(d)
    BY <1>4 DEF Interrupt
<1>5. CASE InterruptReturns(d)
    BY <1>5 DEF InterruptReturns, Return
<1>6. CASE FlowExited(d)
    BY <1>6 DEF FlowExited
<1>7. CASE AwaitExitExpires(d)
    BY <1>7 DEF AwaitExitExpires
<1>8. CASE TakeCleanup(d)
    BY <1>8 DEF TakeCleanup, ClaimCleanup
<1>9. CASE CleanupOwned(d)
    BY <1>9 DEF CleanupOwned
<1>10. CASE CleanupDone(d)
  <2>1. pc[d] = "awaitCleanup" /\ UNCHANGED <<handle, destroyInFlight, lost,
                       destroyed, activeFlow, inFlow,
                       cleanupClaimed, cleanupConfirmed, forwarding, created,
                       live, using, fresh, claimed, resume, ending, seenFlow,
                       lease>>
      BY <1>10 DEF CleanupDone
  <2>2. CASE cleanupConfirmed
    <3>1. /\ Goto(d, "done")
          /\ outcome' = [outcome EXCEPT ![d] = "ALREADY_CONFIRMED"]
        BY <1>10, <2>2 DEF CleanupDone
    <3> QED BY <2>1, <2>2, <3>1
  <2>3. CASE ~cleanupConfirmed
    <3>1. Walks(d, "expire")
        BY <1>10, <2>1, <2>3 DEF CleanupDone
    <3> QED BY <2>1, <3>1
  <2> QED BY <2>2, <2>3
<1>11. CASE AwaitCleanupExpires(d)
    BY <1>11 DEF AwaitCleanupExpires
<1>12. CASE Unresolved(d)
    BY <1>12 DEF Unresolved
<1> QED BY <1>1, <1>2, <1>3, <1>4, <1>5, <1>6, <1>7, <1>8, <1>9, <1>10, <1>11,
           <1>12 DEF CallerStep

-----------------------------------------------------------------------------
(* Claiming, destroying and cleaning up. *)

\* While a thread cleans up no flow is registered, so nothing is pending.
LEMMA CleaningIsAlone ==
    ASSUME CleanupInv, NEW p \in Procs, Cleaning(p)
    PROVE  /\ inFlow = {}
           /\ cleanupClaimed
           /\ \A t \in Flows : pc[t] \notin Body
OBVIOUS

\* A handle leaves the slot only when no flow is working on it.
LEMMA ClaimCleans ==
    ASSUME OwnerInv, TypeOK, CleanupInv, NEW p \in Procs, Claim(p)
    PROVE  CleanupInv'
<1>1. /\ pc[p] = "claim" /\ Goto(p, "destroy")
      /\ handle # NoHandle /\ handle' = NoHandle /\ destroyInFlight' = TRUE
      /\ claimed' = [claimed EXCEPT ![p] = handle]
      /\ UNCHANGED <<lost, destroyed, activeFlow, inFlow, cleanupClaimed,
                     cleanupConfirmed, forwarding, created, live, using, fresh,
                     resume, ending, seenFlow, outcome, lease>>
    BY DEF Claim, ClaimTakes
<1>2. Places'
    BY <1>1
<1>3. SlotTruth'
    BY <1>1
<1>4. Turns' /\ EmptySlot'
    BY <1>1
<1>5. Alone'
    BY <1>1
<1>6. UsesSlot'
    BY <1>1
<1>7. NoForgottenHandle'
    BY <1>1
<1>8. Gone'
    BY <1>1
<1> QED BY <1>2, <1>3, <1>4, <1>5, <1>6, <1>7, <1>8

\* The slot is empty and settled: for the cleanup, nothing is allocated.
LEMMA ClaimNothingCleans ==
    ASSUME TypeOK, CleanupInv, NEW p \in Procs, ClaimNothing(p)
    PROVE  CleanupInv'
<1>1. pc[p] = "claim" /\ handle = NoHandle /\ ~destroyInFlight /\ ~lost
    BY DEF ClaimNothing, ClaimFindsNothing
<1>2. CASE resume[p] = "cleanup"
  <2>1. Walks(p, "release")
      BY <1>2 DEF ClaimNothing, ClaimFindsNothing
  <2>2. live = {}
      BY <1>1, <1>2, CleaningIsAlone DEF NoHandle
  <2> QED BY <1>1, <1>2, <2>1, <2>2
<1>3. CASE resume[p] # "cleanup"
  <2>1. Walks(p, resume[p])
      BY <1>3 DEF ClaimNothing, ClaimFindsNothing
  <2> QED BY <1>1, <1>3, <2>1
<1> QED BY <1>2, <1>3

\* claimHandle on a slot with a loss on record: nothing is taken.
LEMMA ClaimLostCleans ==
    ASSUME TypeOK, CleanupInv, NEW p \in Procs, ClaimLost(p)
    PROVE  CleanupInv'
<1>1. pc[p] = "claim" /\ handle = NoHandle
    BY DEF ClaimLost, ClaimFindsLost
<1>2. CASE resume[p] = "cleanup"
  <2>1. Walks(p, "finish")
      BY <1>2 DEF ClaimLost, ClaimFindsLost
  <2> QED BY <1>1, <1>2, <2>1
<1>3. CASE resume[p] # "cleanup"
  <2>1. Walks(p, resume[p])
      BY <1>3 DEF ClaimLost, ClaimFindsLost
  <2> QED BY <1>1, <1>3, <2>1
<1> QED BY <1>2, <1>3

\* nativeDestroy: the claim is settled, by success or by a loss on record.
LEMMA NativeDestroyCleans ==
    ASSUME OwnerInv, TypeOK, CleanupInv, NEW p \in Procs, NativeDestroy(p)
    PROVE  CleanupInv'
<1>1. /\ pc[p] = "destroy" /\ destroyInFlight /\ handle = NoHandle
      /\ claimed[p] # NoHandle
    BY DEF NativeDestroy, DestroyReturns, DestroyThrows
<1>2. /\ claimed' = [claimed EXCEPT ![p] = NoHandle]
      /\ live' \in {live, live \ {claimed[p]}}
      /\ destroyInFlight' = FALSE
      /\ UNCHANGED <<handle, destroyed, activeFlow, inFlow, cleanupClaimed,
                     cleanupConfirmed, forwarding, created, using, fresh, resume,
                     ending, seenFlow, outcome, lease>>
    BY DEF NativeDestroy, DestroyReturns, DestroyThrows, SettleDestroyed, SettleLost
<1>3. ~lost /\ (~lost' => live' = live \ {claimed[p]})
    BY <1>1 DEF NativeDestroy, DestroyReturns, DestroyThrows, SettleDestroyed,
                SettleLost
<1>4. PICK l \in {"release", "finish", "exit", "failed", "recheck"} :
        /\ Goto(p, l)
        /\ l \in {"release", "finish"} <=> resume[p] = "cleanup"
        /\ l = "release" => ~lost'
        /\ resume[p] # "cleanup" => l = resume[p]
  <2>1. CASE resume[p] = "cleanup"
    <3>1. CASE DestroyReturns(p)
        BY <1>3, <2>1, <3>1 DEF DestroyReturns, SettleDestroyed
    <3>2. CASE DestroyThrows(p)
        BY <2>1, <3>2 DEF DestroyThrows
    <3> QED BY <3>1, <3>2 DEF NativeDestroy
  <2>2. CASE resume[p] # "cleanup"
    <3>1. Goto(p, resume[p])
        BY <2>2 DEF NativeDestroy, DestroyReturns, DestroyThrows
    <3>2. resume[p] \in {"exit", "failed", "recheck"}
        BY <2>2
    <3> QED BY <2>2, <3>1, <3>2
  <2> QED BY <2>1, <2>2
<1>5. Places'
    BY <1>1, <1>2, <1>4
<1>6. SlotTruth'
    BY <1>1, <1>2, <1>3, <1>4
<1>7. Turns' /\ EmptySlot'
    BY <1>1, <1>2, <1>4
<1>8. Alone'
    BY <1>1, <1>2, <1>4
<1>9. UsesSlot'
    BY <1>1, <1>2, <1>4
<1>10. NoForgottenHandle'
    BY <1>1, <1>2, <1>3, <1>4
<1>11. Gone'
  <2>1. ASSUME l = "release" PROVE live' = {}
    <3>1. Cleaning(p) /\ live' = live \ {claimed[p]}
        BY <1>1, <1>3, <1>4, <2>1
    <3>2. \A h \in live : h # handle /\ \A t \in Flows : pc[t] \notin Body
        BY <1>1, <3>1, CleaningIsAlone DEF NoHandle
    <3>3. \A h \in live : \E q \in Procs : claimed[q] = h /\ claimed[q] # NoHandle
        BY <1>3, <3>2 DEF NoHandle
    <3>4. \A h \in live : h = claimed[p]
        BY <1>1, <3>3
    <3>5. \A h : h \notin live'
        BY <3>1, <3>4
    <3> QED BY <3>5
  <2> QED BY <1>1, <1>2, <1>4, <2>1
<1> QED BY <1>5, <1>6, <1>7, <1>8, <1>9, <1>10, <1>11

\* The end of runCleanup.
LEMMA FinishCleans ==
    ASSUME TypeOK, CleanupInv, NEW p \in Procs, Finish(p)
    PROVE  CleanupInv'
<1>1. /\ pc[p] \in {"finish", "finishConfirmed"}
      /\ cleanupConfirmed' = (pc[p] = "finishConfirmed")
      /\ UNCHANGED <<handle, destroyInFlight, lost, destroyed, activeFlow, inFlow,
                     cleanupClaimed, forwarding, created, live, using, fresh,
                     claimed, resume, ending, seenFlow, lease>>
    BY DEF Finish, FinishCleanup
<1>2. PICK l \in {"after", "done", "expire"} :
        Goto(p, l) /\ (l = "after" <=> p \in Flows)
    BY DEF Finish
<1>3. \/ UNCHANGED outcome
      \/ /\ pc[p] = "finishConfirmed"
         /\ outcome' = [outcome EXCEPT ![p] = "CONFIRMED"]
    BY DEF Finish
<1>4. Places' /\ SlotTruth'
    BY <1>1, <1>2
<1>5. Turns' /\ EmptySlot'
    BY <1>1, <1>2
<1>6. Alone' /\ UsesSlot'
    BY <1>1, <1>2
<1>7. NoForgottenHandle'
    BY <1>1, <1>2
<1>8. Gone'
    BY <1>1, <1>2, <1>3
<1> QED BY <1>4, <1>5, <1>6, <1>7, <1>8

\* Every step of claiming, destroying and runCleanup.
LEMMA CleanupStepCleans ==
    ASSUME OwnerInv, TypeOK, CleanupInv, NEW p \in Procs,
           CleanupStep(p) \/ NativeDestroy(p)
    PROVE  CleanupInv'
<1>1. CASE Release(p)
    BY <1>1 DEF Release
<1> QED BY <1>1, ClaimCleans, ClaimNothingCleans, ClaimLostCleans, FinishCleans,
           NativeDestroyCleans DEF CleanupStep

-----------------------------------------------------------------------------
\* At the start no thread is anywhere and the slot is empty.
LEMMA CleanupInit == Init => CleanupInv
BY DEF Init, SlotInit, CoordinatorInit, NoHandle

\* Every step of every thread keeps the cleanup invariant.
LEMMA CleanupNext ==
    ASSUME ~TailOutlastsDelay
    PROVE  OwnerInv /\ TypeOK /\ CleanupInv /\ [Next]_vars => CleanupInv'
<1> SUFFICES ASSUME OwnerInv, TypeOK, CleanupInv, [Next]_vars PROVE CleanupInv'
    OBVIOUS
<1>1. CASE ForceRelease
    BY <1>1 DEF ForceRelease
<1>2. CASE UNCHANGED vars
    BY <1>2 DEF vars
<1> QED BY <1>1, <1>2, ConnectCleans, ReconnectCleans, FlowCleans, CallerCleans,
           CleanupStepCleans DEF Next

\* The cleanup invariant holds throughout.
THEOREM CleanupInvariant ==
    ASSUME ~TailOutlastsDelay
    PROVE  Spec => []CleanupInv
<1>1. OwnerInv /\ TypeOK /\ CleanupInv /\ [Next]_vars => CleanupInv'
    BY CleanupNext
<1> HIDE DEF TypeOK, CleanupInv
<1> QED BY <1>1, CleanupInit, Ownership, ControllerTypes, PTL DEF Spec

\* No teardown, retry or reconnect frees a connection under a flow's native
\* call: what a flow works on is what the slot holds (destroyNative).
THEOREM FlowsStaySafe ==
    ASSUME ~TailOutlastsDelay
    PROVE  Spec => []FlowsUseLiveHandles
<1>1. OwnerInv /\ CleanupInv => FlowsUseLiveHandles
    BY DEF FlowsUseLiveHandles, OwnerInv, HandleIsLive
<1> HIDE DEF CleanupInv
<1> QED BY <1>1, CleanupInvariant, Ownership, PTL

\* The attempt gives its lease back only when no flow is inside the protocol
\* and nothing native is allocated, and this stays so (runCleanup).
THEOREM ReleaseIsFinal ==
    ASSUME ~TailOutlastsDelay
    PROVE  Spec => []ReleasedMeansGone
<1>1. CleanupInv => ReleasedMeansGone
    BY DEF ReleasedMeansGone
<1> HIDE DEF CleanupInv
<1> QED BY <1>1, CleanupInvariant, PTL

\* destroyResources tells no caller of a confirmed cleanup while something is
\* allocated or the lease is still held (isCleanupConfirmed).
THEOREM ConfirmationIsTrue ==
    ASSUME ~TailOutlastsDelay
    PROVE  Spec => []ConfirmedMeansGone
<1>1. CleanupInv => ConfirmedMeansGone
    BY DEF ConfirmedMeansGone
<1> HIDE DEF CleanupInv
<1> QED BY <1>1, CleanupInvariant, PTL

\* No connection is forgotten: unless a loss is on record, each one allocated
\* is in the slot, claimed by its destroyer, or still known to its flow alone.
THEOREM NothingForgotten ==
    ASSUME ~TailOutlastsDelay
    PROVE  Spec => []NoForgottenHandle
<1>1. CleanupInv => NoForgottenHandle
    OBVIOUS
<1> HIDE DEF CleanupInv, NoForgottenHandle
<1> QED BY <1>1, CleanupInvariant, PTL

-----------------------------------------------------------------------------
(* The refinement. *)

\* The initial state is an initial state of the abstract attempt.
LEMMA LifetimeInit == Init => Lifetime!Init
BY DEF Init, CoordinatorInit, Lifetime!Init, NoHandle

\* A step that touches neither the flows, nor the connections, nor the lease.
LEMMA Stutters ==
    ASSUME TypeOK, TypeOK', UNCHANGED <<destroyed, inFlow, live, lease>>,
           \A t \in Flows : using'[t] = using[t]
    PROVE  UNCHANGED Lifetime!vars
BY DEF Lifetime!vars

\* The coroutines outside their native work do not show.
LEMMA CoroutinesStutter ==
    ASSUME \/ ConnectStart \/ ConnectStep \/ TriggerReconnect \/ ReconnectStep
    PROVE  UNCHANGED <<destroyed, inFlow, live, lease, using>>
BY DEF ConnectStart, ConnectStep, PerformConnect, CheckDestroyed,
       MarkNativeEntered, ConnectEnds, ConnectGivesUp, ConnectRetries,
       RetryDelayOver, TriggerReconnect, ReconnectStep, ReconnectStart,
       ReconnectSkipped, ReconnectReset, ReconnectRecheck, ReconnectDelayOver,
       ReconnectDelayCancelled, ReconnectFailed, InstallAborted,
       ExitWithoutFlow, ReconnectEnds

\* A flow enters, creates, uses what the slot holds, and leaves.
LEMMA FlowRefines ==
    ASSUME OwnerInv, TypeOK, TypeOK', CleanupInv, NEW t \in Flows,
           FlowStep(t) \/ NativeReturn(t)
    PROVE  [Lifetime!Next]_Lifetime!vars
<1>1. CASE BeginFlow(t)
  <2>1. Lifetime!Enter(t)
      BY <1>1 DEF BeginFlow, RegisterFlow, Lifetime!Enter
  <2> QED BY <2>1 DEF Lifetime!Next
<1>2. CASE NativeCreate(t)
  <2>1. created + 1 \in Handles /\ Lifetime!Create(created + 1)
      BY <1>2 DEF NativeCreate, Handles, Lifetime!Create
  <2> QED BY <2>1 DEF Lifetime!Next
<1>3. CASE EnterConnect(t) \/ EnterDhcp(t)
  <2>1. /\ t \in inFlow /\ using[t] = NoHandle
        /\ using' = [using EXCEPT ![t] = handle]
        /\ UNCHANGED <<destroyed, inFlow, live, lease>>
      BY <1>3 DEF EnterConnect, EnterDhcp
  <2>2. CASE handle = NoHandle
      BY <2>1, <2>2, Stutters
  <2>3. CASE handle # NoHandle
    <3>1. handle \in live /\ handle \in Handles
        BY <2>3 DEF OwnerInv, HandleIsLive, Handles
    <3>2. [u \in Flows |-> using'[u]]
            = [[u \in Flows |-> using[u]] EXCEPT ![t] = handle]
        BY <2>1
    <3>3. PICK h \in Handles : h = handle
        BY <3>1
    <3>4. Lifetime!StartUse(t, h)
        BY <2>1, <3>1, <3>2, <3>3 DEF Lifetime!StartUse
    <3>5. \E g \in Handles : Lifetime!StartUse(t, g)
        BY <3>4
    <3> QED BY <3>5 DEF Lifetime!Next
  <2> QED BY <2>2, <2>3
<1>4. CASE NativeReturn(t)
  <2>1. /\ using' = [using EXCEPT ![t] = NoHandle]
        /\ UNCHANGED <<destroyed, inFlow, live, lease>>
      BY <1>4 DEF NativeReturn, ConnectReturns, ConnectErrs, PinMismatch,
                  DhcpReturns, DhcpReturnsCancelled, Return
  <2>2. [u \in Flows |-> using'[u]]
          = [[u \in Flows |-> using[u]] EXCEPT ![t] = 0]
      BY <2>1 DEF NoHandle
  <2>3. Lifetime!EndUse(t)
      BY <2>1, <2>2 DEF Lifetime!EndUse
  <2> QED BY <2>3 DEF Lifetime!Next
<1>5. CASE Exit(t)
  <2>1. Lifetime!Leave(t)
      BY <1>5 DEF Exit, ExitFlow, Lifetime!Leave, NoHandle
  <2> QED BY <2>1 DEF Lifetime!Next
<1>6. CASE \/ BeginRefused(t) \/ NativeCreateFails(t) \/ PublishFlow(t)
           \/ PublishSlot(t) \/ EnterConnectFails(t) \/ EnterDhcpCancelled(t)
           \/ InstallRefused(t) \/ InstallTun(t) \/ StartForwarding(t)
           \/ StartForwardingThrows(t)
  <2>1. UNCHANGED <<destroyed, inFlow, live, lease, using>>
      BY <1>6 DEF BeginRefused, NativeCreateFails, PublishFlow, PublishSlot,
             EnterConnectFails, EnterDhcpCancelled, InstallRefused, InstallTun,
             StartForwarding, StartForwardingThrows
  <2> QED BY <2>1, Stutters
<1> QED BY <1>1, <1>2, <1>3, <1>4, <1>5, <1>6 DEF FlowStep

\* A teardown caller closes the attempt; what it interrupts is not a use.
LEMMA CallerRefines ==
    ASSUME TypeOK, TypeOK', NEW d \in Callers,
           DestroyResources(d) \/ CallerStep(d)
    PROVE  [Lifetime!Next]_Lifetime!vars
<1>1. CASE RequestTeardown(d)
  <2>1. Lifetime!Close
      BY <1>1 DEF RequestTeardown, BeginTeardown, Lifetime!Close
  <2> QED BY <2>1 DEF Lifetime!Next
<1>2. CASE Interrupt(d) \/ InterruptReturns(d)
  <2>1. /\ \A t \in Flows : using'[t] = using[t]
        /\ UNCHANGED <<destroyed, inFlow, live, lease>>
      BY <1>2 DEF Interrupt, InterruptReturns, Return
  <2> QED BY <2>1, Stutters
<1>3. CASE \/ DestroyResources(d) \/ MarkTeardownRequested(d) \/ FlowExited(d)
           \/ AwaitExitExpires(d) \/ TakeCleanup(d) \/ CleanupOwned(d)
           \/ CleanupDone(d) \/ AwaitCleanupExpires(d) \/ Unresolved(d)
  <2>1. UNCHANGED <<destroyed, inFlow, live, lease, using>>
      BY <1>3 DEF DestroyResources, MarkTeardownRequested, FlowExited,
             AwaitExitExpires, TakeCleanup, ClaimCleanup, CleanupOwned,
             CleanupDone, AwaitCleanupExpires, Unresolved
  <2> QED BY <2>1, Stutters
<1> QED BY <1>1, <1>2, <1>3 DEF CallerStep

\* Destroying frees a connection no flow uses; releasing gives the slot back.
LEMMA CleanupRefines ==
    ASSUME OwnerInv, TypeOK, TypeOK', CleanupInv, NEW p \in Procs,
           CleanupStep(p) \/ NativeDestroy(p)
    PROVE  [Lifetime!Next]_Lifetime!vars
<1>1. CASE NativeDestroy(p)
  <2>1. /\ live' \in {live, live \ {claimed[p]}} /\ pc[p] = "destroy"
        /\ UNCHANGED <<destroyed, inFlow, lease, using>>
      BY <1>1 DEF NativeDestroy, DestroyReturns, DestroyThrows
  <2>2. CASE live' = live
      BY <2>1, <2>2, Stutters
  <2>3. CASE live' = live \ {claimed[p]}
    <3>1. claimed[p] # NoHandle /\ claimed[p] # handle /\ claimed[p] \in live
        BY <2>1 DEF OwnerInv, OneDestroyerPerHandle
    <3>2. claimed[p] \in Handles
        BY <3>1 DEF Handles
    <3>3. Lifetime!Free(claimed[p])
        BY <2>1, <2>3, <3>1 DEF Lifetime!Free
    <3> QED BY <3>2, <3>3 DEF Lifetime!Next
  <2> QED BY <2>1, <2>2, <2>3
<1>2. CASE Release(p)
  <2>1. destroyed /\ inFlow = {} /\ live = {}
      BY <1>2 DEF Release
  <2>2. CASE lease = "held"
    <3>1. Lifetime!GiveBack
        BY <1>2, <2>1, <2>2 DEF Release, Lifetime!GiveBack
    <3> QED BY <3>1 DEF Lifetime!Next
  <2>3. CASE lease # "held"
    <3>1. UNCHANGED <<destroyed, inFlow, live, lease, using>>
        BY <1>2, <2>3 DEF Release
    <3> QED BY <3>1, Stutters
  <2> QED BY <2>2, <2>3
<1>3. CASE Claim(p) \/ ClaimNothing(p) \/ ClaimLost(p) \/ Finish(p)
  <2>1. UNCHANGED <<destroyed, inFlow, live, lease, using>>
      BY <1>3 DEF Claim, ClaimNothing, ClaimLost, Finish, FinishCleanup
  <2> QED BY <2>1, Stutters
<1> QED BY <1>1, <1>2, <1>3 DEF CleanupStep

\* Every step is a step of the abstract attempt, or leaves it as it is.
LEMMA LifetimeStep ==
    ASSUME OwnerInv, TypeOK, TypeOK', CleanupInv, [Next]_vars
    PROVE  [Lifetime!Next]_Lifetime!vars
<1>1. CASE ConnectStart \/ ConnectStep \/ TriggerReconnect \/ ReconnectStep
    BY <1>1, CoroutinesStutter, Stutters
<1>2. CASE ForceRelease
  <2>1. Lifetime!TakeAway
      BY <1>2 DEF ForceRelease, Lifetime!TakeAway
  <2> QED BY <2>1 DEF Lifetime!Next
<1>3. CASE UNCHANGED vars
    BY <1>3, Stutters DEF vars
<1> QED BY <1>1, <1>2, <1>3, FlowRefines, CallerRefines, CleanupRefines DEF Next

\* Every behaviour of the controller keeps the promise of AttemptLifetime: a
\* connection is freed only while no flow works on it, and the process-wide
\* slot is given back only when the attempt is closed, empty and has nothing
\* allocated.
THEOREM ControllerImplementsLifetime ==
    ASSUME ~TailOutlastsDelay
    PROVE  Spec => ImplementsLifetime
<1>1. OwnerInv /\ TypeOK /\ TypeOK' /\ CleanupInv /\ [Next]_vars
        => [Lifetime!Next]_Lifetime!vars
    BY LifetimeStep
<1> HIDE DEF TypeOK, CleanupInv
<1> QED BY <1>1, LifetimeInit, CleanupInvariant, Ownership, ControllerTypes, PTL
        DEF Spec, ImplementsLifetime, Lifetime!Spec
=============================================================================
