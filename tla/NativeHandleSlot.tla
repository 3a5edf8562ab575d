-------------------------- MODULE NativeHandleSlot --------------------------
(***************************************************************************)
(* The atomic ownership-transfer point of one attempt's native handle      *)
(* (NativeHandleSlot.kt).  Every method runs under one lock and is one     *)
(* action fragment; ConnectionController.tla composes them into the steps  *)
(* of the threads that call them.                                          *)
(***************************************************************************)
EXTENDS Integers

VARIABLES
    handle,           \* the published handle, 0 when none
    destroyInFlight,  \* a claimed handle's destruction has not been settled
    lost              \* terminal: a destruction was never proven

slotVars == <<handle, destroyInFlight, lost>>

NoHandle == 0

SlotInit ==
    /\ handle = NoHandle
    /\ destroyInFlight = FALSE
    /\ lost = FALSE

\* publish: refused, leaving the slot alone, after or during an unproven
\* destruction.
Publish(h) ==
    /\ handle' = IF lost \/ destroyInFlight THEN handle ELSE h
    /\ UNCHANGED <<destroyInFlight, lost>>

\* Mutant: the handle is read but not taken out of the slot.
ClaimTakesCopy ==
    /\ handle # NoHandle
    /\ destroyInFlight' = TRUE
    /\ UNCHANGED <<handle, lost>>

\* claimHandle returning Claimed(handle).  It waits, bounded, for a
\* destruction in flight and takes a published handle in any case.
ClaimTakes ==
    /\ handle # NoHandle
    /\ handle' = NoHandle
    /\ destroyInFlight' = TRUE
    /\ UNCHANGED lost

\* Mutant: an empty slot is read as "nothing outstanding" although another
\* owner's destruction is still in flight.
ClaimFindsNothingWhenEmpty ==
    /\ handle = NoHandle
    /\ UNCHANGED slotVars

\* claimHandle returning NothingOutstanding: the slot is empty and settled.
ClaimFindsNothing ==
    /\ handle = NoHandle
    /\ ~destroyInFlight
    /\ ~lost
    /\ UNCHANGED slotVars

\* claimHandle returning Lost: a loss is on record, or the bounded wait
\* (DESTROY_SETTLE_WAIT_MS) for another owner's destruction expired.
ClaimFindsLost ==
    /\ handle = NoHandle
    /\ destroyInFlight \/ lost
    /\ UNCHANGED slotVars

SettleDestroyed ==
    /\ destroyInFlight' = FALSE
    /\ UNCHANGED <<handle, lost>>

SettleLost ==
    /\ destroyInFlight' = FALSE
    /\ lost' = TRUE
    /\ UNCHANGED handle
=============================================================================
