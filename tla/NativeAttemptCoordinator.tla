---------------------- MODULE NativeAttemptCoordinator ----------------------
(***************************************************************************)
(* Single-owner coordination of one attempt's native connection            *)
(* (NativeAttemptCoordinator.kt): its lock sections as action fragments.   *)
(* Calls it makes outside its lock (interrupt, destroy, release, bounded   *)
(* waits) are steps of the calling thread in ConnectionController.tla.     *)
(*                                                                         *)
(* `destroyed` and `teardownRequested` are set together under the lock and *)
(* never cleared, so one variable stands for both.  A flow object is the   *)
(* thread that registered it: once `destroyed` is set no thread registers  *)
(* another, so a flow seen by teardown has exited exactly when its thread  *)
(* is no longer in `inFlow`.                                               *)
(***************************************************************************)
EXTENDS NativeHandleSlot

CONSTANT NoFlow

VARIABLES
    destroyed,         \* terminal: teardown has begun
    activeFlow,        \* the last flow registered that has not exited, or NoFlow
    inFlow,            \* threads whose flow has not exited (the exit latches)
    cleanupClaimed,    \* somebody owns the cleanup
    cleanupFinished,   \* the cleanup attempt is over (the cleanupDone latch)
    cleanupConfirmed   \* ... and the native side was proven gone

coordinatorVars == <<destroyed, activeFlow, inFlow, cleanupClaimed,
                     cleanupFinished, cleanupConfirmed>>

CoordinatorInit ==
    /\ destroyed = FALSE
    /\ activeFlow = NoFlow
    /\ inFlow = {}
    /\ cleanupClaimed = FALSE
    /\ cleanupFinished = FALSE
    /\ cleanupConfirmed = FALSE

\* Mutant: the destroyed flag is read only by the fast path, before the lock.
RegisterFlowUnchecked(t) ==
    /\ activeFlow' = t
    /\ inFlow' = inFlow \cup {t}
    /\ UNCHANGED <<destroyed, cleanupClaimed, cleanupFinished, cleanupConfirmed>>

\* beginFlow when it registers: destroyed is re-checked under the lock.
RegisterFlow(t) ==
    /\ ~destroyed
    /\ activeFlow' = t
    /\ inFlow' = inFlow \cup {t}
    /\ UNCHANGED <<destroyed, cleanupClaimed, cleanupFinished, cleanupConfirmed>>

\* The lock section of Flow.exit: the latch opens and, if teardown is pending
\* and nobody has, this flow claims the cleanup (ExitOwnsCleanup).
ExitOwnsCleanup == destroyed /\ ~cleanupClaimed

ExitFlow(t) ==
    /\ inFlow' = inFlow \ {t}
    /\ activeFlow' = IF activeFlow = t THEN NoFlow ELSE activeFlow
    /\ cleanupClaimed' = (cleanupClaimed \/ destroyed)
    /\ UNCHANGED <<destroyed, cleanupFinished, cleanupConfirmed>>

\* The first lock section of requestTeardown.
BeginTeardown ==
    /\ destroyed' = TRUE
    /\ UNCHANGED <<activeFlow, inFlow, cleanupClaimed, cleanupFinished,
                   cleanupConfirmed>>

\* claimCleanupLocked succeeding.
ClaimCleanup ==
    /\ ~cleanupClaimed
    /\ cleanupClaimed' = TRUE
    /\ UNCHANGED <<destroyed, activeFlow, inFlow, cleanupFinished,
                   cleanupConfirmed>>

\* The end of runCleanup: the result is published and the latch opened.
FinishCleanup(confirmed) ==
    /\ cleanupConfirmed' = confirmed
    /\ cleanupFinished' = TRUE
    /\ UNCHANGED <<destroyed, activeFlow, inFlow, cleanupClaimed>>
=============================================================================
