----------------------- MODULE NativeLifetimeRegistry -----------------------
(***************************************************************************)
(* The process-wide native-operation slot of the SoftEther client          *)
(* (NativeLifetimeRegistry.kt).  At most one connection attempt owns the   *)
(* slot; a replacement attempt is refused until the owner confirms that    *)
(* its native cleanup returned, or until one of two soft bounds (stuck in  *)
(* TEARDOWN, stuck in CONNECTING) gives the slot up for lost.              *)
(*                                                                         *)
(* Every method runs under one lock, so each is one action.  A lease is    *)
(* its attempt id; the callers of an old attempt keep their lease object   *)
(* for ever, so every operation may be called with any id ever issued.     *)
(* Refusals and calls dropped by `mutate` change nothing and are           *)
(* stuttering steps.                                                       *)
(***************************************************************************)
EXTENDS Integers

CONSTANTS TeardownBound,    \* NATIVE_SLOT_FORCE_RELEASE_AFTER_MS
          ConnectingBound,  \* NATIVE_SLOT_FORCE_RELEASE_CONNECTING_AFTER_MS
          MaxAttempts,      \* bound: attempts granted in a behaviour
          MaxTime           \* bound: largest clock reading

ASSUME BoundsAssumption ==
    /\ TeardownBound \in Nat \ {0}
    /\ ConnectingBound \in Nat \ {0}
    /\ MaxAttempts \in Nat
    /\ MaxTime \in Nat

VARIABLES
    lastAttemptId,          \* monotonic attempt counter
    activeAttemptId,        \* the owner, or NoAttempt
    activePhase,            \* phase of the owner
    deadlineExpired,        \* a reporting deadline expired for the owner
    teardownRequestedAtMs,  \* clock at the owner's teardown request, 0 = unset
    connectingEnteredAtMs,  \* clock at the owner's native entry, 0 = unset
    lastReleaseOutcome,     \* NORMAL, or the last forced release
    now                     \* System.currentTimeMillis()

\* What the properties remember of the owner; no operation reads it.
VARIABLES
    grantedAt,              \* clock when the owner was admitted
    firstTeardownAt,        \* clock of the owner's first teardown request, 0 = none
    releases                \* how often each attempt was released

registryVars == <<lastAttemptId, activeAttemptId, activePhase, deadlineExpired,
                  teardownRequestedAtMs, connectingEnteredAtMs,
                  lastReleaseOutcome>>
ghostVars == <<grantedAt, firstTeardownAt, releases>>
vars == <<registryVars, now, ghostVars>>

NoAttempt == 0
Attempts == 1..MaxAttempts
Phases == {"RESERVED", "CONNECTING", "CONNECTED", "TEARDOWN"}
ReleaseOutcomes == {"NORMAL", "FORCED_RELEASE_AFTER_TIMEOUT",
                    "FORCED_RELEASE_CONNECTING_STUCK"}

\* Leases handed out so far.
Issued == 1..lastAttemptId

-----------------------------------------------------------------------------
Init ==
    /\ lastAttemptId = 0
    /\ activeAttemptId = NoAttempt
    /\ activePhase = "RESERVED"
    /\ deadlineExpired = FALSE
    /\ teardownRequestedAtMs = 0
    /\ connectingEnteredAtMs = 0
    /\ lastReleaseOutcome = "NORMAL"
    /\ now = 1
    /\ grantedAt = 0
    /\ firstTeardownAt = 0
    /\ releases = [a \in Attempts |-> 0]

\* forceReleaseIfTimedOutLocked: when it gives the slot up.
TeardownTimedOut ==
    /\ deadlineExpired
    /\ activePhase = "TEARDOWN"
    /\ teardownRequestedAtMs # 0
    /\ now - teardownRequestedAtMs >= TeardownBound

\* forceReleaseIfConnectingStuckLocked: when it gives the slot up.
ConnectingStuck ==
    /\ activePhase = "CONNECTING"
    /\ connectingEnteredAtMs # 0
    /\ now - connectingEnteredAtMs >= ConnectingBound

Released(a) == releases' = [releases EXCEPT ![a] = @ + 1]

\* Mutant: a grant leaves the previous owner's teardown stamp behind.
ClearStampsButTeardown ==
    /\ deadlineExpired' = FALSE
    /\ UNCHANGED teardownRequestedAtMs
    /\ connectingEnteredAtMs' = 0

\* What a grant and both forced releases clear.
ClearStamps ==
    /\ deadlineExpired' = FALSE
    /\ teardownRequestedAtMs' = 0
    /\ connectingEnteredAtMs' = 0

\* Mutant: the attempt counter is not advanced, so ids are reused.
TryAcquireReusingId ==
    /\ activeAttemptId = NoAttempt
    /\ lastAttemptId < MaxAttempts
    /\ activeAttemptId' = lastAttemptId + 1
    /\ activePhase' = "RESERVED"
    /\ ClearStamps
    /\ grantedAt' = now
    /\ firstTeardownAt' = 0
    /\ UNCHANGED <<lastAttemptId, lastReleaseOutcome, releases, now>>

\* tryAcquire when it grants: the slot is free, or a soft bound frees it.
TryAcquire ==
    /\ lastAttemptId < MaxAttempts
    /\ \/ /\ activeAttemptId = NoAttempt
          /\ UNCHANGED <<lastReleaseOutcome, releases>>
       \/ /\ activeAttemptId # NoAttempt
          /\ TeardownTimedOut
          /\ lastReleaseOutcome' = "FORCED_RELEASE_AFTER_TIMEOUT"
          /\ Released(activeAttemptId)
       \/ /\ activeAttemptId # NoAttempt
          /\ ConnectingStuck
          /\ lastReleaseOutcome' = "FORCED_RELEASE_CONNECTING_STUCK"
          /\ Released(activeAttemptId)
    /\ lastAttemptId' = lastAttemptId + 1
    /\ activeAttemptId' = lastAttemptId + 1
    /\ activePhase' = "RESERVED"
    /\ ClearStamps
    /\ grantedAt' = now
    /\ firstTeardownAt' = 0
    /\ UNCHANGED now

\* Mutant: the lease is not compared with the owner.
OwnsAny(a) == activeAttemptId # NoAttempt

\* mutate: a call with a lease that no longer owns the slot is dropped.
Owns(a) == a = activeAttemptId

MarkNativeEntered(a) ==
    /\ Owns(a)
    /\ activePhase' = "CONNECTING"
    /\ connectingEnteredAtMs' = now
    /\ UNCHANGED <<lastAttemptId, activeAttemptId, deadlineExpired,
                   teardownRequestedAtMs, lastReleaseOutcome, now, ghostVars>>

MarkConnected(a) ==
    /\ Owns(a)
    /\ activePhase' = "CONNECTED"
    /\ UNCHANGED <<lastAttemptId, activeAttemptId, deadlineExpired,
                   teardownRequestedAtMs, connectingEnteredAtMs,
                   lastReleaseOutcome, now, ghostVars>>

\* Mutant: every teardown request restarts the bound.
MarkTeardownRequestedRestamping(a) ==
    /\ Owns(a)
    /\ activePhase' = "TEARDOWN"
    /\ teardownRequestedAtMs' = now
    /\ firstTeardownAt' = IF firstTeardownAt = 0 THEN now ELSE firstTeardownAt
    /\ UNCHANGED <<lastAttemptId, activeAttemptId, deadlineExpired,
                   connectingEnteredAtMs, lastReleaseOutcome, now,
                   grantedAt, releases>>

MarkTeardownRequested(a) ==
    /\ Owns(a)
    /\ activePhase' = "TEARDOWN"
    /\ teardownRequestedAtMs' =
          IF teardownRequestedAtMs = 0 THEN now ELSE teardownRequestedAtMs
    /\ firstTeardownAt' = IF firstTeardownAt = 0 THEN now ELSE firstTeardownAt
    /\ UNCHANGED <<lastAttemptId, activeAttemptId, deadlineExpired,
                   connectingEnteredAtMs, lastReleaseOutcome, now,
                   grantedAt, releases>>

MarkDeadlineExpired(a) ==
    /\ Owns(a)
    /\ deadlineExpired' = TRUE
    /\ UNCHANGED <<lastAttemptId, activeAttemptId, activePhase,
                   teardownRequestedAtMs, connectingEnteredAtMs,
                   lastReleaseOutcome, now, ghostVars>>

\* The state both confirmTeardown variants leave: the stamps are kept.
FreeSlot(a) ==
    /\ activeAttemptId' = NoAttempt
    /\ activePhase' = "RESERVED"
    /\ deadlineExpired' = FALSE
    /\ Released(a)
    /\ UNCHANGED <<lastAttemptId, teardownRequestedAtMs, connectingEnteredAtMs,
                   lastReleaseOutcome, now, grantedAt, firstTeardownAt>>

ConfirmTeardown(a) ==
    /\ Owns(a)
    /\ FreeSlot(a)

ConfirmTeardownWithoutLease ==
    /\ activeAttemptId # NoAttempt
    /\ FreeSlot(activeAttemptId)

\* forceReleaseStaleTeardown, called by the service after a refusal.
ForceReleaseStaleTeardown ==
    /\ TeardownTimedOut
    /\ activeAttemptId' = NoAttempt
    /\ activePhase' = "RESERVED"
    /\ ClearStamps
    /\ lastReleaseOutcome' = "FORCED_RELEASE_AFTER_TIMEOUT"
    /\ Released(activeAttemptId)
    /\ UNCHANGED <<lastAttemptId, now, grantedAt, firstTeardownAt>>

Tick ==
    /\ now < MaxTime
    /\ now' = now + 1
    /\ UNCHANGED <<registryVars, ghostVars>>

Next ==
    \/ TryAcquire
    \/ \E a \in Issued :
          \/ MarkNativeEntered(a)
          \/ MarkConnected(a)
          \/ MarkTeardownRequested(a)
          \/ MarkDeadlineExpired(a)
          \/ ConfirmTeardown(a)
    \/ ConfirmTeardownWithoutLease
    \/ ForceReleaseStaleTeardown
    \/ Tick

Spec == Init /\ [][Next]_vars

-----------------------------------------------------------------------------
\* The type of the registry's state.  Ids are handed out by the counter, so
\* the owner is an attempt the counter has reached (tryAcquire).
TypeOK ==
    /\ lastAttemptId \in 0..MaxAttempts
    /\ activeAttemptId \in 0..lastAttemptId
    /\ activePhase \in Phases
    /\ deadlineExpired \in BOOLEAN
    /\ teardownRequestedAtMs \in 0..now
    /\ connectingEnteredAtMs \in 0..now
    /\ lastReleaseOutcome \in ReleaseOutcomes
    /\ now \in Nat \ {0}
    /\ grantedAt \in 0..now
    /\ firstTeardownAt \in 0..now
    /\ releases \in [Attempts -> Nat]

\* Exactly-once release (confirmTeardown): whatever calls old and new leases
\* make, in whatever order, every attempt that gave the slot up did so once
\* and the owner has not done so yet.
ReleasedExactlyOnce ==
    \A a \in Attempts :
        releases[a] = IF a \in Issued /\ a # activeAttemptId THEN 1 ELSE 0

\* No retry loop can push the TEARDOWN bound away (FIX-1 of
\* markTeardownRequested): an owner in TEARDOWN with an expired deadline is
\* reclaimable as soon as the bound has passed since its FIRST teardown request.
StuckTeardownIsReclaimable ==
    (/\ activeAttemptId # NoAttempt
     /\ activePhase = "TEARDOWN"
     /\ deadlineExpired
     /\ now - firstTeardownAt >= TeardownBound) => TeardownTimedOut

\* What the stamps of the owner mean, and that an idle slot has no phase; the
\* strengthening that makes the properties inductive.
StampsAreOwners ==
    /\ activeAttemptId = NoAttempt => activePhase = "RESERVED"
    /\ activeAttemptId # NoAttempt =>
          /\ teardownRequestedAtMs = firstTeardownAt
          /\ firstTeardownAt # 0 => firstTeardownAt >= grantedAt
          /\ connectingEnteredAtMs # 0 => connectingEnteredAtMs >= grantedAt
          /\ activePhase = "TEARDOWN" => firstTeardownAt # 0

\* A forced release: another attempt takes the owner's place, or the release
\* is recorded as forced.
Displaced ==
    /\ activeAttemptId # NoAttempt
    /\ activeAttemptId' # activeAttemptId
    /\ \/ activeAttemptId' # NoAttempt
       \/ lastReleaseOutcome' # lastReleaseOutcome

\* Admission is fail-closed (tryAcquire, forceReleaseStaleTeardown): an owner
\* is displaced only when it ITSELF has been in the slot, in the phase
\* concerned, for the whole soft bound.  A stamp left by an earlier attempt
\* never shortens the bound.
DisplacedOnlyAfterOwnBound ==
    [][Displaced
       => \/ /\ activePhase = "TEARDOWN"
             /\ deadlineExpired
             /\ firstTeardownAt >= grantedAt
             /\ now - firstTeardownAt >= TeardownBound
          \/ /\ activePhase = "CONNECTING"
             /\ now - grantedAt >= ConnectingBound]_vars
=============================================================================
