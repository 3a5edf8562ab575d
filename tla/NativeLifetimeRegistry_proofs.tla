-------------------- MODULE NativeLifetimeRegistry_proofs --------------------
(***************************************************************************)
(* The registry's properties for every pair of soft bounds and every       *)
(* number of attempts.  IInv is inductive; the properties follow.    *)
(***************************************************************************)
EXTENDS NativeLifetimeRegistry, TLAPS

IInv == TypeOK /\ ReleasedExactlyOnce /\ StampsAreOwners

\* The initial state of the registry satisfies the invariant.
LEMMA InitIInv == Init => IInv
<1> SUFFICES ASSUME Init PROVE IInv
  OBVIOUS
<1>1. releases \in [Attempts -> Nat]
  BY DEF Init
<1>2. TypeOK
  <2>1. deadlineExpired \in BOOLEAN
    BY DEF Init
  <2> QED
    BY <1>1, <2>1, BoundsAssumption
    DEF Init, TypeOK, NoAttempt, Phases, ReleaseOutcomes
<1>3. ReleasedExactlyOnce
  BY DEF Init, ReleasedExactlyOnce, Issued
<1>4. StampsAreOwners
  BY DEF Init, StampsAreOwners, NoAttempt
<1> QED
  BY <1>2, <1>3, <1>4 DEF IInv

\* Counting a release keeps the counters natural numbers.
LEMMA ReleasedType ==
  ASSUME releases \in [Attempts -> Nat], NEW a \in Attempts, Released(a)
  PROVE  releases' \in [Attempts -> Nat]
  BY DEF Released

\* tryAcquire preserves the invariant, whichever way the slot became free.
LEMMA TryAcquireIInv == IInv /\ TryAcquire => IInv'
<1> SUFFICES ASSUME IInv, TryAcquire PROVE IInv'
  OBVIOUS
<1> USE BoundsAssumption
    DEF IInv, TypeOK, Attempts, Issued, NoAttempt
<1>0. releases' \in [Attempts -> Nat]
  <2>1. releases \in [Attempts -> Nat]
    OBVIOUS
  <2> QED
    BY <2>1, ReleasedType DEF TryAcquire
<1>1. TypeOK'
  <2>1. deadlineExpired' \in BOOLEAN
    BY DEF TryAcquire, ClearStamps
  <2> QED
    BY <1>0, <2>1 DEF TryAcquire, ClearStamps, Phases, ReleaseOutcomes
<1>2. ReleasedExactlyOnce'
  BY DEF TryAcquire, Released, ReleasedExactlyOnce
<1>3. StampsAreOwners'
  BY DEF TryAcquire, ClearStamps, StampsAreOwners
<1> QED
  BY <1>1, <1>2, <1>3

\* Giving the slot up for an owner a preserves the invariant.
LEMMA FreeSlotIInv ==
  ASSUME IInv, NEW a \in Issued, a = activeAttemptId, FreeSlot(a)
  PROVE  IInv'
<1> USE BoundsAssumption
    DEF IInv, TypeOK, Attempts, Issued, NoAttempt
<1>0. releases' \in [Attempts -> Nat]
  <2>1. releases \in [Attempts -> Nat]
    OBVIOUS
  <2> QED
    BY <2>1, ReleasedType DEF FreeSlot
<1>1. TypeOK'
  <2>1. deadlineExpired' \in BOOLEAN
    BY DEF FreeSlot
  <2> QED
    BY <1>0, <2>1 DEF FreeSlot, Phases
<1>2. ReleasedExactlyOnce'
  BY DEF FreeSlot, Released, ReleasedExactlyOnce
<1>3. StampsAreOwners'
  BY DEF FreeSlot, StampsAreOwners
<1> QED
  BY <1>1, <1>2, <1>3

\* Every operation of the registry preserves the invariant.
LEMMA NextIInv == IInv /\ [Next]_vars => IInv'
<1> SUFFICES ASSUME IInv, [Next]_vars PROVE IInv'
  OBVIOUS
<1> USE BoundsAssumption
    DEF IInv, TypeOK, ReleasedExactlyOnce, StampsAreOwners, Attempts, Issued,
        NoAttempt
<1>1. CASE TryAcquire
  BY <1>1, TryAcquireIInv
<1>2. ASSUME NEW a \in Issued, MarkNativeEntered(a) PROVE IInv'
  BY <1>2 DEF MarkNativeEntered, Owns, Phases, ghostVars
<1>3. ASSUME NEW a \in Issued, MarkConnected(a) PROVE IInv'
  BY <1>3 DEF MarkConnected, Owns, Phases, ghostVars
<1>4. ASSUME NEW a \in Issued, MarkTeardownRequested(a) PROVE IInv'
  BY <1>4 DEF MarkTeardownRequested, Owns, Phases
<1>5. ASSUME NEW a \in Issued, MarkDeadlineExpired(a) PROVE IInv'
  BY <1>5 DEF MarkDeadlineExpired, Owns, ghostVars
<1>6. ASSUME NEW a \in Issued, ConfirmTeardown(a) PROVE IInv'
  BY <1>6, FreeSlotIInv DEF ConfirmTeardown, Owns
<1>7. CASE ConfirmTeardownWithoutLease
  <2>1. activeAttemptId \in Issued /\ FreeSlot(activeAttemptId)
    BY <1>7 DEF ConfirmTeardownWithoutLease
  <2> QED
    BY <2>1, FreeSlotIInv
<1>8. CASE ForceReleaseStaleTeardown
  <2>1. activeAttemptId # NoAttempt
    BY <1>8 DEF ForceReleaseStaleTeardown, TeardownTimedOut
  <2>2. releases' \in [Attempts -> Nat]
    <3>1. releases \in [Attempts -> Nat]
      OBVIOUS
    <3> QED
      BY <1>8, <2>1, <3>1, ReleasedType DEF ForceReleaseStaleTeardown
  <2>3. TypeOK'
    <3>1. deadlineExpired' \in BOOLEAN
      BY <1>8 DEF ForceReleaseStaleTeardown, ClearStamps
    <3> QED
      BY <1>8, <2>2, <3>1 DEF ForceReleaseStaleTeardown, ClearStamps, Phases,
                              ReleaseOutcomes
  <2>4. ReleasedExactlyOnce'
    BY <1>8, <2>1 DEF ForceReleaseStaleTeardown, Released
  <2>5. StampsAreOwners'
    BY <1>8 DEF ForceReleaseStaleTeardown
  <2> QED
    BY <2>3, <2>4, <2>5
<1>9. CASE Tick
  BY <1>9 DEF Tick, registryVars, ghostVars
<1>10. CASE UNCHANGED vars
  BY <1>10 DEF vars, registryVars, ghostVars
<1> QED
  BY <1>1, <1>2, <1>3, <1>4, <1>5, <1>6, <1>7, <1>8, <1>9, <1>10 DEF Next

\* The inductive invariant holds throughout every behaviour of the registry.
LEMMA IInvAlways == Spec => []IInv
  BY InitIInv, NextIInv, PTL DEF Spec

\* Type correctness of the registry (NativeLifetimeRegistry.kt state).
THEOREM TypeCorrect == Spec => []TypeOK
<1>1. IInv => TypeOK
  BY DEF IInv
<1> QED
  BY <1>1, IInvAlways, PTL

\* confirmTeardown and the forced releases release each attempt exactly once.
THEOREM ExactlyOnceRelease == Spec => []ReleasedExactlyOnce
<1>1. IInv => ReleasedExactlyOnce
  BY DEF IInv
<1> QED
  BY <1>1, IInvAlways, PTL

\* Both stamps of an owner are its own: a normal release leaves them behind and
\* the next grant clears them before they can be read (tryAcquire).
THEOREM OwnersHaveOwnStamps == Spec => []StampsAreOwners
<1>1. IInv => StampsAreOwners
  BY DEF IInv
<1> QED
  BY <1>1, IInvAlways, PTL

\* The TEARDOWN soft bound is reached however often teardown is requested.
THEOREM TeardownBoundIsReached == Spec => []StuckTeardownIsReclaimable
<1>1. IInv => StuckTeardownIsReclaimable
  BY DEF IInv, TypeOK, StampsAreOwners, StuckTeardownIsReclaimable,
         TeardownTimedOut
<1> QED
  BY <1>1, IInvAlways, PTL

\* Only an owner that outstayed its own bound is displaced (tryAcquire).
THEOREM FailClosedAdmission == Spec => DisplacedOnlyAfterOwnBound
<1> DEFINE OwnBound ==
             \/ /\ activePhase = "TEARDOWN"
                /\ deadlineExpired
                /\ firstTeardownAt >= grantedAt
                /\ now - firstTeardownAt >= TeardownBound
             \/ /\ activePhase = "CONNECTING"
                /\ now - grantedAt >= ConnectingBound
<1>1. IInv /\ [Next]_vars => [Displaced => OwnBound]_vars
  <2> SUFFICES ASSUME IInv, [Next]_vars, Displaced PROVE OwnBound
    OBVIOUS
  <2> USE BoundsAssumption
      DEF IInv, TypeOK, StampsAreOwners, NoAttempt, Displaced
  <2>1. CASE TryAcquire
    BY <2>1 DEF TryAcquire, TeardownTimedOut, ConnectingStuck
  <2>2. ASSUME NEW a \in Issued,
               \/ MarkNativeEntered(a)
               \/ MarkConnected(a)
               \/ MarkTeardownRequested(a)
               \/ MarkDeadlineExpired(a)
               \/ ConfirmTeardown(a)
        PROVE  OwnBound
    BY <2>2 DEF MarkNativeEntered, MarkConnected, MarkTeardownRequested,
                MarkDeadlineExpired, ConfirmTeardown, FreeSlot
  <2>3. CASE ConfirmTeardownWithoutLease
    BY <2>3 DEF ConfirmTeardownWithoutLease, FreeSlot
  <2>4. CASE ForceReleaseStaleTeardown
    BY <2>4 DEF ForceReleaseStaleTeardown, TeardownTimedOut
  <2>5. CASE Tick \/ UNCHANGED vars
    BY <2>5 DEF Tick, vars, registryVars
  <2> QED
    BY <2>1, <2>2, <2>3, <2>4, <2>5 DEF Next
<1> QED
  BY <1>1, IInvAlways, PTL DEF Spec, DisplacedOnlyAfterOwnBound

=============================================================================
