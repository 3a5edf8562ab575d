------------------- MODULE TunOwnershipCoordinator_proofs -------------------
(***************************************************************************)
(* The coordinator's guarantees for any number of sessions and             *)
(* descriptors and any order of calls.  The inductive invariant adds to    *)
(* the checked ones that establishment permission is only ever held by the *)
(* current session, and not once it was revoked.                           *)
(***************************************************************************)
EXTENDS TunOwnershipCoordinator, TLAPS

PermissionIsCurrent ==
    installer # NO_SESSION => installer = current /\ installer \notin revoked

IInv == TypeOK /\ NoLeakedDescriptor /\ HeldIsReleasable /\ PermissionIsCurrent

\* The coordinator starts with no owner and no descriptor.
LEMMA InitIInv == Init => IInv
BY TunAssumption DEF Init, TunInit, IInv, TypeOK, NoLeakedDescriptor,
    HeldIsReleasable, PermissionIsCurrent, NO_SESSION, NoTun, Sessions

\* claim: the inherited descriptor is closed, the new session has permission.
LEMMA ClaimIInv == IInv /\ ClaimNext => IInv'
<1> SUFFICES ASSUME IInv, ClaimNext PROVE IInv'
    OBVIOUS
<1>1. TypeOK'
    BY TunAssumption DEF IInv, TypeOK, ClaimNext, TunClaim, CloseHeldLocked, NoTun
<1>2. NoLeakedDescriptor' /\ HeldIsReleasable'
    BY DEF IInv, TypeOK, NoLeakedDescriptor, HeldIsReleasable, ClaimNext,
        TunClaim, CloseHeldLocked, NoTun
<1>3. PermissionIsCurrent'
    BY DEF IInv, TypeOK, PermissionIsCurrent, ClaimNext, TunClaim
<1> QED BY <1>1, <1>2, <1>3 DEF IInv

\* install: the descriptor it replaces is closed, the new one is registered
\* with its session as the owner.
LEMMA InstallIInv ==
    ASSUME NEW s \in Sessions, IInv, s <= current, Install(s), UNCHANGED current
    PROVE  IInv'
<1>1. madeBy' = Append(madeBy, s) /\ madeBy \in Seq(Sessions)
    BY DEF Install, IInv, TypeOK
<1>2. /\ madeBy' \in Seq(Sessions)
      /\ Len(madeBy) \in Nat
      /\ Len(madeBy') = Len(madeBy) + 1
      /\ madeBy'[Len(madeBy) + 1] = s
    BY <1>1
<1>3. TypeOK'
  <2>1. openTuns' \subseteq 1..Len(madeBy')
    <3> SUFFICES ASSUME NEW d \in openTuns' PROVE d \in 1..Len(madeBy')
        OBVIOUS
    <3>1. d \in openTuns \/ d = Len(madeBy) + 1
        BY DEF Install
    <3>2. openTuns \subseteq 1..Len(madeBy)
        BY DEF IInv, TypeOK
    <3> DEFINE n == Len(madeBy)
    <3>3. n \in Nat /\ Len(madeBy') = n + 1
        BY <1>2
    <3>4. d \in 1..n \/ d = n + 1
        BY <3>1, <3>2
    <3> HIDE DEF n
    <3>5. d \in 1..(n + 1)
        BY <3>3, <3>4
    <3> QED BY <3>3, <3>5
  <2>2. tun' \in 0..Len(madeBy')
      BY <1>2 DEF Install
  <2>3. s \in 0..current
      BY TunAssumption DEF IInv, TypeOK, Sessions
  <2> QED BY <1>2, <2>1, <2>2, <2>3 DEF IInv, TypeOK, Install
<1>4. NoLeakedDescriptor'
    BY DEF IInv, NoLeakedDescriptor, Install
<1>5. HeldIsReleasable'
    BY <1>2 DEF HeldIsReleasable, Install
<1>6. PermissionIsCurrent'
    BY DEF IInv, PermissionIsCurrent, Install
<1> QED BY <1>3, <1>4, <1>5, <1>6 DEF IInv

\* Every other operation of a session, obsolete or not.
LEMMA CallIInv ==
    ASSUME NEW s \in Callers, IInv, Call(s)
    PROVE  IInv'
<1>1. CASE Invalidate(s)
    BY <1>1 DEF Call, Invalidate, IInv, TypeOK, NoLeakedDescriptor, Sessions,
        HeldIsReleasable, PermissionIsCurrent, NO_SESSION, Callers
<1>2. CASE Install(s)
    BY <1>2, InstallIInv DEF Call, Callers, Install, MayInstall
<1>3. CASE InstallFails(s)
    BY <1>3 DEF Call, InstallFails, CloseHeldLocked, IInv, TypeOK, NoTun,
        NoLeakedDescriptor, HeldIsReleasable, PermissionIsCurrent
<1>4. CASE Release(s)
  <2>1. CASE s = descriptorOwner
    <3>1. /\ openTuns' = openTuns \ {tun} /\ tun' = NoTun
          /\ UNCHANGED <<madeBy, revoked, current>>
          /\ installer' = NO_SESSION /\ descriptorOwner' = NO_SESSION
        BY <1>4, <2>1 DEF Call, Release, CloseHeldLocked
    <3> QED BY <3>1, TunAssumption DEF IInv, TypeOK, NoTun, NO_SESSION,
            NoLeakedDescriptor, HeldIsReleasable, PermissionIsCurrent
  <2>2. CASE s # descriptorOwner
    <3>1. UNCHANGED vars
        BY <1>4, <2>2 DEF Call, Release, tunVars, vars
    <3> QED BY <3>1 DEF vars, tunVars, IInv, TypeOK, NoLeakedDescriptor,
            HeldIsReleasable, PermissionIsCurrent
  <2> QED BY <2>1, <2>2
<1> QED BY <1>1, <1>2, <1>3, <1>4 DEF Call

LEMMA NextIInv == IInv /\ [Next]_vars => IInv'
<1> SUFFICES ASSUME IInv, [Next]_vars PROVE IInv'
    OBVIOUS
<1>1. CASE ClaimNext
    BY <1>1, ClaimIInv
<1>2. ASSUME NEW s \in Callers, Call(s) PROVE IInv'
    BY <1>2, CallIInv
<1>3. CASE ReleaseAll /\ UNCHANGED current
    BY <1>3, TunAssumption DEF ReleaseAll, CloseHeldLocked, IInv, TypeOK, NoTun, NO_SESSION,
        NoLeakedDescriptor, HeldIsReleasable, PermissionIsCurrent
<1>4. ASSUME NEW d \in openTuns, CloseReference(d), UNCHANGED current
      PROVE IInv'
    BY <1>4 DEF CloseReference, IInv, TypeOK, NoLeakedDescriptor,
        HeldIsReleasable, PermissionIsCurrent
<1>5. CASE UNCHANGED vars
    BY <1>5 DEF vars, tunVars, IInv, TypeOK, NoLeakedDescriptor,
        HeldIsReleasable, PermissionIsCurrent
<1> QED BY <1>1, <1>2, <1>3, <1>4, <1>5 DEF Next

LEMMA IInvAlways == Spec => []IInv
BY InitIInv, NextIInv, PTL DEF Spec

\* The coordinator's state keeps its types.
THEOREM TypeCorrect == Spec => []TypeOK
<1>1. IInv => TypeOK
    BY DEF IInv
<1> QED BY <1>1, IInvAlways, PTL

\* However sessions, reinstalls, failed establishments and releases
\* interleave, no open descriptor is forgotten.
THEOREM DescriptorsNeverLeak == Spec => []NoLeakedDescriptor
<1>1. IInv => NoLeakedDescriptor
    BY DEF IInv
<1> QED BY <1>1, IInvAlways, PTL

\* Revoking a session's permission never makes its descriptor unreleasable.
THEOREM DescriptorsStayReleasable == Spec => []HeldIsReleasable
<1>1. IInv => HeldIsReleasable
    BY DEF IInv
<1> QED BY <1>1, IInvAlways, PTL

\* A session that was replaced, or whose teardown began, establishes nothing.
THEOREM EstablishmentIsPermitted == Spec => OnlyPermittedEstablish
<1> DEFINE Permitted == madeBy' # madeBy =>
        /\ madeBy'[Len(madeBy')] = current
        /\ current \notin revoked
<1>1. IInv /\ [Next]_vars => [Permitted]_vars
  <2> SUFFICES ASSUME IInv, Next, madeBy' # madeBy
               PROVE  madeBy'[Len(madeBy')] = current /\ current \notin revoked
      OBVIOUS
  <2>1. PICK s \in Sessions : Install(s)
      BY DEF Next, ClaimNext, TunClaim, CloseHeldLocked, Call, Invalidate, Callers,
          Install, MayInstall,
          InstallFails, Release, ReleaseAll, CloseReference, tunVars
  <2>2. installer = s /\ s # NO_SESSION
      BY <2>1 DEF Install, MayInstall
  <2>3. s = current /\ current \notin revoked
      BY <2>2 DEF IInv, PermissionIsCurrent
  <2>4. madeBy' = Append(madeBy, s) /\ madeBy \in Seq(Sessions)
      BY <2>1 DEF Install, IInv, TypeOK
  <2>5. madeBy'[Len(madeBy')] = s
      BY <2>4
  <2> QED BY <2>3, <2>5
<1> QED BY <1>1, IInvAlways, PTL DEF Spec, OnlyPermittedEstablish
=============================================================================
