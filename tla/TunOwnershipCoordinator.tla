----------------------- MODULE TunOwnershipCoordinator -----------------------
(***************************************************************************)
(* Who may establish, and who may close, the system's TUN descriptor       *)
(* (TunOwnershipCoordinator.kt).  Every method runs under one lock,        *)
(* Builder.establish() included, so each is one action.                    *)
(*                                                                         *)
(* Descriptors are numbered in the order they are established; `openTuns`  *)
(* holds those nobody has called close() on (a close that throws counts:   *)
(* the code goes on as if it had succeeded).  A controller keeps a         *)
(* reference to the descriptor it installed and may close it by itself.    *)
(*                                                                         *)
(* Spec is the coordinator with its most general client: sessions are      *)
(* claimed in order (SoftEtherSessionPolicy's generation), and any session *)
(* ever claimed may call any other operation at any time.                  *)
(* SoftEtherVpnService.tla is the client the program has.                  *)
(***************************************************************************)
EXTENDS Integers, Sequences

CONSTANTS MaxSessions,     \* bound: sessions ever started
          MaxDescriptors   \* bound: descriptors ever established

ASSUME TunAssumption == MaxSessions \in Nat /\ MaxDescriptors \in Nat

VARIABLES
    installer,         \* session that may establish, or NO_SESSION
    descriptorOwner,   \* session that may release, or NO_SESSION
    tun,               \* the registered descriptor (`handle`), or NoTun
    madeBy,            \* the session each descriptor was established for
    openTuns,          \* descriptors established and not closed
    revoked            \* sessions whose permission was withdrawn (remembered
                       \* for the properties only)

tunVars == <<installer, descriptorOwner, tun, madeBy, openTuns, revoked>>

NO_SESSION == 0
NoTun == 0
Sessions == 1..MaxSessions

\* Before the first session starts, stopVpn tears down "session" NO_SESSION.
Callers == {NO_SESSION} \cup Sessions

TunInit ==
    /\ installer = NO_SESSION
    /\ descriptorOwner = NO_SESSION
    /\ tun = NoTun
    /\ madeBy = <<>>
    /\ openTuns = {}
    /\ revoked = {}

\* closeHeldLocked: the descriptor held is closed and forgotten.
CloseHeldLocked ==
    /\ openTuns' = openTuns \ {tun}
    /\ tun' = NoTun
    /\ UNCHANGED madeBy

\* Mutant: permission is given to the session that comes next.
TunClaimAhead(s) ==
    /\ CloseHeldLocked
    /\ descriptorOwner' = s
    /\ installer' = s + 1
    /\ UNCHANGED revoked

\* claim: a descriptor an earlier session left is closed.
TunClaim(s) ==
    /\ CloseHeldLocked
    /\ descriptorOwner' = s
    /\ installer' = s
    /\ UNCHANGED revoked

\* Mutant: one owner field for both meanings.
InvalidateBoth(s) ==
    /\ installer' = IF installer = s THEN NO_SESSION ELSE installer
    /\ descriptorOwner' = IF installer = s THEN NO_SESSION ELSE descriptorOwner
    /\ revoked' = revoked \cup (({installer} \cap {s}) \ {NO_SESSION})
    /\ UNCHANGED <<tun, madeBy, openTuns>>

\* invalidate: the permission goes, the descriptor stays releasable.
Invalidate(s) ==
    /\ installer' = IF installer = s THEN NO_SESSION ELSE installer
    /\ revoked' = revoked \cup (({installer} \cap {s}) \ {NO_SESSION})
    /\ UNCHANGED <<descriptorOwner, tun, madeBy, openTuns>>

\* Mutant: permission is read from the descriptor's owner.
OwnsDescriptor(s) == s # NO_SESSION /\ s = descriptorOwner

MayInstall(s) == s # NO_SESSION /\ s = installer

\* Mutant: the descriptor held is overwritten without being closed.
InstallOverHeld(s) ==
    /\ MayInstall(s)
    /\ Len(madeBy) < MaxDescriptors
    /\ madeBy' = Append(madeBy, s)
    /\ tun' = Len(madeBy) + 1
    /\ openTuns' = openTuns \cup {Len(madeBy) + 1}
    /\ descriptorOwner' = s
    /\ UNCHANGED <<installer, revoked>>

\* install: the held descriptor is closed, a new one established.
Install(s) ==
    /\ MayInstall(s)
    /\ Len(madeBy) < MaxDescriptors
    /\ madeBy' = Append(madeBy, s)
    /\ tun' = Len(madeBy) + 1
    /\ openTuns' = (openTuns \ {tun}) \cup {Len(madeBy) + 1}
    /\ descriptorOwner' = s
    /\ UNCHANGED <<installer, revoked>>

\* install when the platform declines: the held descriptor is gone anyway.
InstallFails(s) ==
    /\ MayInstall(s)
    /\ CloseHeldLocked
    /\ UNCHANGED <<installer, descriptorOwner, revoked>>

\* Mutant: whoever asks may release.
ReleaseUnconditionally(s) ==
    /\ CloseHeldLocked
    /\ installer' = NO_SESSION
    /\ descriptorOwner' = NO_SESSION
    /\ UNCHANGED revoked

\* release: refused, changing nothing, when the session does not own it.
Release(s) ==
    IF s = descriptorOwner
      THEN /\ CloseHeldLocked
           /\ installer' = NO_SESSION
           /\ descriptorOwner' = NO_SESSION
           /\ UNCHANGED revoked
      ELSE UNCHANGED tunVars

ReleaseAll ==
    /\ CloseHeldLocked
    /\ installer' = NO_SESSION
    /\ descriptorOwner' = NO_SESSION
    /\ UNCHANGED revoked

\* A controller closes its own reference; the coordinator is not told.
CloseReference(d) ==
    /\ openTuns' = openTuns \ {d}
    /\ UNCHANGED <<installer, descriptorOwner, tun, madeBy, revoked>>

-----------------------------------------------------------------------------
\* The most general client; the last session claimed is the current one.
VARIABLE current

vars == <<tunVars, current>>

Init == TunInit /\ current = NO_SESSION

ClaimNext ==
    /\ current < MaxSessions
    /\ TunClaim(current + 1)
    /\ current' = current + 1

Call(s) ==
    /\ s <= current
    /\ Invalidate(s) \/ Install(s) \/ InstallFails(s) \/ Release(s)
    /\ UNCHANGED current

Next ==
    \/ ClaimNext
    \/ \E s \in Callers : Call(s)
    \/ ReleaseAll /\ UNCHANGED current
    \/ \E d \in openTuns : CloseReference(d) /\ UNCHANGED current

Spec == Init /\ [][Next]_vars

-----------------------------------------------------------------------------
\* The types of the coordinator's state.
TypeOK ==
    /\ current \in 0..MaxSessions
    /\ installer \in 0..current
    /\ descriptorOwner \in 0..current
    /\ madeBy \in Seq(Sessions)
    /\ tun \in 0..Len(madeBy)
    /\ openTuns \subseteq 1..Len(madeBy)
    /\ revoked \subseteq 1..current

\* No descriptor is leaked: one that is open is the registered one, so the
\* service can see it and close it (closeHeldLocked before every replacement).
NoLeakedDescriptor == openTuns \subseteq {tun}

\* Revoking permission never strands a descriptor: whoever installed the
\* registered one still owns it and can release it (invalidate keeps
\* descriptorOwner).
HeldIsReleasable == tun # NoTun => descriptorOwner = madeBy[tun]

\* Only the current session establishes, and never after its teardown began
\* (invalidate is the linearization point).
OnlyPermittedEstablish ==
    [][madeBy' # madeBy =>
          /\ madeBy'[Len(madeBy')] = current
          /\ current \notin revoked]_vars

==============================================================================
