--------------------- MODULE SoftEtherVpnService_proofs ---------------------
(***************************************************************************)
(* What the service guarantees for any number of sessions, descriptors and *)
(* stopVpn calls.  ServiceInv is the inductive invariant.  Two of its      *)
(* parts carry the argument:                                               *)
(*                                                                         *)
(*  - Leases: every session started still holds the slot, or lost it in    *)
(*    one of three ways (displaced, confirmed, never had a controller),    *)
(*    and a confirmed session neither holds it nor is in native code;      *)
(*  - Admission: while a session is between its start and its controller,  *)
(*    it holds the slot in a phase no soft bound reclaims.  That, and no   *)
(*    lock, is why no second start slips in between.                       *)
(*                                                                         *)
(* The TUN coordinator's invariant is not proved again: each step of the   *)
(* service is shown to be one its specification allows, and the theorems   *)
(* of TunOwnershipCoordinator_proofs are used with the service's current   *)
(* session for its own.                                                    *)
(***************************************************************************)
EXTENDS SoftEtherVpnService, TLAPS

\* Inside stopVpn, after the call has a record.
StopLabels == {"stopDecide", "stopTake", "stopRelease"}

\* Where the main thread and a reconnect coroutine can be.
MainLabels ==
    {"idle", "gate", "acquire", "claim", "launch", "stopBegin"} \cup StopLabels

RepLabels == {"idle", "native", "onError", "stopBegin"} \cup StopLabels

\* Places of a connect coroutine that has constructed its controller.
InConnect == {"connect", "retry", "native", "install", "failed"}

StopRecord ==
    [session : 0..MaxSessions, by : 0..MaxSessions, target : 0..MaxSessions,
     at : {"stopping", "destroy", "wait", "done"}, outcome : Outcomes]

\* A session has been granted the slot and its coroutine is not launched yet.
Admitting == pc[Main] \in {"claim", "launch"}

\* The flags that are only read, never argued from.
Flags ==
    /\ isStopping \in BOOLEAN /\ isRunning \in BOOLEAN /\ connectingStamp \in BOOLEAN
    /\ slotExpired \in BOOLEAN /\ slotAged \in BOOLEAN
    /\ stopSelfCalled \in BOOLEAN /\ serviceDestroyed \in BOOLEAN

\* Sessions are numbered up to the current one, and so is everything that names
\* one.
Fields ==
    /\ sessionGeneration \in 0..MaxSessions
    /\ connectionJob \in 0..sessionGeneration
    /\ cancelled \subseteq Sessions
    /\ slotOwner \in 0..sessionGeneration
    /\ slotPhase \in {"RESERVED", "CONNECTING", "CONNECTED", "TEARDOWN"}
    /\ displaced \subseteq Sessions

\* A controller is created before it is destroyed before it is confirmed, and
\* only a created one has a native connection.
Controllers ==
    /\ created \subseteq 1..sessionGeneration
    /\ destroyed \subseteq created
    /\ confirmed \subseteq destroyed
    /\ controller \in {0} \cup created
    /\ owned \in [Sessions -> {0} \cup created]
    /\ native \in [Sessions -> {"none", "in", "up"}]
    /\ \A s \in Sessions : native[s] # "none" => s \in created

\* The session being admitted is the current one, and has no coroutine yet.
MainPlace ==
    /\ pc[Main] \in MainLabels
    /\ back[Main] = "idle"
    /\ pc[Main] = "acquire" => sessionGeneration < MaxSessions
    /\ Admitting => sessionGeneration > 0 /\ pc[Co(sessionGeneration)] = "idle"

\* Where a connect coroutine is says whether its controller exists.
CoPlace(s) ==
    /\ pc[Co(s)] # "idle" => s <= sessionGeneration
    /\ pc[Co(s)] \in StopLabels \cup {"stopBegin"} => back[Co(s)] # "idle"
    /\ pc[Co(s)] \in InConnect => s \in created
    /\ pc[Co(s)] \in {"idle", "launched", "construct"} => s \notin created
    /\ pc[Co(s)] = "cancelDestroy" => owned[s] \in destroyed

\* Only a controller has a reconnect coroutine.
RepPlace(s) ==
    /\ pc[Rep(s)] \in RepLabels
    /\ back[Rep(s)] = "idle"
    /\ pc[Rep(s)] # "idle" => s \in created

\* Where every thread can be.
Places ==
    /\ pc \in [Threads -> Labels]
    /\ back \in [Threads -> {"idle", "returned", "unclaimed"}]
    /\ MainPlace
    /\ \A s \in Sessions : CoPlace(s)
    /\ \A s \in Sessions : RepPlace(s)

\* The records of stopVpn's calls: a teardown waits only for a controller that
\* was told, and reports a confirmation only of one that gave it.
Stops ==
    /\ stops \in Seq(StopRecord)
    /\ stopId \in [Threads -> 0..Len(stops)]
    /\ \A t \in Threads : pc[t] \in StopLabels => stopId[t] # 0
    /\ \A i \in 1..Len(stops) :
          /\ stops[i].session <= sessionGeneration
          /\ stops[i].target \in {0} \cup created
          /\ stops[i].at = "wait" => stops[i].target \in destroyed
          /\ stops[i].outcome = "NATIVE_CONFIRMED" => stops[i].target \in confirmed

\* A confirmed cleanup is final; every session started holds the slot or has
\* lost it in one of three ways.
Leases ==
    /\ \A s \in confirmed : native[s] = "none" /\ slotOwner # s
    /\ \A s \in 1..sessionGeneration :
          \/ slotOwner = s
          \/ s \in displaced
          \/ s \in confirmed
          \/ s \notin created /\ pc[Co(s)] = "done"

\* The slot's owner has not been long in its phase.
Held(s) == slotOwner = s /\ slotPhase = "RESERVED" /\ slotAged = FALSE

\* The slot keeps sessions that have no controller yet apart from a start.
Admission ==
    /\ \A s \in Sessions : pc[Co(s)] \in {"launched", "construct"} => Held(s)
    /\ Admitting => /\ Held(sessionGeneration)
                    /\ connectionJob = 0
                    /\ controller \in {0} \cup destroyed
    /\ pc[Main] = "acquire" =>
          /\ connectionJob = 0
          /\ \/ controller \in {0} \cup destroyed
             \/ slotOwner = controller /\ slotAged = FALSE

\* The inductive invariant, with StopCalls below.
ServiceInv ==
    /\ Flags
    /\ Fields
    /\ Controllers
    /\ Places
    /\ Stops
    /\ Leases
    /\ Admission

\* A session that was stopped by the user or by its own error has no permission
\* to establish, and none to come.
StopsStand ==
    \A i \in 1..Len(stops) :
        /\ stops[i].session # 0
        /\ stops[i].by \in {0, stops[i].session}
        => /\ installer # stops[i].session
           /\ ~(pc[Main] = "claim" /\ stops[i].session = sessionGeneration)

\* A stopVpn call in progress has a record to itself, and no teardown has begun
\* for it.
StopCalls ==
    /\ \A t \in Threads :
          pc[t] \in StopLabels => /\ stops[stopId[t]].at = "stopping"
                                 /\ stops[stopId[t]].outcome = "none"
    /\ \A t, u \in Threads :
          pc[t] \in StopLabels /\ pc[u] \in StopLabels /\ stopId[t] = stopId[u] => t = u

\* The coordinator's idea of the current session, and its theorems.
Current == IF pc[Main] = "claim" THEN sessionGeneration - 1 ELSE sessionGeneration

Coordinator == INSTANCE TunOwnershipCoordinator_proofs WITH current <- Current

USE ServiceAssumption
USE DEF MainPlace, CoPlace, RepPlace

-----------------------------------------------------------------------------
(* Threads, and the effects that several steps have in common.             *)

\* Main thread, connect coroutines and reconnect coroutines are different
\* threads, and there are no others.
LEMMA ThreadFacts ==
    /\ Main \in Threads /\ Main[2] = 0
    /\ \A s \in Sessions :
          /\ Co(s) \in Threads /\ Co(s) # Main
          /\ Co(s)[1] = "connect" /\ Co(s)[2] = s
          /\ Rep(s) \in Threads /\ Rep(s) # Main
          /\ Rep(s)[1] = "reconnect" /\ Rep(s)[2] = s
    /\ \A s, u \in Sessions : Co(s) # Rep(u)
    /\ \A s, u \in Sessions : s # u => Co(s) # Co(u) /\ Rep(s) # Rep(u)
    /\ \A t \in Threads : t = Main \/ \E s \in Sessions : t = Co(s) \/ t = Rep(s)
BY DEF Main, Co, Rep, Threads

\* What is created, destroyed or confirmed stays so.
Grows ==
    /\ created \subseteq created'
    /\ destroyed \subseteq destroyed'
    /\ confirmed \subseteq confirmed'
    /\ sessionGeneration' \in {sessionGeneration, sessionGeneration + 1}

\* Then stops that nobody touches stay what they are.
LEMMA StopsStay ==
    ASSUME ServiceInv, Grows, UNCHANGED <<stops, stopId>>,
           \A t \in Threads : pc'[t] \in StopLabels => pc[t] \in StopLabels
    PROVE  Stops'
<1>1. \A i \in 1..Len(stops) :
        stops[i].session \in Nat /\ stops[i].session <= sessionGeneration'
  <2> SUFFICES ASSUME NEW i \in 1..Len(stops)
               PROVE  stops[i].session \in Nat /\ stops[i].session <= sessionGeneration'
    OBVIOUS
  <2>1. stops[i] \in StopRecord /\ stops[i].session <= sessionGeneration
    BY DEF ServiceInv, Stops
  <2>2. stops[i].session \in Nat /\ sessionGeneration \in Nat
    BY <2>1 DEF StopRecord, ServiceInv, Fields
  <2> QED BY <2>1, <2>2 DEF Grows
<1> QED BY <1>1 DEF ServiceInv, Stops, Grows

\* A stop record is changed in place.
LEMMA StopChanges ==
    ASSUME Stops, NEW i \in 1..Len(stops), NEW r \in StopRecord,
           stops' = [stops EXCEPT ![i] = r]
    PROVE  /\ stops' \in Seq(StopRecord)
           /\ Len(stops') = Len(stops)
           /\ stops'[i] = r
           /\ \A j \in 1..Len(stops) : j # i => stops'[j] = stops[j]
BY DEF Stops

\* A flow leaves native code, or a teardown confirms a controller that was
\* told to tear down: the slot goes with the confirmation.
Settles(s) ==
    \/ UNCHANGED destroyed /\ \E to \in {"none", "up"} : FlowExit(s, to)
    \/ s \in destroyed /\ DestroyConfirms(s)

\* What that does to the controllers and to the slot's owner.
LEMMA SettleEffect ==
    ASSUME ServiceInv, NEW s \in Sessions, Settles(s)
    PROVE  /\ UNCHANGED destroyed
           /\ native' \in [Sessions -> {"none", "in", "up"}]
           /\ \A u \in Sessions \ {s} : native'[u] = native[u]
           /\ \/ confirmed' = confirmed /\ s \notin destroyed
              \/ confirmed' = confirmed \cup {s} /\ s \in destroyed
           /\ s \in destroyed => native'[s] = "none" /\ slotOwner' # s
           /\ \/ slotOwner' = slotOwner
              \/ slotOwner = s /\ slotOwner' = 0 /\ s \in destroyed
<1> USE DEF Settles, ServiceInv, Controllers, Sessions
<1>1. CASE UNCHANGED destroyed /\ \E to \in {"none", "up"} : FlowExit(s, to)
  <2>1. PICK to \in {"none", "up"} : FlowExit(s, to)
    BY <1>1
  <2>2. CASE s \in destroyed
    BY <1>1, <2>1, <2>2 DEF FlowExit, ReleaseSlot, slotVars
  <2>3. CASE s \notin destroyed
    BY <1>1, <2>1, <2>3 DEF FlowExit, SetPhase, slotVars
  <2> QED BY <2>2, <2>3
<1>2. CASE s \in destroyed /\ DestroyConfirms(s)
  BY <1>2 DEF DestroyConfirms, ReleaseSlot, slotVars
<1> QED BY <1>1, <1>2

\* The slot of another session is not touched, and no phase gets older.
LEMMA SettleSlot ==
    ASSUME ServiceInv, NEW s \in Sessions, Settles(s)
    PROVE  /\ slotPhase' \in {"RESERVED", "CONNECTING", "CONNECTED", "TEARDOWN"}
           /\ slotExpired' \in BOOLEAN
           /\ slotAged' \in BOOLEAN
           /\ slotAged' = FALSE \/ slotAged' = slotAged
           /\ slotOwner # s => UNCHANGED slotPhase
<1> USE DEF Settles, ServiceInv, Flags, Fields
<1>1. CASE UNCHANGED destroyed /\ \E to \in {"none", "up"} : FlowExit(s, to)
  <2>1. PICK to \in {"none", "up"} : FlowExit(s, to)
    BY <1>1
  <2>2. CASE s \in destroyed
    BY <2>1, <2>2 DEF FlowExit, ReleaseSlot, slotVars
  <2>3. CASE s \notin destroyed
    BY <2>1, <2>3 DEF FlowExit, SetPhase, slotVars
  <2> QED BY <2>2, <2>3
<1>2. CASE s \in destroyed /\ DestroyConfirms(s)
  BY <1>2 DEF DestroyConfirms, ReleaseSlot, slotVars
<1> QED BY <1>1, <1>2

\* A confirmation gives up the lease of a session that is torn down, no other.
LEMMA SettleKeeps ==
    ASSUME ServiceInv, NEW s \in Sessions, s \in created, Settles(s),
           UNCHANGED <<connectionJob, controller, cancelled, coVars, displaced,
                       sessionGeneration>>,
           pc'[Main] = pc[Main],
           \A u \in Sessions :
              \/ pc'[Co(u)] = pc[Co(u)]
              \/ /\ pc[Co(u)] # "done"
                 /\ pc'[Co(u)] \notin {"launched", "construct"}
    PROVE  Fields' /\ Controllers' /\ Leases' /\ Admission' /\ Grows
<1> USE DEF ServiceInv, coVars
<1>1. Controllers'
  BY SettleEffect DEF Controllers
<1>2. Grows
  BY SettleEffect DEF Grows
<1>3. \A u \in 1..sessionGeneration : u \in Sessions
  BY DEF Fields, Sessions
<1>4. Leases'
  <2>1. \A u \in confirmed' : native'[u] = "none" /\ slotOwner' # u
    <3> SUFFICES ASSUME NEW u \in confirmed'
                 PROVE  native'[u] = "none" /\ slotOwner' # u
      OBVIOUS
    <3>1. u \in Sessions /\ u # 0
      BY <1>1 DEF Controllers, Fields, Sessions
    <3>2. CASE u = s
      BY <1>1, <3>2, SettleEffect DEF Controllers
    <3>3. CASE u # s
      BY <3>1, <3>3, SettleEffect DEF Leases
    <3> QED BY <3>2, <3>3
  <2> QED BY <1>3, <2>1, SettleEffect DEF Leases
<1>5. Fields'
  <2>1. 0 \in 0..sessionGeneration
    BY DEF Fields
  <2> QED BY <2>1, SettleEffect, SettleSlot DEF Fields
<1>6. Admission'
  <2>1. ASSUME NEW u \in Sessions, u \notin created, Held(u) PROVE Held(u)'
    BY <2>1, SettleEffect, SettleSlot DEF Held
  <2>2. \A u \in Sessions : pc'[Co(u)] \in {"launched", "construct"} => Held(u)'
    BY <2>1 DEF Admission, Places
  <2>3. Admitting' <=> Admitting
    BY DEF Admitting
  <2>4. ASSUME Admitting
        PROVE  /\ Held(sessionGeneration)' /\ connectionJob' = 0
               /\ controller' \in {0} \cup destroyed'
    <3>1. sessionGeneration \in Sessions /\ sessionGeneration \notin created
      BY <2>4 DEF Places, Fields, Sessions
    <3> QED BY <2>1, <2>4, <3>1, SettleEffect DEF Admission, Held
  <2>5. ASSUME pc[Main] = "acquire"
        PROVE  /\ connectionJob' = 0
               /\ \/ controller' \in {0} \cup destroyed'
                  \/ slotOwner' = controller' /\ slotAged' = FALSE
    BY <2>5, SettleEffect, SettleSlot DEF Admission
  <2> QED BY <2>2, <2>3, <2>4, <2>5 DEF Admission
<1> QED BY <1>1, <1>2, <1>4, <1>5, <1>6

\* destroyResources begins, on a controller that exists.
LEMMA DestroyBeginsKeeps ==
    ASSUME ServiceInv, NEW c \in created, DestroyBegins(c),
           UNCHANGED <<created, controller, sessionGeneration, displaced>>,
           owned' \in [Sessions -> {0} \cup created],
           \A u \in Sessions : pc[Co(u)] = "done" => pc'[Co(u)] = "done"
    PROVE  Controllers' /\ Leases' /\ Grows /\ destroyed' = destroyed \cup {c}
<1> USE DEF ServiceInv, DestroyBegins, SetPhase
<1>1. Controllers'
  BY DEF Controllers
<1>2. Grows
  BY DEF Grows
<1>3. \A u \in 1..sessionGeneration : u \in Sessions
  BY DEF Fields, Sessions
<1>4. Leases'
  BY <1>3 DEF Leases
<1> QED BY <1>1, <1>2, <1>4

-----------------------------------------------------------------------------
(* startVpn. *)

\* The main thread moves on; at most the slot's age becomes known.
LEMMA MainMoves ==
    ASSUME ServiceInv,
           GateAccepts \/ GateRefuses \/ NativeBusy \/ ClaimTun \/ UserDisconnect
    PROVE  ServiceInv'
<1> USE DEF ServiceInv, policyVars, fieldVars, coVars, controllerVars, slotVars,
            threadVars, serviceVars
<1>1. /\ UNCHANGED <<policyVars, fieldVars, coVars, controllerVars, slotOwner,
                     slotPhase, slotExpired, displaced, stops, stopId, serviceVars>>
      /\ slotAged' \in BOOLEAN
      /\ \/ slotAged' = slotAged
         \/ slotAged' = FALSE
         \/ slotPhase # "RESERVED" /\ pc[Main] \in {"idle", "gate"}
      /\ UNCHANGED back
  <2>1. CASE GateAccepts
    BY <2>1 DEF GateAccepts
  <2>2. CASE GateRefuses \/ ClaimTun
    <3>1. UNCHANGED <<policyVars, fieldVars, coVars, controllerVars, slotVars,
                      displaced, stops, stopId, back, serviceVars>>
      BY <2>2 DEF GateRefuses, ClaimTun
    <3> QED BY <3>1 DEF Flags
  <2>3. CASE NativeBusy
    <3>1. /\ UNCHANGED <<policyVars, fieldVars, coVars, controllerVars, slotOwner,
                         slotPhase, slotExpired, displaced, stops, stopId, back,
                         serviceVars>>
          /\ slotAged' = FALSE
      BY <2>3 DEF NativeBusy
    <3> QED BY <3>1
  <2>4. CASE UserDisconnect
    <3>1. back' = back
      BY <2>4, ThreadFacts DEF UserDisconnect, Places
    <3> QED BY <2>4, <3>1 DEF UserDisconnect, Flags
  <2> QED BY <2>1, <2>2, <2>3, <2>4
<1>2. PICK to \in {"idle", "acquire", "launch", "stopBegin"} :
        /\ pc' = [pc EXCEPT ![Main] = to]
        /\ to = "launch" => pc[Main] = "claim"
        /\ to = "acquire" => /\ sessionGeneration < MaxSessions
                             /\ connectionJob = 0 /\ controller = 0
  BY DEF GateAccepts, GateRefuses, NativeBusy, ClaimTun, UserDisconnect, Goto,
      AcceptStart, ResourcesLive
<1>3. Flags' /\ Fields' /\ Controllers'
  BY <1>1 DEF Flags, Fields, Controllers
<1>4. Places'
  BY <1>1, <1>2, ThreadFacts DEF Places, Labels, Admitting, InConnect, StopLabels,
      MainLabels, RepLabels
<1>5. Stops'
  BY <1>1, <1>2, StopsStay DEF Grows, Places, StopLabels
<1>6. Leases'
  BY <1>1, <1>2, ThreadFacts DEF Leases, Places, Fields, Sessions
<1>7. Admission'
  BY <1>1, <1>2, ThreadFacts DEF Admission, Admitting, Held, Places, Flags
<1> QED BY <1>3, <1>4, <1>5, <1>6, <1>7

\* A wedged attempt is dropped from the fields, and from nothing else.
LEMMA AbandonKeeps ==
    ASSUME ServiceInv, AbandonWedged
    PROVE  ServiceInv'
<1> USE DEF ServiceInv, AbandonWedged, Goto, policyVars, fieldVars, coVars,
            controllerVars, slotVars, serviceVars
<1>1. Flags' /\ Fields' /\ Controllers'
  <2>1. Flags'
    BY DEF Flags
  <2>2. connectionJob \in Sessions /\ 0 \in 0..sessionGeneration
    BY DEF Fields, Sessions
  <2>3. Fields'
    BY <2>2 DEF Fields
  <2>4. Controllers'
    BY DEF Controllers
  <2> QED BY <2>1, <2>3, <2>4
<1>2. Places'
  BY ThreadFacts DEF Places, Labels, Admitting, InConnect, StopLabels, MainLabels,
      RepLabels
<1>3. Stops'
  BY StopsStay DEF Grows, Places, StopLabels
<1>4. Leases'
  BY ThreadFacts DEF Leases, Places, Fields, Sessions
<1>5. Admission'
  BY ThreadFacts DEF Admission, Admitting, Held, Places
<1> QED BY <1>1, <1>2, <1>3, <1>4, <1>5

\* The slot is granted: to a free slot, or over an owner that has been in one
\* phase for too long.
LEMMA AcquireKeeps ==
    ASSUME ServiceInv, AcquireSlot
    PROVE  ServiceInv'
<1> USE DEF ServiceInv
<1> DEFINE n == sessionGeneration
<1>1. n \in 0..MaxSessions /\ n < MaxSessions /\ slotOwner \in 0..n
      /\ n + 1 \in Sessions /\ 0..n \subseteq 0..(n + 1) /\ 1..n \subseteq 1..(n + 1)
  BY DEF AcquireSlot, Fields, Places, Sessions
<1>2. /\ sessionGeneration' = n + 1 /\ slotOwner' = n + 1
      /\ slotPhase' = "RESERVED" /\ slotExpired' = FALSE /\ slotAged' = FALSE
      /\ isStopping' = FALSE /\ isRunning' = FALSE
      /\ displaced' = IF slotOwner = 0 THEN displaced ELSE displaced \cup {slotOwner}
      /\ slotOwner = 0 \/ slotAged
      /\ pc[Main] = "acquire" /\ pc' = [pc EXCEPT ![Main] = "claim"]
      /\ UNCHANGED <<fieldVars, coVars, controllerVars, stops, stopId, back, serviceVars>>
  BY DEF AcquireSlot, SlotReclaimable, OnSessionStart, Goto
<1> USE DEF fieldVars, coVars, controllerVars, serviceVars
<1>3. Flags' /\ Controllers'
  <2>1. Flags'
    BY <1>2 DEF Flags
  <2>2. Controllers'
    BY <1>1, <1>2 DEF Controllers
  <2> QED BY <2>1, <2>2
<1>4. displaced \subseteq displaced' /\ displaced' \subseteq Sessions
  BY <1>1, <1>2 DEF Fields, Sessions
<1>5. Fields'
  <2>1. n + 1 \in 0..MaxSessions /\ connectionJob \in 0..(n + 1)
    BY <1>1 DEF Fields
  <2> QED BY <1>1, <1>2, <1>4, <2>1 DEF Fields
<1>6. n + 1 \notin created
  BY <1>1 DEF Controllers
<1>7. Places'
  <2>1. pc[Co(n + 1)] = "idle"
    BY <1>1 DEF Places
  <2>2. \A s \in Sessions : s <= n => s <= n + 1
    BY <1>1 DEF Sessions
  <2>3. n + 1 > 0
    BY <1>1
  <2>4. /\ pc' \in [Threads -> Labels] /\ pc'[Main] = "claim"
        /\ \A s \in Sessions : pc'[Co(s)] = pc[Co(s)] /\ pc'[Rep(s)] = pc[Rep(s)]
    BY <1>2, ThreadFacts DEF Places, Labels
  <2>5. pc'[Co(n + 1)] = "idle"
    BY <1>1, <2>1, <2>4
  <2> HIDE DEF n
  <2>6. n = sessionGeneration
    BY DEF n
  <2> QED BY <1>2, <2>2, <2>3, <2>4, <2>5, <2>6 DEF Places, Admitting, MainLabels
<1>8. Stops'
  BY <1>2, StopsStay DEF Grows, Places, StopLabels
<1>9. Leases'
  <2>1. \A s \in confirmed : s # n + 1
    BY <1>6 DEF Controllers
  <2>2. \A s \in 1..(n + 1) : s \in Sessions /\ (s = n + 1 \/ s \in 1..n)
    BY <1>1 DEF Sessions
  <2>3. \A s \in 1..n : s # 0
    OBVIOUS
  <2> HIDE DEF n
  <2>4. n = sessionGeneration
    BY DEF n
  <2>5. \A s \in 1..n : slotOwner = s => s \in displaced'
    BY <1>2, <2>3
  <2> QED BY <1>2, <1>4, <2>1, <2>2, <2>4, <2>5, ThreadFacts DEF Leases, Places
<1>10. Admission'
  <2>1. \A s \in Sessions : pc[Co(s)] \notin {"launched", "construct"}
    BY <1>2 DEF Admission, Held, AcquireSlot, SlotReclaimable, Sessions
  <2>2. controller \in {0} \cup destroyed
    BY <1>2 DEF Admission, Controllers
  <2> QED BY <1>2, <2>1, <2>2, ThreadFacts DEF Admission, Admitting, Held, Places
<1> QED BY <1>3, <1>5, <1>7, <1>8, <1>9, <1>10

\* The coroutine of the session just admitted is launched.
LEMMA LaunchKeeps ==
    ASSUME ServiceInv, LaunchConnect
    PROVE  ServiceInv'
<1> USE DEF ServiceInv, policyVars, coVars, controllerVars, slotVars, serviceVars
<1> DEFINE n == sessionGeneration
<1>1. n \in Sessions /\ n \in 0..n /\ Admitting /\ pc[Co(n)] = "idle"
  BY DEF LaunchConnect, Admitting, Places, Fields, Sessions
<1>2. /\ pc[Main] = "launch" /\ connectingStamp' = TRUE /\ connectionJob' = n
      /\ UNCHANGED <<policyVars, controller, cancelled, coVars, controllerVars,
                     slotVars, displaced, stops, stopId, back, serviceVars>>
  BY DEF LaunchConnect
<1>3. /\ pc' \in [Threads -> Labels]
      /\ pc'[Main] = "idle" /\ pc'[Co(n)] = "launched"
      /\ \A t \in Threads : t # Main /\ t # Co(n) => pc'[t] = pc[t]
  BY <1>1, ThreadFacts DEF LaunchConnect, Places, Labels
<1> HIDE DEF n
<1>4. Flags' /\ Fields' /\ Controllers'
  <2>1. Flags'
    BY <1>2 DEF Flags
  <2>2. Fields'
    BY <1>1, <1>2 DEF Fields, n
  <2>3. Controllers'
    BY <1>2 DEF Controllers
  <2> QED BY <2>1, <2>2, <2>3
<1>5. \A s \in Sessions : s # n => pc'[Co(s)] = pc[Co(s)]
  BY <1>1, <1>3, ThreadFacts
<1>6. \A s \in Sessions : pc'[Rep(s)] = pc[Rep(s)]
  BY <1>1, <1>3, ThreadFacts
<1>7. Places'
  <2>1. n <= sessionGeneration /\ n \notin created
    BY <1>1 DEF Places, n, Fields
  <2> QED BY <1>2, <1>3, <1>5, <1>6, <2>1 DEF Places, Admitting, InConnect,
        StopLabels, MainLabels, RepLabels
<1>8. Stops'
  <2>1. \A t \in Threads : pc'[t] \in StopLabels => pc[t] \in StopLabels
    BY <1>3 DEF StopLabels
  <2> QED BY <1>2, <2>1, StopsStay DEF Grows
<1>9. Leases'
  <2>1. \A s \in 1..sessionGeneration : s \in Sessions
    BY DEF Fields, Sessions
  <2> QED BY <1>1, <1>2, <1>5, <2>1 DEF Leases
<1>10. Admission'
  BY <1>1, <1>2, <1>3, <1>5 DEF Admission, Admitting, Held, n
<1> QED BY <1>4, <1>7, <1>8, <1>9, <1>10

-----------------------------------------------------------------------------
(* The connect and reconnect coroutines. *)

\* Steps of a connect coroutine that only move it.
LEMMA CoMoves ==
    ASSUME ServiceInv, NEW s \in Sessions,
           \/ CoStart(s) \/ CoConstructFails(s) \/ CoNoController(s)
           \/ CoConnectRefused(s) \/ CoNativeReturns(s) \/ CoFailed(s)
           \/ CoReturned(s) \/ CoRunning(s)
    PROVE  ServiceInv'
<1> USE DEF ServiceInv, policyVars, fieldVars, coVars, controllerVars, slotVars,
            serviceVars
<1>1. /\ UNCHANGED <<isStopping, sessionGeneration, connectionJob, controller,
                     cancelled, coVars, controllerVars, slotVars, displaced, stops,
                     stopId, back, serviceVars>>
      /\ \/ UNCHANGED <<isRunning, connectingStamp>>
         \/ isRunning' = TRUE /\ connectingStamp' = FALSE
  <2>1. CASE CoRunning(s)
    BY <2>1 DEF CoRunning, OnRunning
  <2>2. CASE ~CoRunning(s)
    <3>1. UNCHANGED CoOnly
      BY <2>2 DEF CoStart, CoConstructFails, CoNoController, CoConnectRefused,
          CoNativeReturns, CoFailed, CoReturned
    <3>2. UNCHANGED <<policyVars, fieldVars, coVars, controllerVars, slotVars,
                      displaced, stops, stopId, back, serviceVars>>
      BY <3>1 DEF CoOnly
    <3> QED BY <3>2
  <2> QED BY <2>1, <2>2
<1>2. PICK to \in {"done", "construct", "caught", "returned", "onError", "cancelPath",
                   "install", "retry", "running"} :
        /\ pc' = [pc EXCEPT ![Co(s)] = to]
        /\ pc[Co(s)] \notin {"idle", "done"}
        /\ to \in InConnect => s \in created
        /\ to = "construct" => pc[Co(s)] = "launched"
  <2>1. pc[Co(s)] \in InConnect => s \in created
    BY DEF Places
  <2>2. CASE CoStart(s)
    BY <2>2 DEF CoStart, Goto, InConnect
  <2>3. CASE CoConstructFails(s) \/ CoNoController(s) \/ CoReturned(s) \/ CoRunning(s)
    BY <2>3 DEF CoConstructFails, CoNoController, CoReturned, CoRunning, Goto, InConnect
  <2>4. CASE CoConnectRefused(s) \/ CoNativeReturns(s)
    BY <2>1, <2>4 DEF CoConnectRefused, CoNativeReturns, Goto, InConnect
  <2>5. CASE CoFailed(s)
    BY <2>1, <2>5 DEF CoFailed, Goto, InConnect
  <2> QED BY <2>2, <2>3, <2>4, <2>5
<1>3. Flags' /\ Fields' /\ Controllers'
  <2>1. Flags'
    BY <1>1 DEF Flags
  <2>2. Fields' /\ Controllers'
    BY <1>1 DEF Fields, Controllers
  <2> QED BY <2>1, <2>2
<1>4. Places'
  BY <1>1, <1>2, ThreadFacts DEF Places, Labels, Admitting, InConnect, StopLabels,
      MainLabels, RepLabels
<1>5. Stops'
  BY <1>1, <1>2, StopsStay DEF Grows, Places, StopLabels
<1>6. Leases'
  <2>1. \A u \in 1..sessionGeneration : u \in Sessions
    BY DEF Fields, Sessions
  <2> QED BY <1>1, <1>2, <2>1, ThreadFacts DEF Leases, Places
<1>7. Admission'
  BY <1>1, <1>2, ThreadFacts DEF Admission, Admitting, Held, Places
<1> QED BY <1>3, <1>4, <1>5, <1>6, <1>7

\* A controller is constructed, into the field whatever it holds.
LEMMA ConstructKeeps ==
    ASSUME ServiceInv, NEW s \in Sessions, CoConstruct(s)
    PROVE  ServiceInv'
<1> USE DEF ServiceInv, CoConstruct, Goto, policyVars, fieldVars, coVars,
            controllerVars, slotVars, serviceVars
<1>1. Flags' /\ Fields'
  BY DEF Flags, Fields
<1>2. s \in 1..sessionGeneration
  BY DEF Places, Sessions, Fields
<1>3. Controllers'
  <2>1. created' \subseteq 1..sessionGeneration' /\ controller' \in {0} \cup created'
    BY <1>2 DEF Controllers
  <2>2. owned' \in [Sessions -> {0} \cup created']
    BY DEF Controllers
  <2> QED BY <2>1, <2>2 DEF Controllers
<1>4. Places'
  BY ThreadFacts DEF Places, Labels, Admitting, InConnect, StopLabels, MainLabels,
      RepLabels
<1>5. Stops'
  BY StopsStay DEF Grows, Places, StopLabels
<1>6. Leases'
  <2>1. slotOwner = s
    BY DEF Admission, Held
  <2>2. \A u \in 1..sessionGeneration : u \in Sessions
    BY DEF Fields, Sessions
  <2> QED BY <2>1, <2>2, ThreadFacts DEF Leases, Places
<1>7. Admission'
  BY ThreadFacts DEF Admission, Admitting, Held, Places
<1> QED BY <1>1, <1>3, <1>4, <1>5, <1>6, <1>7

\* A flow enters native code, of a controller nobody has torn down: the session
\* still has its lease, or was displaced.
LEMMA EnterKeeps ==
    ASSUME ServiceInv, NEW s \in Sessions, CoEnterNative(s)
    PROVE  ServiceInv'
<1> USE DEF ServiceInv, CoEnterNative, SetPhase, Goto, policyVars, fieldVars, coVars,
            serviceVars
<1>0. s \in created
  BY DEF Places, InConnect
<1>1. Flags' /\ Fields'
  BY DEF Flags, Fields
<1>2. Controllers'
  BY <1>0 DEF Controllers
<1>3. Places'
  BY <1>0, ThreadFacts DEF Places, Labels, Admitting, InConnect, StopLabels,
      MainLabels, RepLabels
<1>4. Stops'
  BY StopsStay DEF Grows, Places, StopLabels
<1>5. Leases'
  <2>1. \A u \in confirmed : u # s
    BY DEF Controllers
  <2>2. \A u \in 1..sessionGeneration : u \in Sessions
    BY DEF Fields, Sessions
  <2> QED BY <2>1, <2>2, ThreadFacts DEF Leases, Places, Controllers
<1>6. Admission'
  BY <1>0, ThreadFacts DEF Admission, Admitting, Held, Places, Flags
<1> QED BY <1>1, <1>2, <1>3, <1>4, <1>5, <1>6

\* A flow leaves native code and its thread moves on.
LEMMA FlowKeeps ==
    ASSUME ServiceInv, NEW s \in Sessions,
           \/ CoNativeFails(s) \/ CoInstall(s) \/ CoInstallFails(s)
           \/ RepReinstall(s) \/ RepFails(s) \/ CoCancelDestroy(s)
    PROVE  ServiceInv'
<1> USE DEF ServiceInv, policyVars, fieldVars, coVars, serviceVars
<1>1. UNCHANGED <<policyVars, fieldVars, coVars, displaced, stops, stopId, back,
                  serviceVars>>
  BY DEF CoNativeFails, CoInstall, CoInstallFails, RepReinstall, RepFails,
      CoCancelDestroy
<1>2. PICK c \in created : Settles(c)
  <2>1. CASE CoCancelDestroy(s)
    BY <2>1 DEF CoCancelDestroy, Settles, Places, Controllers
  <2>2. CASE CoNativeFails(s) \/ CoInstall(s) \/ CoInstallFails(s)
    BY <2>2 DEF CoNativeFails, CoInstall, CoInstallFails, Settles, Places, InConnect
  <2>3. CASE RepReinstall(s) \/ RepFails(s)
    BY <2>3 DEF RepReinstall, RepFails, Settles, Places
  <2> QED BY <2>1, <2>2, <2>3
<1>3. PICK t \in {Co(s), Rep(s)},
           to \in {"failed", "cancelPath", "returned", "unclaimed", "idle", "onError"} :
        /\ pc' = [pc EXCEPT ![t] = to]
        /\ pc[t] \notin {"idle", "done"}
        /\ to = "failed" => s \in created
        /\ t = Co(s) => /\ to \notin {"idle", "onError"}
                        /\ pc[t] \notin {"launched", "construct"}
        /\ t = Rep(s) => to \in {"idle", "onError"} /\ s \in created
  <2>1. CASE CoCancelDestroy(s)
    BY <2>1, ThreadFacts DEF CoCancelDestroy, Places, Goto
  <2>2. CASE CoNativeFails(s) \/ CoInstall(s) \/ CoInstallFails(s)
    BY <2>2, ThreadFacts DEF CoNativeFails, CoInstall, CoInstallFails, Places,
        InConnect, Goto
  <2>3. CASE RepReinstall(s)
    BY <2>3, ThreadFacts DEF RepReinstall, Places, Goto
  <2>4. CASE RepFails(s)
    BY <2>4, ThreadFacts DEF RepFails, Places, Goto
  <2> QED BY <2>1, <2>2, <2>3, <2>4
<1>4. c \in Sessions
  BY DEF Controllers, Fields, Sessions
<1>5. /\ pc'[Main] = pc[Main] /\ pc' \in [Threads -> Labels]
      /\ \A u \in Sessions :
            \/ pc'[Co(u)] = pc[Co(u)]
            \/ pc[Co(u)] # "done" /\ pc'[Co(u)] \notin {"launched", "construct"}
  BY <1>3, ThreadFacts DEF Places, Labels
<1>6. Fields' /\ Controllers' /\ Leases' /\ Admission' /\ Grows
  BY <1>1, <1>2, <1>4, <1>5, SettleKeeps
<1>7. Flags'
  BY <1>1, <1>2, <1>4, SettleSlot DEF Flags
<1>8. Places'
  BY <1>1, <1>2, <1>3, <1>4, <1>5, ThreadFacts, SettleEffect DEF Places, Admitting,
      InConnect, StopLabels, RepLabels
<1>9. Stops'
  BY <1>1, <1>3, <1>6, StopsStay, ThreadFacts DEF Places, StopLabels
<1> QED BY <1>6, <1>7, <1>8, <1>9

\* A reconnect begins on a connection that is up.
LEMMA RepBeginKeeps ==
    ASSUME ServiceInv, NEW s \in Sessions, RepBegin(s)
    PROVE  ServiceInv'
<1> USE DEF ServiceInv, RepBegin, Goto, policyVars, fieldVars, coVars, slotVars,
            serviceVars
<1>1. Flags' /\ Fields' /\ Controllers'
  BY DEF Flags, Fields, Controllers
<1>2. Places'
  <2>1. s \in created
    BY DEF Controllers
  <2>2. /\ pc' \in [Threads -> Labels] /\ pc'[Main] = pc[Main]
        /\ \A u \in Sessions : pc'[Co(u)] = pc[Co(u)]
        /\ \A u \in Sessions : pc'[Rep(u)] = IF u = s THEN "native" ELSE pc[Rep(u)]
    BY ThreadFacts DEF Places, Labels
  <2>3. MainPlace' /\ \A u \in Sessions : CoPlace(u)'
    <3>1. Admitting => sessionGeneration \in Sessions
      BY DEF Places, Fields, Sessions
    <3>2. MainPlace'
      BY <2>2, <3>1 DEF Places, Admitting
    <3>3. ASSUME NEW u \in Sessions PROVE CoPlace(u)'
      BY <2>2 DEF Places
    <3> QED BY <3>2, <3>3
  <2>4. \A u \in Sessions : RepPlace(u)'
    BY <2>1, <2>2 DEF Places, RepLabels
  <2> HIDE DEF MainPlace, CoPlace, RepPlace
  <2> QED BY <2>2, <2>3, <2>4 DEF Places
<1>3. Stops'
  BY StopsStay DEF Grows, Places, StopLabels
<1>4. Leases'
  BY ThreadFacts DEF Leases, Places, Controllers, Fields, Sessions
<1>5. Admission'
  BY ThreadFacts DEF Admission, Admitting, Held, Places
<1> QED BY <1>1, <1>2, <1>3, <1>4, <1>5

\* The cancellation path destroys the controller in the field, if this session
\* is the current one.
LEMMA CancelKeeps ==
    ASSUME ServiceInv, NEW s \in Sessions, CoCancelled(s)
    PROVE  ServiceInv'
<1> USE DEF ServiceInv, Goto, policyVars, fieldVars, coVars, controllerVars, slotVars,
            serviceVars
<1>1. /\ pc[Co(s)] = "cancelPath"
      /\ UNCHANGED <<policyVars, fieldVars, created, displaced, stops, stopId, back,
                     serviceVars>>
  BY DEF CoCancelled
<1>2. CASE /\ owned' = [owned EXCEPT ![s] = 0]
           /\ pc' = [pc EXCEPT ![Co(s)] = "unclaimed"]
           /\ UNCHANGED <<controllerVars, slotVars>>
  <2>1. Flags' /\ Fields'
    BY <1>1, <1>2 DEF Flags, Fields
  <2>2. Controllers'
    BY <1>1, <1>2 DEF Controllers
  <2>3. Places'
    BY <1>1, <1>2, ThreadFacts DEF Places, Controllers, Labels, Admitting, InConnect,
        StopLabels, MainLabels, RepLabels
  <2>4. Stops'
    BY <1>1, <1>2, StopsStay DEF Grows, Places, StopLabels
  <2>5. Leases'
    BY <1>1, <1>2, ThreadFacts DEF Leases, Places, Fields, Sessions
  <2>6. Admission'
    BY <1>1, <1>2, ThreadFacts DEF Admission, Admitting, Held, Places
  <2> QED BY <2>1, <2>2, <2>3, <2>4, <2>5, <2>6
<1>3. CASE /\ controller # 0 /\ owned' = [owned EXCEPT ![s] = controller]
           /\ pc' = [pc EXCEPT ![Co(s)] = "cancelDestroy"]
           /\ DestroyBegins(controller)
  <2>1. controller \in created /\ controller \in Sessions
    BY <1>3 DEF Controllers, Fields, Sessions
  <2>2. owned' \in [Sessions -> {0} \cup created] /\ owned'[s] = controller
    BY <1>3, <2>1 DEF Controllers
  <2>3. \A u \in Sessions \ {s} : owned'[u] = owned[u] /\ pc'[Co(u)] = pc[Co(u)]
    BY <1>3, ThreadFacts DEF Controllers, Places
  <2>4. /\ pc' \in [Threads -> Labels] /\ pc'[Co(s)] = "cancelDestroy"
        /\ pc'[Main] = pc[Main] /\ \A u \in Sessions : pc'[Rep(u)] = pc[Rep(u)]
    BY <1>3, ThreadFacts DEF Places, Labels
  <2>5. Controllers' /\ Leases' /\ Grows /\ destroyed' = destroyed \cup {controller}
    <3>1. \A u \in Sessions : pc[Co(u)] = "done" => pc'[Co(u)] = "done"
      BY <1>1, <2>3
    <3> QED BY <1>1, <1>3, <2>1, <2>2, <3>1, DestroyBeginsKeeps
  <2>6. Flags' /\ Fields'
    BY <1>1, <1>3 DEF Flags, Fields, DestroyBegins, SetPhase
  <2>7. Places'
    <3>1. \A u \in Sessions : pc'[Co(u)] = "cancelDestroy" => owned'[u] \in destroyed'
      BY <2>2, <2>3, <2>5 DEF Places
    <3>2. \A u \in Sessions :
            \/ pc'[Co(u)] = pc[Co(u)]
            \/ pc[Co(u)] = "cancelPath" /\ pc'[Co(u)] = "cancelDestroy"
      BY <1>1, <2>3, <2>4
    <3>3. ASSUME NEW u \in Sessions PROVE CoPlace(u)'
      <4>1. CASE pc'[Co(u)] = pc[Co(u)]
        BY <1>1, <3>1, <4>1 DEF Places
      <4>2. CASE pc[Co(u)] = "cancelPath" /\ pc'[Co(u)] = "cancelDestroy"
        BY <1>1, <3>1, <4>2 DEF Places, InConnect, StopLabels
      <4> QED BY <3>2, <4>1, <4>2
    <3>4. MainPlace' /\ \A u \in Sessions : RepPlace(u)'
      BY <1>1, <2>4, <3>2 DEF Places, Admitting, Fields, Sessions
    <3>5. UNCHANGED back
      BY <1>1
    <3> HIDE DEF MainPlace, CoPlace, RepPlace
    <3> QED BY <2>4, <3>3, <3>4, <3>5 DEF Places
  <2>8. Stops'
    BY <1>1, <1>3, <2>5, StopsStay DEF Places, StopLabels
  <2>9. Admission'
    BY <1>1, <1>3, <2>1, <2>3, <2>4, <2>5 DEF DestroyBegins, SetPhase, Admission,
        Admitting, Held, Places, Flags
  <2> QED BY <2>5, <2>6, <2>7, <2>8, <2>9
<1> QED BY <1>2, <1>3 DEF CoCancelled

\* releaseLeaseIfUnclaimed: only for a session that has no controller.
LEMMA UnclaimedKeeps ==
    ASSUME ServiceInv, NEW s \in Sessions, CoUnclaimed(s)
    PROVE  ServiceInv'
<1> USE DEF ServiceInv, CoUnclaimed, Goto, policyVars, fieldVars, coVars,
            controllerVars, slotVars, serviceVars
<1>1. Flags'
  BY DEF Flags, ReleaseSlot
<1>2. Fields'
  BY DEF Fields, ReleaseSlot
<1>3. Controllers'
  BY DEF Controllers
<1>4. Places'
  BY ThreadFacts DEF Places, Labels, Admitting, InConnect, StopLabels, MainLabels,
      RepLabels
<1>5. Stops'
  BY StopsStay DEF Grows, Places, StopLabels
<1>6. Leases'
  BY ThreadFacts DEF ReleaseSlot, Leases, Places, Controllers, Fields, Sessions
<1>7. Admission'
  <2>1. /\ pc'[Main] = pc[Main] /\ pc'[Co(s)] = "done"
        /\ \A u \in Sessions \ {s} : pc'[Co(u)] = pc[Co(u)]
    BY ThreadFacts DEF Places
  <2>2. \A u \in Sessions \ {s} : Held(u) => Held(u)'
    BY DEF ReleaseSlot, Held
  <2>3. s # sessionGeneration \/ ~Admitting
    BY DEF Places
  <2>4. Admitting => sessionGeneration \in Sessions
    BY DEF Places, Fields, Sessions
  <2>5. controller' \in {0, controller}
    OBVIOUS
  <2>6. ASSUME pc[Main] = "acquire"
        PROVE  \/ controller' \in {0} \cup destroyed
               \/ slotOwner' = controller' /\ slotAged' = FALSE
    BY <2>5, <2>6 DEF Admission, Controllers, ReleaseSlot
  <2>7. UNCHANGED <<sessionGeneration, connectionJob, destroyed>>
    OBVIOUS
  <2> QED BY <2>1, <2>2, <2>3, <2>4, <2>5, <2>6, <2>7 DEF Admission, Admitting
<1> QED BY <1>1, <1>2, <1>3, <1>4, <1>5, <1>6, <1>7

\* An error is accepted or ignored.
LEMMA ErrorKeeps ==
    ASSUME ServiceInv, NEW t \in Threads, ErrorAccepted(t) \/ ErrorIgnored(t)
    PROVE  ServiceInv'
<1> USE DEF ServiceInv, policyVars, fieldVars, coVars, controllerVars, slotVars,
            serviceVars
<1>1. UNCHANGED <<policyVars, fieldVars, coVars, controllerVars, slotVars, displaced,
                  stops, stopId, serviceVars>>
  BY DEF ErrorAccepted, ErrorIgnored, CoOnly
<1>2. pc[t] \in {"onError", "caught"}
  BY DEF ErrorAccepted, ErrorIgnored, ErrorLabels
<1>3. AfterError(t) \in {"idle", "returned", "unclaimed"}
      /\ \A s \in Sessions : /\ t = Rep(s) => AfterError(t) = "idle"
                             /\ t = Co(s) => AfterError(t) # "idle"
  BY ThreadFacts DEF AfterError
<1>4. \/ /\ pc' = [pc EXCEPT ![t] = "stopBegin"]
         /\ back' = [back EXCEPT ![t] = AfterError(t)]
      \/ pc' = [pc EXCEPT ![t] = AfterError(t)] /\ back' = back
  BY DEF ErrorAccepted, ErrorIgnored, CoOnly, Goto
<1>5. t # Main
  BY <1>2 DEF Places, MainLabels, StopLabels
<1> HIDE DEF AfterError
<1>6. Flags' /\ Fields' /\ Controllers'
  <2>1. Flags'
    BY <1>1 DEF Flags
  <2>2. Fields' /\ Controllers'
    BY <1>1 DEF Fields, Controllers
  <2> QED BY <2>1, <2>2
<1>7. Places'
  <2>1. /\ pc' \in [Threads -> Labels]
        /\ back' \in [Threads -> {"idle", "returned", "unclaimed"}]
        /\ \A u \in Threads \ {t} : pc'[u] = pc[u] /\ back'[u] = back[u]
    BY <1>3, <1>4 DEF Places, Labels
  <2>2. \/ pc'[t] = "stopBegin" /\ back'[t] = AfterError(t)
        \/ pc'[t] = AfterError(t) /\ back'[t] = back[t]
    BY <1>4 DEF Places
  <2>3. CASE \E s \in Sessions : t = Co(s)
    <3>1. PICK s \in Sessions : t = Co(s)
      BY <2>3
    <3>2. \A u \in Sessions : /\ Rep(u) \in Threads \ {t}
                              /\ u # s => Co(u) \in Threads \ {t}
      BY <3>1, ThreadFacts
    <3>3. AfterError(t) \in {"returned", "unclaimed"}
      BY <1>3, <3>1
    <3>4. MainPlace' /\ \A u \in Sessions : RepPlace(u)'
      <4>1. pc[t] # "idle" /\ pc'[t] # "idle"
        BY <1>2, <2>2, <3>3
      <4> QED BY <1>1, <1>5, <2>1, <3>1, <3>2, <4>1, ThreadFacts DEF Places, Admitting,
            Fields, Sessions
    <3>5. ASSUME NEW u \in Sessions PROVE CoPlace(u)'
      <4>1. CASE u = s
        BY <1>1, <1>2, <2>2, <3>1, <3>3, <4>1 DEF Places, InConnect, StopLabels
      <4>2. CASE u # s
        BY <1>1, <2>1, <3>2, <4>2 DEF Places
      <4> QED BY <4>1, <4>2
    <3> HIDE DEF MainPlace, CoPlace, RepPlace
    <3> QED BY <2>1, <3>4, <3>5 DEF Places
  <2>4. CASE \E s \in Sessions : t = Rep(s)
    <3>1. PICK s \in Sessions : t = Rep(s)
      BY <2>4
    <3>2. \A u \in Sessions : /\ Co(u) \in Threads \ {t}
                              /\ u # s => Rep(u) \in Threads \ {t}
      BY <3>1, ThreadFacts
    <3>3. AfterError(t) = "idle"
      BY <1>3, <3>1
    <3>4. MainPlace' /\ \A u \in Sessions : CoPlace(u)'
      <4>1. Main \in Threads \ {t} /\ \A u \in Sessions : Co(u) \in Threads \ {t}
        BY <1>5, <3>2, ThreadFacts
      <4>2. Admitting => sessionGeneration \in Sessions
        BY DEF Places, Fields, Sessions
      <4> QED BY <1>1, <2>1, <4>1, <4>2 DEF Places, Admitting
    <3>5. ASSUME NEW u \in Sessions PROVE RepPlace(u)'
      <4>1. CASE u = s
        BY <1>1, <1>2, <2>2, <3>1, <3>3, <4>1 DEF Places, RepLabels
      <4>2. CASE u # s
        BY <1>1, <2>1, <3>2, <4>2 DEF Places
      <4> QED BY <4>1, <4>2
    <3> HIDE DEF MainPlace, CoPlace, RepPlace
    <3> QED BY <2>1, <3>4, <3>5 DEF Places
  <2> QED BY <1>5, <2>3, <2>4, ThreadFacts
<1>8. Stops'
  BY <1>1, <1>3, <1>4, StopsStay DEF Grows, Places, StopLabels
<1>9. Leases'
  BY <1>1, <1>2, <1>3, <1>4, ThreadFacts DEF Leases, Places, Fields, Sessions
<1>10. Admission'
  BY <1>1, <1>2, <1>3, <1>4, <1>5, ThreadFacts DEF Admission, Admitting, Held, Places
<1> QED BY <1>6, <1>7, <1>8, <1>9, <1>10

-----------------------------------------------------------------------------
(* stopVpn and its teardown coroutines. *)

\* A record changes in place, truthfully.
LEMMA StopsChange ==
    ASSUME ServiceInv, Grows, UNCHANGED sessionGeneration,
           NEW i \in 1..Len(stops), NEW r \in StopRecord,
           stops' = [stops EXCEPT ![i] = r],
           r.session = stops[i].session,
           r.target \in {0} \cup created',
           r.at = "wait" => r.target \in destroyed',
           r.outcome = "NATIVE_CONFIRMED" => r.target \in confirmed',
           stopId' \in [Threads -> 0..Len(stops)],
           \A t \in Threads : pc'[t] \in StopLabels => stopId'[t] # 0
    PROVE  Stops'
<1>1. Stops
  BY DEF ServiceInv
<1>2. /\ stops' \in Seq(StopRecord) /\ Len(stops') = Len(stops)
      /\ stops'[i] = r
      /\ \A j \in 1..Len(stops) : j # i => stops'[j] = stops[j]
  BY <1>1, StopChanges
<1>3. ASSUME NEW j \in 1..Len(stops)
      PROVE  /\ stops'[j].session <= sessionGeneration'
             /\ stops'[j].target \in {0} \cup created'
             /\ stops'[j].at = "wait" => stops'[j].target \in destroyed'
             /\ stops'[j].outcome = "NATIVE_CONFIRMED" => stops'[j].target \in confirmed'
  <2>1. CASE j = i
    BY <1>1, <1>2, <2>1 DEF Stops
  <2>2. CASE j # i
    BY <1>1, <1>2, <2>2 DEF Stops, Grows
  <2> QED BY <2>1, <2>2
<1> QED BY <1>2, <1>3 DEF Stops

\* A record is added.
LEMMA StopsGrow ==
    ASSUME ServiceInv, Grows, UNCHANGED sessionGeneration,
           NEW r \in StopRecord, stops' = Append(stops, r),
           r.session <= sessionGeneration, r.target \in {0} \cup created,
           r.at # "wait", r.outcome = "none",
           stopId' \in [Threads -> 0..(Len(stops) + 1)],
           \A t \in Threads : pc'[t] \in StopLabels => stopId'[t] # 0
    PROVE  Stops'
<1>1. Stops /\ Len(stops) \in Nat
  <2>1. Stops
    BY DEF ServiceInv
  <2>2. stops \in Seq(StopRecord)
    BY <2>1 DEF Stops
  <2> QED BY <2>1, <2>2
<1>2. /\ stops' \in Seq(StopRecord) /\ Len(stops') = Len(stops) + 1
      /\ stops'[Len(stops) + 1] = r
      /\ \A j \in 1..Len(stops) : stops'[j] = stops[j]
  BY <1>1 DEF Stops
<1>3. \A j \in 1..(Len(stops) + 1) : j \in 1..Len(stops) \/ j = Len(stops) + 1
  BY <1>1
<1>4. ASSUME NEW j \in 1..(Len(stops) + 1)
      PROVE  /\ stops'[j].session <= sessionGeneration'
             /\ stops'[j].target \in {0} \cup created'
             /\ stops'[j].at = "wait" => stops'[j].target \in destroyed'
             /\ stops'[j].outcome = "NATIVE_CONFIRMED" => stops'[j].target \in confirmed'
  <2>1. CASE j = Len(stops) + 1
    BY <1>2, <2>1 DEF Grows
  <2>2. CASE j \in 1..Len(stops)
    BY <1>1, <1>2, <2>2 DEF Stops, Grows
  <2> QED BY <1>3, <2>1, <2>2
<1> QED BY <1>2, <1>4 DEF Stops

\* stopVpn goes on, or returns to where its thread was; at most it clears the
\* fields.  Everything except its own record is as before.
LEMMA StopMoves ==
    ASSUME ServiceInv, NEW t \in Threads, NEW to \in Labels,
           pc[t] \in StopLabels \cup {"stopBegin"},
           pc' = [pc EXCEPT ![t] = to],
           \/ to \in StopLabels /\ UNCHANGED back
           \/ to = back[t] /\ back' = [back EXCEPT ![t] = "idle"],
           UNCHANGED <<sessionGeneration, coVars, controllerVars, slotVars, displaced>>,
           connectionJob' \in {0, connectionJob}, controller' \in {0, controller},
           cancelled' \subseteq Sessions
    PROVE  Fields' /\ Controllers' /\ Places' /\ Leases' /\ Admission' /\ Grows
<1> USE DEF ServiceInv, coVars, controllerVars, slotVars
<1>1. /\ pc' \in [Threads -> Labels] /\ pc'[t] = to
      /\ back' \in [Threads -> {"idle", "returned", "unclaimed"}]
      /\ \A u \in Threads \ {t} : pc'[u] = pc[u] /\ back'[u] = back[u]
      /\ \/ to \in StopLabels /\ back'[t] = back[t]
         \/ to = back[t] /\ back'[t] = "idle"
  BY DEF Places
<1>2. to \in StopLabels \cup {"idle", "returned", "unclaimed"}
  BY DEF Places
<1>3. /\ pc[Main] \notin {"claim", "launch", "acquire"} \/ pc'[Main] = pc[Main]
      /\ pc'[Main] \in {"claim", "launch", "acquire"} => pc'[Main] = pc[Main]
  BY <1>1, <1>2, ThreadFacts DEF StopLabels
<1>4. ASSUME NEW s \in Sessions
      PROVE  \/ pc'[Co(s)] = pc[Co(s)] /\ back'[Co(s)] = back[Co(s)]
             \/ /\ pc[Co(s)] \in StopLabels \cup {"stopBegin"}
                /\ \/ pc'[Co(s)] \in StopLabels /\ back'[Co(s)] # "idle"
                   \/ pc'[Co(s)] \in {"returned", "unclaimed"}
  <2>1. CASE t = Co(s)
    BY <1>1, <2>1 DEF Places
  <2>2. CASE t # Co(s)
    BY <1>1, <2>2, ThreadFacts
  <2> QED BY <2>1, <2>2
<1>5. Places'
  <2>1. ASSUME NEW s \in Sessions PROVE CoPlace(s)'
    BY <1>4 DEF Places, StopLabels, InConnect
  <2>2. ASSUME NEW s \in Sessions PROVE RepPlace(s)'
    <3>1. CASE t = Rep(s)
      BY <1>1, <3>1 DEF Places, RepLabels, StopLabels
    <3>2. CASE t # Rep(s)
      BY <1>1, <3>2, ThreadFacts DEF Places
    <3> QED BY <3>1, <3>2
  <2>3. MainPlace'
    <3>1. pc'[Main] \in MainLabels /\ back'[Main] = "idle"
      <4>1. CASE t = Main
        BY <1>1, <4>1 DEF Places, MainLabels, StopLabels
      <4>2. CASE t # Main
        BY <1>1, <4>2, ThreadFacts DEF Places
      <4> QED BY <4>1, <4>2
    <3>2. ASSUME Admitting'
          PROVE  sessionGeneration > 0 /\ pc'[Co(sessionGeneration)] = "idle"
      <4>1. Admitting /\ pc[Main] = pc'[Main]
        BY <1>3, <3>2 DEF Admitting
      <4>2. sessionGeneration \in Sessions /\ pc[Co(sessionGeneration)] = "idle"
        BY <4>1 DEF Places, Fields, Sessions
      <4> QED BY <1>4, <4>1, <4>2 DEF Places, StopLabels
    <3> QED BY <1>3, <3>1, <3>2 DEF Places
  <2> HIDE DEF MainPlace, CoPlace, RepPlace
  <2> QED BY <1>1, <2>1, <2>2, <2>3 DEF Places
<1>6. Fields'
  <2>1. 0 \in 0..sessionGeneration
    BY DEF Fields
  <2> QED BY <2>1 DEF Fields
<1>7. Controllers' /\ Grows
  BY DEF Controllers, Grows
<1>8. Leases'
  <2>1. \A s \in 1..sessionGeneration : s \in Sessions
    BY DEF Fields, Sessions
  <2>2. \A s \in Sessions : pc[Co(s)] = "done" => pc'[Co(s)] = "done"
    BY <1>4 DEF StopLabels
  <2> QED BY <2>1, <2>2 DEF Leases
<1>9. Admission'
  <2>1. \A s \in Sessions : pc'[Co(s)] \in {"launched", "construct"} => Held(s)'
    BY <1>4 DEF Admission, Held, StopLabels
  <2>2. ASSUME Admitting'
        PROVE  /\ Held(sessionGeneration)' /\ connectionJob' = 0
               /\ controller' \in {0} \cup destroyed'
    BY <1>3, <2>2 DEF Admitting, Admission, Held
  <2>3. ASSUME pc'[Main] = "acquire"
        PROVE  /\ connectionJob' = 0
               /\ \/ controller' \in {0} \cup destroyed'
                  \/ slotOwner' = controller' /\ slotAged' = FALSE
    BY <1>3, <2>3 DEF Admission
  <2> QED BY <2>1, <2>2, <2>3 DEF Admission
<1> QED BY <1>5, <1>6, <1>7, <1>8, <1>9

\* A thread in the middle of stopVpn has a record of its own call.
LEMMA OwnStop ==
    ASSUME ServiceInv, NEW t \in Threads, pc[t] \in StopLabels
    PROVE  stopId[t] \in 1..Len(stops) /\ stops[stopId[t]] \in StopRecord
<1>1. Stops
  BY DEF ServiceInv
<1>2. stops \in Seq(StopRecord) /\ stopId[t] \in 0..Len(stops) /\ stopId[t] # 0
  BY <1>1 DEF Stops
<1>3. stopId[t] \in 1..Len(stops)
  BY <1>2
<1> QED BY <1>2, <1>3

\* The number a session's threads carry.
LEMMA ThreadSession ==
    ASSUME NEW t \in Threads
    PROVE  t[2] \in 0..MaxSessions
BY ThreadFacts DEF Sessions

\* stopVpn begins: a record is added, of a call that has no target yet.
LEMMA StopBeginKeeps ==
    ASSUME ServiceInv, NEW t \in Threads, StopBegin(t)
    PROVE  ServiceInv'
<1> USE DEF policyVars, fieldVars, serviceVars
<1> DEFINE r == [session |-> sessionGeneration, by |-> t[2], target |-> 0,
                 at |-> "stopping", outcome |-> "none"]
<1>1. /\ pc[t] = "stopBegin" /\ pc' = [pc EXCEPT ![t] = "stopDecide"]
      /\ stops' = Append(stops, r) /\ stopId' = [stopId EXCEPT ![t] = Len(stops) + 1]
      /\ UNCHANGED <<policyVars, fieldVars, coVars, controllerVars, slotVars, displaced,
                     back, serviceVars>>
  BY DEF StopBegin, Goto
<1>2. Fields' /\ Controllers' /\ Places' /\ Leases' /\ Admission' /\ Grows
  <2>1. cancelled' \subseteq Sessions
    BY <1>1 DEF ServiceInv, Fields
  <2> HIDE DEF r
  <2> QED BY <1>1, <2>1, StopMoves DEF Labels, StopLabels
<1>3. Flags'
  <2> HIDE DEF r
  <2> QED BY <1>1 DEF ServiceInv, Flags, slotVars
<1>4. Stops'
  <2>1. r \in StopRecord
    BY ThreadSession DEF StopRecord, Outcomes, ServiceInv, Fields
  <2>2. /\ r.session = sessionGeneration /\ r.target = 0
        /\ r.at = "stopping" /\ r.outcome = "none"
    OBVIOUS
  <2>3. sessionGeneration <= sessionGeneration
    BY DEF ServiceInv, Fields
  <2> HIDE DEF r
  <2>4. Stops /\ Places
    BY DEF ServiceInv
  <2>5. Len(stops) \in Nat /\ stopId \in [Threads -> 0..Len(stops)]
    <3>1. stops \in Seq(StopRecord)
      BY <2>4 DEF Stops
    <3> QED BY <2>4, <3>1 DEF Stops
  <2>6. /\ 0..Len(stops) \subseteq 0..(Len(stops) + 1)
        /\ Len(stops) + 1 \in 0..(Len(stops) + 1)
        /\ Len(stops) + 1 # 0
    BY <2>5
  <2>7. stopId' \in [Threads -> 0..(Len(stops) + 1)]
    BY <1>1, <2>5, <2>6
  <2>8. \A u \in Threads : pc'[u] \in StopLabels => stopId'[u] # 0
    BY <1>1, <2>4, <2>5, <2>6 DEF Stops, Places, StopLabels
  <2> QED BY <1>1, <1>2, <2>1, <2>2, <2>3, <2>7, <2>8, StopsGrow
<1> QED BY <1>2, <1>3, <1>4 DEF ServiceInv

\* The job goes; the controller stays in the field for the next step.
LEMMA StopDecideKeeps ==
    ASSUME ServiceInv, NEW t \in Threads, StopDecide(t)
    PROVE  ServiceInv'
<1> USE DEF policyVars, fieldVars, serviceVars
<1>1. /\ pc[t] = "stopDecide" /\ pc' = [pc EXCEPT ![t] = "stopTake"]
      /\ isStopping' = TRUE /\ isRunning' = FALSE /\ connectingStamp' = FALSE
      /\ connectionJob' = 0 /\ cancelled' = cancelled \cup ({connectionJob} \ {0})
      /\ UNCHANGED <<sessionGeneration, controller, coVars, controllerVars, slotVars,
                     displaced, stops, stopId, back, serviceVars>>
  BY DEF StopDecide, Goto, BeginTeardown
<1>2. Fields' /\ Controllers' /\ Places' /\ Leases' /\ Admission' /\ Grows
  <2>1. cancelled' \subseteq Sessions
    BY <1>1 DEF ServiceInv, Fields, Sessions
  <2> QED BY <1>1, <2>1, StopMoves DEF Labels, StopLabels
<1>3. Flags'
  BY <1>1 DEF ServiceInv, Flags, slotVars
<1>4. Stops'
  BY <1>1, <1>2, StopsStay DEF StopLabels, ServiceInv, Places
<1> QED BY <1>2, <1>3, <1>4 DEF ServiceInv

\* The controller in the field becomes the target of the call's own record.
LEMMA StopTakeKeeps ==
    ASSUME ServiceInv, StopCalls, NEW t \in Threads, StopTake(t)
    PROVE  ServiceInv'
<1> USE DEF policyVars, fieldVars, serviceVars
<1> DEFINE i == stopId[t]
           r == [stops[i] EXCEPT !.target = controller]
<1>1. /\ pc[t] = "stopTake" /\ pc' = [pc EXCEPT ![t] = "stopRelease"]
      /\ controller' = 0 /\ stops' = [stops EXCEPT ![i] = r]
      /\ UNCHANGED <<policyVars, connectionJob, connectingStamp, cancelled, coVars,
                     controllerVars, slotVars, displaced, stopId, back, serviceVars>>
  BY DEF StopTake, Goto
<1>2. Fields' /\ Controllers' /\ Places' /\ Leases' /\ Admission' /\ Grows
  <2>1. cancelled' \subseteq Sessions
    BY <1>1 DEF ServiceInv, Fields
  <2> HIDE DEF r, i
  <2> QED BY <1>1, <2>1, StopMoves DEF Labels, StopLabels
<1>3. Flags'
  <2> HIDE DEF r, i
  <2> QED BY <1>1 DEF ServiceInv, Flags, slotVars
<1>4. Stops'
  <2>1. i \in 1..Len(stops) /\ stops[i] \in StopRecord
    BY <1>1, OwnStop DEF StopLabels
  <2>2. controller \in {0} \cup created /\ controller \in 0..MaxSessions
    BY DEF ServiceInv, Controllers, Fields
  <2>3. /\ r \in StopRecord /\ r.session = stops[i].session /\ r.target = controller
        /\ r.at = stops[i].at /\ r.outcome = stops[i].outcome
    BY <2>1, <2>2 DEF StopRecord
  <2>4. r.at = "stopping" /\ r.outcome = "none"
    BY <1>1, <2>3 DEF StopCalls, StopLabels
  <2>5. /\ stopId' \in [Threads -> 0..Len(stops)]
        /\ \A u \in Threads : pc'[u] \in StopLabels => stopId'[u] # 0
    <3> HIDE DEF r, i
    <3> QED BY <1>1 DEF ServiceInv, Stops, Places, StopLabels
  <2>6. UNCHANGED <<sessionGeneration, created>>
    BY <1>1 DEF coVars
  <2> HIDE DEF r, i
  <2> QED BY <1>1, <1>2, <2>1, <2>2, <2>3, <2>4, <2>5, <2>6, StopsChange
<1> QED BY <1>2, <1>3, <1>4 DEF ServiceInv

\* stopVpn returns, its teardown launched or not needed.
LEMMA StopReturnsKeeps ==
    ASSUME ServiceInv, StopCalls, NEW t \in Threads, StopReentrant(t) \/ StopRelease(t)
    PROVE  ServiceInv'
<1> USE DEF policyVars, fieldVars, serviceVars
<1> DEFINE i == stopId[t]
<1>1. /\ pc[t] \in StopLabels /\ pc' = [pc EXCEPT ![t] = back[t]]
      /\ back' = [back EXCEPT ![t] = "idle"] /\ stopId' = [stopId EXCEPT ![t] = 0]
      /\ UNCHANGED <<policyVars, fieldVars, coVars, controllerVars, slotVars, displaced,
                     serviceVars>>
  BY DEF StopReentrant, StopRelease, StopReturns, Goto, StopLabels
<1>2. i \in 1..Len(stops) /\ stops[i] \in StopRecord /\ stops \in Seq(StopRecord)
  <2>1. stops \in Seq(StopRecord)
    BY DEF ServiceInv, Stops
  <2> QED BY <1>1, <2>1, OwnStop
<1>3. PICK r \in StopRecord :
        /\ stops' = [stops EXCEPT ![i] = r] /\ r.at \in {"done", "destroy"}
        /\ r.session = stops[i].session /\ r.target = stops[i].target
        /\ r.outcome \in {"none", "NOOP_REENTRANT"}
  <2>1. CASE StopReentrant(t)
    <3> DEFINE q == [stops[i] EXCEPT !.at = "done", !.outcome = "NOOP_REENTRANT"]
    <3>1. /\ q \in StopRecord /\ q.at = "done" /\ q.outcome = "NOOP_REENTRANT"
          /\ q.session = stops[i].session /\ q.target = stops[i].target
      BY <1>2 DEF StopRecord, Outcomes
    <3>2. stops' = [stops EXCEPT ![i] = q]
      BY <1>2, <2>1 DEF StopReentrant
    <3> QED BY <3>1, <3>2
  <2>2. CASE StopRelease(t)
    <3> DEFINE q == [stops[i] EXCEPT !.at = "destroy"]
    <3>1. /\ q \in StopRecord /\ q.at = "destroy" /\ q.outcome = stops[i].outcome
          /\ q.session = stops[i].session /\ q.target = stops[i].target
      BY <1>2 DEF StopRecord, Outcomes
    <3>2. stops' = [stops EXCEPT ![i] = q]
      BY <1>2, <2>2 DEF StopRelease
    <3>3. q.outcome = "none"
      BY <1>1, <3>1 DEF StopCalls
    <3> HIDE DEF q
    <3> QED BY <3>1, <3>2, <3>3
  <2> QED BY <2>1, <2>2
<1> HIDE DEF i
<1>4. Fields' /\ Controllers' /\ Places' /\ Leases' /\ Admission' /\ Grows
  <2>1. cancelled' \subseteq Sessions
    BY <1>1 DEF ServiceInv, Fields
  <2>2. back[t] \in Labels
    BY DEF ServiceInv, Places, Labels
  <2> QED BY <1>1, <2>1, <2>2, StopMoves DEF Labels, StopLabels
<1>5. Flags'
  BY <1>1 DEF ServiceInv, Flags, slotVars
<1>6. Stops'
  <2>1. stops[i].target \in {0} \cup created /\ created' = created
    BY <1>1, <1>2 DEF ServiceInv, Stops, coVars
  <2>2. Stops /\ Places
    BY DEF ServiceInv
  <2>3. 0 \in 0..Len(stops)
    BY <1>2
  <2>4. stopId' \in [Threads -> 0..Len(stops)]
    BY <1>1, <2>2, <2>3 DEF Stops
  <2>5. \A u \in Threads : pc'[u] \in StopLabels => stopId'[u] # 0
    BY <1>1, <2>2 DEF Stops, Places, StopLabels
  <2>6. UNCHANGED sessionGeneration
    BY <1>1
  <2> QED BY <1>2, <1>3, <1>4, <2>1, <2>4, <2>5, <2>6, StopsChange
<1> QED BY <1>4, <1>5, <1>6 DEF ServiceInv

\* Steps of a teardown coroutine: the threads stand still.
LEMMA TeardownKeeps ==
    ASSUME ServiceInv, StopCalls, NEW i \in DOMAIN stops, TeardownStep(i)
    PROVE  ServiceInv'
<1> USE DEF policyVars, fieldVars, threadVars, coVars
<1>1. /\ i \in 1..Len(stops) /\ stops[i] \in StopRecord
      /\ stops \in Seq(StopRecord) /\ stops[i].target \in {0} \cup created
      /\ stops[i].at = "wait" => stops[i].target \in destroyed
      /\ stops[i].outcome = "NATIVE_CONFIRMED" => stops[i].target \in confirmed
  <2>1. Stops
    BY DEF ServiceInv
  <2>2. stops \in Seq(StopRecord)
    BY <2>1 DEF Stops
  <2>3. i \in 1..Len(stops)
    BY <2>2
  <2> QED BY <2>1, <2>2, <2>3 DEF Stops
<1>2. UNCHANGED <<policyVars, fieldVars, coVars, displaced, threadVars, serviceDestroyed>>
      /\ stopSelfCalled' \in BOOLEAN
  <2>1. UNCHANGED <<policyVars, fieldVars, coVars, displaced, threadVars, serviceDestroyed>>
    BY DEF TeardownStep, TeardownDestroys, TeardownWithoutController, TeardownConfirmed,
        TeardownUnresolved, Complete, serviceVars
  <2>2. stopSelfCalled' \in BOOLEAN
    BY DEF TeardownStep, TeardownDestroys, TeardownWithoutController, TeardownConfirmed,
        TeardownUnresolved, Complete, serviceVars, ServiceInv, Flags
  <2> QED BY <2>1, <2>2
<1> DEFINE c == stops[i].target
<1>3. c # 0 => c \in created /\ c \in Sessions
  <2>1. created \subseteq Sessions
    BY DEF ServiceInv, Controllers, Fields, Sessions
  <2>2. c \in {0} \cup created
    BY <1>1
  <2> HIDE DEF c
  <2> QED BY <2>1, <2>2
<1>4. Places /\ Stops /\ Admission /\ Flags /\ Fields /\ Controllers /\ Leases
  BY DEF ServiceInv
<1>5. stopId' \in [Threads -> 0..Len(stops)]
      /\ \A u \in Threads : pc'[u] \in StopLabels => stopId'[u] # 0
  BY <1>2, <1>4 DEF Stops
<1>6. CASE TeardownDestroys(i)
  <2> DEFINE q == [stops[i] EXCEPT !.at = "wait"]
  <2>1. /\ c # 0 /\ DestroyBegins(c) /\ stops' = [stops EXCEPT ![i] = q]
        /\ UNCHANGED serviceVars
    BY <1>6 DEF TeardownDestroys
  <2>2. /\ q \in StopRecord /\ q.at = "wait" /\ q.outcome = stops[i].outcome
        /\ q.session = stops[i].session /\ q.target = c
    BY <1>1 DEF StopRecord
  <2> HIDE DEF q, c
  <2>3. Controllers' /\ Leases' /\ Grows /\ destroyed' = destroyed \cup {c}
    <3>1. owned' \in [Sessions -> {0} \cup created]
      BY <1>2, <1>4 DEF Controllers
    <3> QED BY <1>2, <1>3, <2>1, <3>1, DestroyBeginsKeeps
  <2>4. Flags' /\ Fields'
    <3>1. Fields'
      BY <1>2, <1>4, <2>1 DEF Fields, DestroyBegins, SetPhase
    <3>2. Flags'
      BY <1>2, <1>4, <2>1 DEF Flags, serviceVars, DestroyBegins, SetPhase
    <3> QED BY <3>1, <3>2
  <2>5. Places'
    BY <1>2, <1>4, <2>3 DEF Places, Admitting
  <2>6. Stops'
    <3>1. q.outcome = "NATIVE_CONFIRMED" => q.target \in confirmed'
      BY <1>1, <2>2, <2>3 DEF Grows, c
    <3> QED BY <1>1, <1>2, <1>3, <1>5, <2>1, <2>2, <2>3, <3>1, StopsChange
  <2>7. Admission'
    <3>1. \A s \in Sessions : s # c /\ Held(s) => Held(s)'
      BY <1>4, <2>1 DEF DestroyBegins, SetPhase, Held, Flags
    <3>2. \A s \in Sessions : pc[Co(s)] \in {"launched", "construct"} => s # c
      BY <1>3, <1>4, <2>1 DEF Places
    <3>3. Admitting => sessionGeneration \in Sessions /\ sessionGeneration # c
      BY <1>3, <1>4, <2>1 DEF Places, Fields, Sessions
    <3>4. /\ slotOwner' = slotOwner
          /\ slotAged = FALSE => slotAged' = FALSE
      BY <1>4, <2>1 DEF DestroyBegins, SetPhase, Flags
    <3> QED BY <1>2, <1>4, <2>3, <3>1, <3>2, <3>3, <3>4 DEF Admission, Admitting
  <2> QED BY <2>3, <2>4, <2>5, <2>6, <2>7 DEF ServiceInv
<1>7. CASE TeardownWithoutController(i) \/ TeardownUnresolved(i)
  <2> DEFINE q == [stops[i] EXCEPT !.at = "done", !.outcome = "NATIVE_UNRESOLVED"]
  <2>1. /\ q \in StopRecord /\ q.at = "done" /\ q.outcome = "NATIVE_UNRESOLVED"
        /\ q.session = stops[i].session /\ q.target = c
    BY <1>1 DEF StopRecord, Outcomes
  <2>2. stops' = [stops EXCEPT ![i] = q]
    BY <1>1, <1>7 DEF TeardownWithoutController, TeardownUnresolved, Complete
  <2>3. UNCHANGED <<controllerVars, slotOwner, slotPhase, slotAged>>
        /\ slotExpired' \in BOOLEAN
    BY <1>4, <1>7 DEF TeardownWithoutController, TeardownUnresolved, DestroyTimesOut,
        slotVars, Flags
  <2> HIDE DEF q
  <2>4. Flags'
    BY <1>2, <1>4, <2>3 DEF Flags
  <2>5. Fields' /\ Controllers' /\ Grows
    BY <1>2, <1>4, <2>3 DEF Fields, Controllers, Grows, controllerVars
  <2>6. Places'
    BY <1>2, <1>4, <2>3 DEF Places, Admitting, controllerVars
  <2>7. Leases' /\ Admission'
    BY <1>2, <1>4, <2>3 DEF Leases, Admission, Admitting, Held, controllerVars
  <2>8. Stops'
    BY <1>1, <1>2, <1>5, <2>1, <2>2, <2>5, StopsChange
  <2> QED BY <2>4, <2>5, <2>6, <2>7, <2>8 DEF ServiceInv
<1>8. CASE TeardownConfirmed(i)
  <2> DEFINE q == [stops[i] EXCEPT !.at = "done", !.outcome = "NATIVE_CONFIRMED"]
  <2>1. /\ q \in StopRecord /\ q.at = "done" /\ q.outcome = "NATIVE_CONFIRMED"
        /\ q.session = stops[i].session /\ q.target = c
    BY <1>1 DEF StopRecord, Outcomes
  <2>2. stops' = [stops EXCEPT ![i] = q] /\ DestroyConfirms(c)
    BY <1>1, <1>8 DEF TeardownConfirmed, Complete
  <2>3. c \in destroyed /\ c \in created /\ c \in Sessions
    <3>1. c \in destroyed
      BY <1>1, <1>8 DEF TeardownConfirmed
    <3> HIDE DEF c
    <3>2. destroyed \subseteq created /\ created \subseteq Sessions
      BY <1>4 DEF Controllers, Fields, Sessions
    <3> QED BY <3>1, <3>2
  <2> HIDE DEF q, c
  <2>4. Settles(c)
    BY <2>2, <2>3 DEF Settles
  <2>5. Fields' /\ Controllers' /\ Leases' /\ Admission' /\ Grows
    BY <1>2, <2>3, <2>4, SettleKeeps
  <2>6. Flags'
    BY <1>2, <1>4, <2>3, <2>4, SettleSlot DEF Flags
  <2>7. Places'
    <3>1. UNCHANGED destroyed
      BY <2>3, <2>4, SettleEffect
    <3> QED BY <1>2, <1>4, <3>1 DEF Places, Admitting
  <2>8. Stops'
    <3>1. c \in confirmed'
      BY <2>2 DEF DestroyConfirms
    <3> QED BY <1>1, <1>2, <1>5, <2>1, <2>2, <2>3, <2>5, <3>1, StopsChange
  <2> QED BY <2>5, <2>6, <2>7, <2>8 DEF ServiceInv
<1> QED BY <1>6, <1>7, <1>8 DEF TeardownStep

\* onDestroy: a last teardown, of the controller in the field.
LEMMA OnDestroyKeeps ==
    ASSUME ServiceInv, OnDestroy
    PROVE  ServiceInv'
<1> USE DEF policyVars, threadVars
<1> DEFINE r == [session |-> 0, by |-> 0, target |-> controller,
                 at |-> "destroy", outcome |-> "none"]
<1>1. /\ serviceDestroyed' = TRUE /\ cancelled' = Sessions
      /\ connectionJob' = 0 /\ controller' = 0 /\ stops' = Append(stops, r)
      /\ UNCHANGED <<policyVars, connectingStamp, coVars, controllerVars, slotVars,
                     displaced, threadVars, stopSelfCalled>>
  BY DEF OnDestroy
<1>2. Places /\ Stops /\ Admission /\ Flags /\ Fields /\ Controllers /\ Leases
  BY DEF ServiceInv
<1>3. /\ r \in StopRecord /\ r.session = 0 /\ r.target = controller
      /\ r.at = "destroy" /\ r.outcome = "none"
  BY <1>2 DEF StopRecord, Outcomes, Controllers, Fields
<1> HIDE DEF r
<1>4. Flags'
  BY <1>1, <1>2 DEF Flags, slotVars
<1>5. Fields' /\ Controllers' /\ Grows
  BY <1>1, <1>2 DEF Fields, Controllers, Grows, coVars, controllerVars, slotVars
<1>6. Places'
  BY <1>1, <1>2 DEF Places, Admitting, coVars, controllerVars
<1>7. Leases' /\ Admission'
  BY <1>1, <1>2 DEF Leases, Admission, Admitting, Held, coVars, controllerVars, slotVars
<1>8. Stops'
  <2>1. controller \in {0} \cup created /\ 0 <= sessionGeneration
    BY <1>2 DEF Controllers, Fields
  <2>2. Len(stops) \in Nat /\ stopId \in [Threads -> 0..Len(stops)]
    <3>1. stops \in Seq(StopRecord)
      BY <1>2 DEF Stops
    <3> QED BY <1>2, <3>1 DEF Stops
  <2>3. 0..Len(stops) \subseteq 0..(Len(stops) + 1)
    BY <2>2
  <2>4. stopId' \in [Threads -> 0..(Len(stops) + 1)]
    BY <1>1, <2>2, <2>3
  <2>5. \A u \in Threads : pc'[u] \in StopLabels => stopId'[u] # 0
    BY <1>1, <1>2 DEF Stops
  <2> QED BY <1>1, <1>3, <1>5, <2>1, <2>4, <2>5, StopsGrow
<1> QED BY <1>4, <1>5, <1>6, <1>7, <1>8 DEF ServiceInv

-----------------------------------------------------------------------------
(* The records of stopVpn's calls.                                         *)

\* Every step that is not one of stopVpn, a teardown or onDestroy.
OtherStep ==
    \/ StartStep
    \/ UserDisconnect
    \/ \E s \in Sessions : CoStep(s)
    \/ \E s \in Sessions : RepBegin(s) \/ RepReinstall(s) \/ RepFails(s)
    \/ \E t \in Threads : ErrorAccepted(t) \/ ErrorIgnored(t)

\* Only stopVpn and its teardowns touch the records, and a thread enters
\* stopVpn with a record of its own.
LEMMA OthersLeaveStops ==
    ASSUME ServiceInv, OtherStep
    PROVE  /\ UNCHANGED <<stops, stopId>>
           /\ \A t \in Threads : pc'[t] \in StopLabels => pc[t] \in StopLabels
<1> USE DEF StopLabels
<1>0. pc \in [Threads -> Labels]
  BY DEF ServiceInv, Places
<1>1. CASE StartStep \/ UserDisconnect
  BY <1>0, <1>1, ThreadFacts DEF StartStep, UserDisconnect, AbandonWedged, GateAccepts,
      GateRefuses, AcquireSlot, NativeBusy, ClaimTun, LaunchConnect, Goto
<1>2. ASSUME NEW s \in Sessions, CoStep(s)
      PROVE  /\ UNCHANGED <<stops, stopId>>
             /\ \A t \in Threads : pc'[t] \in StopLabels => pc[t] \in StopLabels
  <2>1. CASE CoStart(s) \/ CoConstructFails(s) \/ CoNoController(s) \/ CoConnectRefused(s)
          \/ CoNativeReturns(s) \/ CoFailed(s) \/ CoReturned(s)
    BY <1>0, <2>1 DEF CoStart, CoConstructFails, CoNoController, CoConnectRefused,
        CoNativeReturns, CoFailed, CoReturned, CoOnly, Goto
  <2>2. CASE CoConstruct(s) \/ CoEnterNative(s) \/ CoRunning(s) \/ CoUnclaimed(s)
    BY <1>0, <2>2 DEF CoConstruct, CoEnterNative, CoRunning, CoUnclaimed, Goto
  <2>3. CASE CoNativeFails(s) \/ CoInstall(s) \/ CoInstallFails(s) \/ CoCancelDestroy(s)
    BY <1>0, <2>3 DEF CoNativeFails, CoInstall, CoInstallFails, CoCancelDestroy, Goto
  <2>4. CASE CoCancelled(s)
    BY <1>0, <2>4 DEF CoCancelled, Goto
  <2> QED BY <1>2, <2>1, <2>2, <2>3, <2>4 DEF CoStep
<1>3. ASSUME NEW s \in Sessions, RepBegin(s) \/ RepReinstall(s) \/ RepFails(s)
      PROVE  /\ UNCHANGED <<stops, stopId>>
             /\ \A t \in Threads : pc'[t] \in StopLabels => pc[t] \in StopLabels
  BY <1>0, <1>3 DEF RepBegin, RepReinstall, RepFails, Goto
<1>4. ASSUME NEW t \in Threads, ErrorAccepted(t) \/ ErrorIgnored(t)
      PROVE  /\ UNCHANGED <<stops, stopId>>
             /\ \A u \in Threads : pc'[u] \in StopLabels => pc[u] \in StopLabels
  BY <1>0, <1>4 DEF ErrorAccepted, ErrorIgnored, AfterError, CoOnly, Goto
<1> QED BY <1>1, <1>2, <1>3, <1>4 DEF OtherStep

\* What a record is about never changes.
LEMMA StopEdits ==
    ASSUME ServiceInv,
           NEW i \in 1..Len(stops),
           \/ TeardownStep(i)
           \/ \E t \in Threads : /\ i = stopId[t]
                                 /\ StopTake(t) \/ StopReentrant(t) \/ StopRelease(t)
    PROVE  \E r \in StopRecord :
              /\ stops' = [stops EXCEPT ![i] = r]
              /\ r.session = stops[i].session /\ r.by = stops[i].by
<1>1. stops \in Seq(StopRecord) /\ stops[i] \in StopRecord
  <2>1. stops \in Seq(StopRecord)
    BY DEF ServiceInv, Stops
  <2> QED BY <2>1
<1>2. CASE \E t \in Threads : i = stopId[t] /\ StopTake(t)
  <2> DEFINE r == [stops[i] EXCEPT !.target = controller]
  <2>1. controller \in 0..MaxSessions
    BY DEF ServiceInv, Controllers, Fields
  <2>2. r \in StopRecord /\ r.session = stops[i].session /\ r.by = stops[i].by
    BY <1>1, <2>1 DEF StopRecord
  <2>3. stops' = [stops EXCEPT ![i] = r]
    BY <1>1, <1>2 DEF StopTake
  <2> QED BY <2>2, <2>3
<1>3. CASE (\E t \in Threads : i = stopId[t] /\ StopRelease(t)) \/ TeardownDestroys(i)
  <2>1. PICK a \in {"destroy", "wait"} : stops' = [stops EXCEPT ![i].at = a]
    BY <1>3 DEF StopRelease, TeardownDestroys
  <2> DEFINE r == [stops[i] EXCEPT !.at = a]
  <2>2. r \in StopRecord /\ r.session = stops[i].session /\ r.by = stops[i].by
    BY <1>1 DEF StopRecord
  <2>3. stops' = [stops EXCEPT ![i] = r]
    BY <1>1, <2>1
  <2> QED BY <2>2, <2>3
<1>4. CASE \/ \E t \in Threads : i = stopId[t] /\ StopReentrant(t)
           \/ TeardownWithoutController(i) \/ TeardownConfirmed(i) \/ TeardownUnresolved(i)
  <2>1. PICK o \in Outcomes :
          stops' = [stops EXCEPT ![i].at = "done", ![i].outcome = o]
    BY <1>4 DEF StopReentrant, TeardownWithoutController, TeardownConfirmed,
        TeardownUnresolved, Complete, Outcomes
  <2> DEFINE r == [stops[i] EXCEPT !.at = "done", !.outcome = o]
  <2>2. r \in StopRecord /\ r.session = stops[i].session /\ r.by = stops[i].by
    BY <1>1 DEF StopRecord
  <2>3. stops' = [stops EXCEPT ![i] = r]
    BY <1>1, <2>1
  <2> QED BY <2>2, <2>3
<1> QED BY <1>2, <1>3, <1>4 DEF TeardownStep

\* No step gives a call's record to another thread or starts its teardown
\* before the call is through.
LEMMA StopCallsKept ==
    ASSUME ServiceInv, StopCalls, Next
    PROVE  StopCalls'
<1>0. Stops /\ Places
  BY DEF ServiceInv
<1>1. /\ stops \in Seq(StopRecord) /\ Len(stops) \in Nat
      /\ stopId \in [Threads -> 0..Len(stops)] /\ pc \in [Threads -> Labels]
      /\ \A t \in Threads : pc[t] \in StopLabels => stopId[t] \in 1..Len(stops)
  <2>1. stops \in Seq(StopRecord) /\ stopId \in [Threads -> 0..Len(stops)]
    BY <1>0 DEF Stops
  <2>2. Len(stops) \in Nat
    BY <2>1
  <2>3. \A t \in Threads : pc[t] \in StopLabels => stopId[t] \in 1..Len(stops)
    BY OwnStop
  <2> QED BY <1>0, <2>1, <2>2, <2>3 DEF Places
<1>2. CASE OtherStep
  BY <1>2, OthersLeaveStops DEF StopCalls
<1>3. ASSUME NEW t \in Threads, StopBegin(t) PROVE StopCalls'
  <2> DEFINE r == [session |-> sessionGeneration, by |-> t[2], target |-> 0,
                   at |-> "stopping", outcome |-> "none"]
             n == Len(stops) + 1
  <2>1. /\ stops' = Append(stops, r) /\ stopId' = [stopId EXCEPT ![t] = n]
        /\ pc' = [pc EXCEPT ![t] = "stopDecide"]
        /\ r.at = "stopping" /\ r.outcome = "none"
    BY <1>3 DEF StopBegin, Goto
  <2>2. r \in StopRecord
    BY ThreadSession DEF StopRecord, Outcomes, ServiceInv, Fields
  <2>3. n \notin 0..Len(stops)
    BY <1>1
  <2> HIDE DEF r
  <2>4. stops'[n] = r /\ \A i \in 1..Len(stops) : stops'[i] = stops[i]
    BY <1>1, <2>1, <2>2
  <2> HIDE DEF n
  <2>5. /\ stopId'[t] = n
        /\ \A u \in Threads \ {t} : stopId'[u] = stopId[u] /\ pc'[u] = pc[u]
    BY <1>1, <2>1
  <2>6. \A u \in Threads \ {t} : pc'[u] \in StopLabels => stopId'[u] \in 1..Len(stops)
    BY <1>1, <2>5
  <2>7. n \notin 1..Len(stops)
    BY <1>1, <2>3
  <2>8. ASSUME NEW u \in Threads, pc'[u] \in StopLabels
        PROVE  stops'[stopId'[u]].at = "stopping" /\ stops'[stopId'[u]].outcome = "none"
    <3>1. CASE u = t
      BY <2>1, <2>4, <2>5, <3>1
    <3>2. CASE u # t
      <4>1. stops'[stopId'[u]] = stops[stopId[u]] /\ pc[u] \in StopLabels
        BY <2>4, <2>5, <2>6, <2>8, <3>2
      <4> QED BY <4>1 DEF StopCalls
    <3> QED BY <3>1, <3>2
  <2>9. \A u, v \in Threads :
          pc'[u] \in StopLabels /\ pc'[v] \in StopLabels /\ stopId'[u] = stopId'[v] => u = v
    BY <2>5, <2>6, <2>7 DEF StopCalls
  <2> QED BY <2>8, <2>9 DEF StopCalls
<1>4. ASSUME NEW t \in Threads, StopDecide(t) PROVE StopCalls'
  <2>1. /\ UNCHANGED <<stops, stopId>>
        /\ \A u \in Threads : pc'[u] \in StopLabels => pc[u] \in StopLabels
    BY <1>1, <1>4 DEF StopDecide, Goto, StopLabels
  <2> QED BY <2>1 DEF StopCalls
<1>5. ASSUME NEW t \in Threads, StopTake(t) PROVE StopCalls'
  <2>1. /\ stops' = [stops EXCEPT ![stopId[t]].target = controller]
        /\ UNCHANGED stopId
        /\ pc[t] \in StopLabels
        /\ \A u \in Threads : pc'[u] \in StopLabels => pc[u] \in StopLabels
    BY <1>1, <1>5 DEF StopTake, Goto, StopLabels
  <2>2. stopId[t] \in 1..Len(stops) /\ \A i \in 1..Len(stops) : stops[i] \in StopRecord
    BY <1>1, <2>1
  <2>3. \A i \in 1..Len(stops) :
          stops'[i].at = stops[i].at /\ stops'[i].outcome = stops[i].outcome
    BY <1>1, <2>1, <2>2 DEF StopRecord
  <2> QED BY <1>1, <2>1, <2>3 DEF StopCalls
<1>6. ASSUME NEW t \in Threads, StopReentrant(t) \/ StopRelease(t) PROVE StopCalls'
  <2>1. /\ stopId' = [stopId EXCEPT ![t] = 0] /\ pc' = [pc EXCEPT ![t] = back[t]]
        /\ pc[t] \in StopLabels /\ back[t] \notin StopLabels
    <3>1. back[t] \in {"idle", "returned", "unclaimed"}
      BY <1>0 DEF Places
    <3> QED BY <1>6, <3>1 DEF StopReentrant, StopRelease, StopReturns, Goto, StopLabels
  <2>2. stopId[t] \in 1..Len(stops)
    BY <1>1, <2>1
  <2>3. PICK r \in StopRecord : stops' = [stops EXCEPT ![stopId[t]] = r]
    BY <1>6, <2>2, StopEdits
  <2>4. \A j \in 1..Len(stops) : j # stopId[t] => stops'[j] = stops[j]
    BY <1>1, <2>3
  <2>5. pc'[t] \notin StopLabels
        /\ \A u \in Threads \ {t} : pc'[u] = pc[u] /\ stopId'[u] = stopId[u]
    BY <1>1, <2>1
  <2> QED BY <1>1, <2>1, <2>4, <2>5 DEF StopCalls
<1>7. ASSUME NEW i \in DOMAIN stops, TeardownStep(i) PROVE StopCalls'
  <2>1. i \in 1..Len(stops) /\ UNCHANGED <<stopId, pc>>
    BY <1>1, <1>7 DEF TeardownStep, TeardownDestroys, TeardownWithoutController,
        TeardownConfirmed, TeardownUnresolved, threadVars
  <2>2. stops[i].at # "stopping"
    BY <1>7 DEF TeardownStep, TeardownDestroys, TeardownWithoutController,
        TeardownConfirmed, TeardownUnresolved
  <2>3. PICK r \in StopRecord : stops' = [stops EXCEPT ![i] = r]
    BY <1>7, <2>1, StopEdits
  <2>4. \A j \in 1..Len(stops) : j # i => stops'[j] = stops[j]
    BY <1>1, <2>3
  <2> QED BY <1>1, <2>1, <2>2, <2>4 DEF StopCalls
<1>8. CASE OnDestroy
  <2> DEFINE r == [session |-> 0, by |-> 0, target |-> controller,
                   at |-> "destroy", outcome |-> "none"]
  <2>1. stops' = Append(stops, r) /\ UNCHANGED <<stopId, pc>>
    BY <1>8 DEF OnDestroy, threadVars
  <2> HIDE DEF r
  <2>2. \A i \in 1..Len(stops) : stops'[i] = stops[i]
    BY <1>1, <2>1
  <2> QED BY <1>1, <2>1, <2>2 DEF StopCalls
<1> QED BY <1>2, <1>3, <1>4, <1>5, <1>6, <1>7, <1>8 DEF Next, OtherStep, StopStep

-----------------------------------------------------------------------------
(* The invariant. *)

\* The service starts with no session.
LEMMA ServiceInit == Init => ServiceInv /\ StopCalls
<1> SUFFICES ASSUME Init PROVE ServiceInv /\ StopCalls
  OBVIOUS
<1> USE DEF Init, PolicyInit
<1>1. \A t \in Threads : pc[t] = "idle" /\ back[t] = "idle" /\ stopId[t] = 0
  OBVIOUS
<1>2. Flags /\ Fields /\ Controllers
  <2>1. Flags
    BY DEF Flags
  <2>2. Fields
    BY DEF Fields
  <2>3. Controllers
    BY DEF Controllers
  <2> QED BY <2>1, <2>2, <2>3
<1>3. Places
  BY <1>1, ThreadFacts DEF Places, Labels, Admitting, InConnect, StopLabels, MainLabels,
      RepLabels
<1>4. Stops /\ StopCalls
  <2>1. stops \in Seq(StopRecord) /\ Len(stops) = 0 /\ 1..Len(stops) = {}
    OBVIOUS
  <2>2. stopId \in [Threads -> 0..Len(stops)]
    BY <2>1
  <2> QED BY <1>1, <2>1, <2>2 DEF Stops, StopCalls, StopLabels
<1>5. Leases /\ Admission
  <2>1. 1..sessionGeneration = {} /\ confirmed = {}
    OBVIOUS
  <2> QED BY <1>1, <2>1, ThreadFacts DEF Leases, Admission, Admitting
<1> QED BY <1>2, <1>3, <1>4, <1>5 DEF ServiceInv

\* Every step keeps the invariant.
LEMMA ServiceStep ==
    ASSUME ServiceInv, StopCalls, Next
    PROVE  ServiceInv'
<1>1. CASE StartStep \/ UserDisconnect
  BY <1>1, MainMoves, AbandonKeeps, AcquireKeeps, LaunchKeeps DEF StartStep
<1>2. ASSUME NEW s \in Sessions, CoStep(s) PROVE ServiceInv'
  BY <1>2, CoMoves, ConstructKeeps, EnterKeeps, FlowKeeps, CancelKeeps, UnclaimedKeeps
      DEF CoStep
<1>3. ASSUME NEW s \in Sessions, RepBegin(s) \/ RepReinstall(s) \/ RepFails(s)
      PROVE  ServiceInv'
  BY <1>3, RepBeginKeeps, FlowKeeps
<1>4. ASSUME NEW t \in Threads, ErrorAccepted(t) \/ ErrorIgnored(t) \/ StopStep(t)
      PROVE  ServiceInv'
  BY <1>4, ErrorKeeps, StopBeginKeeps, StopDecideKeeps, StopTakeKeeps, StopReturnsKeeps
      DEF StopStep
<1>5. ASSUME NEW i \in DOMAIN stops, TeardownStep(i) PROVE ServiceInv'
  BY <1>5, TeardownKeeps
<1>6. CASE OnDestroy
  BY <1>6, OnDestroyKeeps
<1> QED BY <1>1, <1>2, <1>3, <1>4, <1>5, <1>6 DEF Next

\* So does every step of something else.
LEMMA ServiceStutters ==
    ASSUME ServiceInv, StopCalls, UNCHANGED vars
    PROVE  ServiceInv' /\ StopCalls'
<1> USE DEF vars, policyVars, fieldVars, coVars, controllerVars, slotVars, threadVars,
            serviceVars
<1>1. Flags'
  BY DEF ServiceInv, Flags
<1>2. Fields' /\ Controllers'
  BY DEF ServiceInv, Fields, Controllers
<1>3. Places'
  BY DEF ServiceInv, Places, Admitting
<1>4. Stops' /\ StopCalls'
  BY DEF ServiceInv, Stops, StopCalls
<1>5. Leases' /\ Admission'
  BY DEF ServiceInv, Leases, Admission, Admitting, Held
<1> QED BY <1>1, <1>2, <1>3, <1>4, <1>5 DEF ServiceInv

\* The invariant holds throughout.
LEMMA ServiceInvariant == Spec => [](ServiceInv /\ StopCalls)
<1>1. ServiceInv /\ StopCalls /\ [Next]_vars => (ServiceInv /\ StopCalls)'
  BY ServiceStep, StopCallsKept, ServiceStutters
<1> QED BY <1>1, ServiceInit, PTL DEF Spec

\* The service's state keeps its types: the fields name sessions that started,
\* and only a created controller is destroyed or confirmed.
THEOREM ServiceTypes == Spec => []TypeOK
<1>1. ServiceInv => TypeOK
  <2> SUFFICES ASSUME ServiceInv PROVE TypeOK
    OBVIOUS
  <2>1. Flags /\ Fields /\ Controllers /\ Places /\ Stops
    BY DEF ServiceInv
  <2>2. /\ isStopping \in BOOLEAN /\ isRunning \in BOOLEAN /\ connectingStamp \in BOOLEAN
        /\ slotExpired \in BOOLEAN /\ slotAged \in BOOLEAN
        /\ stopSelfCalled \in BOOLEAN /\ serviceDestroyed \in BOOLEAN
    BY <2>1 DEF Flags
  <2>3. created \subseteq 1..sessionGeneration /\ created \subseteq Sessions
    BY <2>1 DEF Controllers, Fields, Sessions
  <2>4. /\ sessionGeneration \in 0..MaxSessions /\ connectionJob \in 0..sessionGeneration
        /\ cancelled \subseteq Sessions /\ slotOwner \in 0..MaxSessions
        /\ slotPhase \in {"RESERVED", "CONNECTING", "CONNECTED", "TEARDOWN"}
        /\ displaced \subseteq Sessions
    BY <2>1 DEF Fields
  <2>5. /\ controller \in 0..sessionGeneration /\ owned \in [Sessions -> 0..MaxSessions]
        /\ destroyed \subseteq created /\ confirmed \subseteq destroyed
        /\ native \in [Sessions -> {"none", "in", "up"}]
    <3>1. /\ {0} \cup created \subseteq 0..MaxSessions
          /\ {0} \cup created \subseteq 0..sessionGeneration
      BY <2>3, <2>4 DEF Sessions
    <3> QED BY <2>1, <3>1 DEF Controllers
  <2>6. \A i \in DOMAIN stops : stops[i] \in StopRecord
    <3>1. stops \in Seq(StopRecord)
      BY <2>1 DEF Stops
    <3> QED BY <3>1
  <2>7. \A i \in DOMAIN stops :
          /\ stops[i].session \in 0..MaxSessions
          /\ stops[i].by \in 0..MaxSessions
          /\ stops[i].target \in 0..MaxSessions
          /\ stops[i].at \in {"stopping", "destroy", "wait", "done"}
          /\ stops[i].outcome \in Outcomes
    BY <2>6 DEF StopRecord
  <2>8. /\ stopId \in [Threads -> 0..Len(stops)] /\ pc \in [Threads -> Labels]
        /\ back \in [Threads -> {"idle", "returned", "unclaimed"}]
    BY <2>1 DEF Stops, Places
  <2> QED BY <2>2, <2>3, <2>4, <2>5, <2>7, <2>8 DEF TypeOK
<1> QED BY <1>1, ServiceInvariant, PTL

\* Two sessions are in native code at the same time only if the registry took
\* the slot away from one of them, however stops, errors, cancelled coroutines
\* and reconnects interleave with new starts.
THEOREM NativeAttemptsAreExclusive == Spec => []SingleNativeAttempt
<1>1. ServiceInv => SingleNativeAttempt
  <2> SUFFICES ASSUME ServiceInv, NEW s \in Sessions, NEW u \in Sessions, s # u,
                      native[s] # "none", native[u] # "none"
               PROVE  s \in displaced \/ u \in displaced
    BY DEF SingleNativeAttempt
  <2>1. ASSUME NEW v \in Sessions, native[v] # "none" PROVE slotOwner = v \/ v \in displaced
    <3>1. v \in created /\ v \in 1..sessionGeneration /\ v \notin confirmed
      BY <2>1 DEF ServiceInv, Controllers, Leases
    <3> QED BY <3>1 DEF ServiceInv, Leases
  <2> QED BY <2>1
<1> QED BY <1>1, ServiceInvariant, PTL

\* A teardown that reported NATIVE_CONFIRMED stays right: its controller never
\* enters native code again and never holds the slot again.
THEOREM ConfirmationsAreTrue == Spec => []CompletionsAreTrue
<1>1. ServiceInv => CompletionsAreTrue
  <2> SUFFICES ASSUME ServiceInv, NEW i \in DOMAIN stops,
                      stops[i].outcome = "NATIVE_CONFIRMED"
               PROVE  native[stops[i].target] = "none" /\ slotOwner # stops[i].target
    BY DEF CompletionsAreTrue
  <2>1. Stops /\ Leases
    BY DEF ServiceInv
  <2>2. i \in 1..Len(stops)
    <3>1. stops \in Seq(StopRecord)
      BY <2>1 DEF Stops
    <3> QED BY <3>1
  <2>3. stops[i].target \in confirmed
    BY <2>1, <2>2 DEF Stops
  <2> QED BY <2>1, <2>3 DEF Leases
<1> QED BY <1>1, ServiceInvariant, PTL

\* A start that was admitted launches over no other session's job or live
\* controller: whoever could have put one there since decideStart held the
\* slot.
THEOREM StartsOrphanNobody == Spec => AdmissionOrphansNobody
<1> DEFINE Orphans == pc[Main] = "launch" /\ pc'[Main] = "idle"
                        => connectionJob = 0 /\ controller \in {0} \cup destroyed
<1>1. ServiceInv => Orphans
  BY DEF ServiceInv, Admission, Admitting
<1>2. ServiceInv /\ StopCalls /\ [Next]_vars => [Orphans]_vars
  BY <1>1
<1> HIDE DEF Orphans
<1>3. Spec => [][Orphans]_vars
  BY <1>2, ServiceInvariant, PTL DEF Spec
<1> QED BY <1>3 DEF AdmissionOrphansNobody, Orphans

-----------------------------------------------------------------------------
(* The TUN coordinator. *)

\* The coordinator's current session changes when ownership is claimed, not
\* when the session starts.
LEMMA CurrentMoves ==
    ASSUME ServiceInv, Next
    PROVE  \/ ClaimTun
           \/ AcquireSlot
           \/ /\ UNCHANGED sessionGeneration
              /\ pc'[Main] = "claim" <=> pc[Main] = "claim"
<1> USE DEF policyVars
<1>0. /\ pc \in [Threads -> Labels] /\ back[Main] = "idle"
  BY DEF ServiceInv, Places
<1>1. CASE StartStep \/ UserDisconnect
  BY <1>0, <1>1, ThreadFacts DEF StartStep, UserDisconnect, AbandonWedged, GateAccepts,
      GateRefuses, NativeBusy, LaunchConnect, Goto
<1>2. ASSUME NEW s \in Sessions, CoStep(s)
      PROVE  UNCHANGED sessionGeneration /\ pc'[Main] = pc[Main]
  <2> USE ThreadFacts, <1>0
  <2>1. CASE CoStart(s) \/ CoConstructFails(s) \/ CoNoController(s) \/ CoConnectRefused(s)
          \/ CoNativeReturns(s) \/ CoFailed(s) \/ CoReturned(s)
    BY <2>1 DEF CoStart, CoConstructFails, CoNoController, CoConnectRefused,
        CoNativeReturns, CoFailed, CoReturned, CoOnly, Goto
  <2>2. CASE CoConstruct(s) \/ CoEnterNative(s) \/ CoRunning(s) \/ CoUnclaimed(s)
    BY <2>2 DEF CoConstruct, CoEnterNative, CoRunning, OnRunning, CoUnclaimed, Goto
  <2>3. CASE CoNativeFails(s) \/ CoInstall(s) \/ CoInstallFails(s) \/ CoCancelDestroy(s)
    BY <2>3 DEF CoNativeFails, CoInstall, CoInstallFails, CoCancelDestroy, Goto
  <2>4. CASE CoCancelled(s)
    BY <2>4 DEF CoCancelled, Goto
  <2> QED BY <1>2, <2>1, <2>2, <2>3, <2>4 DEF CoStep
<1>3. ASSUME NEW s \in Sessions, RepBegin(s) \/ RepReinstall(s) \/ RepFails(s)
      PROVE  UNCHANGED sessionGeneration /\ pc'[Main] = pc[Main]
  BY <1>0, <1>3, ThreadFacts DEF RepBegin, RepReinstall, RepFails, Goto
<1>4. ASSUME NEW t \in Threads, ErrorAccepted(t) \/ ErrorIgnored(t)
      PROVE  UNCHANGED sessionGeneration /\ pc'[Main] = pc[Main]
  <2>1. t # Main
    BY <1>4 DEF ErrorAccepted, ErrorIgnored, ErrorLabels, ServiceInv, Places, MainLabels,
        StopLabels
  <2> QED BY <1>0, <1>4, <2>1, ThreadFacts DEF ErrorAccepted, ErrorIgnored, CoOnly, Goto
<1>5. ASSUME NEW t \in Threads, StopStep(t)
      PROVE  UNCHANGED sessionGeneration /\ (pc'[Main] = "claim" <=> pc[Main] = "claim")
  <2>1. CASE StopBegin(t) \/ StopTake(t)
    BY <1>0, <2>1, ThreadFacts DEF StopBegin, StopTake, Goto
  <2>2. CASE StopDecide(t)
    BY <1>0, <2>2, ThreadFacts DEF StopDecide, BeginTeardown, Goto
  <2>3. CASE StopReentrant(t) \/ StopRelease(t)
    BY <1>0, <2>3, ThreadFacts DEF StopReentrant, StopRelease, StopReturns, Goto
  <2> QED BY <1>5, <2>1, <2>2, <2>3 DEF StopStep
<1>6. ASSUME NEW i \in DOMAIN stops, TeardownStep(i)
      PROVE  UNCHANGED sessionGeneration /\ pc'[Main] = pc[Main]
  BY <1>6 DEF TeardownStep, TeardownDestroys, TeardownWithoutController, TeardownConfirmed,
      TeardownUnresolved, threadVars
<1>7. CASE OnDestroy
  BY <1>7 DEF OnDestroy, threadVars
<1> QED BY <1>1, <1>2, <1>3, <1>4, <1>5, <1>6, <1>7 DEF Next

\* What the service asks of the coordinator: never on behalf of a session that
\* has not claimed the TUN.
TunCall ==
    \/ UNCHANGED tunVars
    \/ \E s \in {0} \cup Sessions :
          /\ s <= Current
          /\ Tun!Invalidate(s) \/ Tun!Install(s) \/ Tun!InstallFails(s) \/ Tun!Release(s)
    \/ Tun!ReleaseAll
    \/ \E d \in openTuns : Tun!CloseReference(d)

\* The callers: a controller's own session, a stop's session, and the current
\* one.  A stop of a session that is not claimed yet changes nothing.
LEMMA TunCalls ==
    ASSUME ServiceInv, Coordinator!IInv, Next, ~ClaimTun
    PROVE  TunCall
<1>0. Fields /\ Controllers /\ Places /\ Stops
  BY DEF ServiceInv
<1>1. /\ Current \in 0..MaxSessions /\ installer \in 0..Current
      /\ descriptorOwner \in 0..Current
      /\ Current \in {sessionGeneration, sessionGeneration - 1}
      /\ pc[Main] # "claim" => Current = sessionGeneration
      /\ sessionGeneration \in 0..MaxSessions
  BY <1>0 DEF Coordinator!IInv, Coordinator!TypeOK, Current, Fields
<1>2. ASSUME NEW s \in created PROVE s \in Sessions /\ s <= Current
  <2>1. s \in 1..sessionGeneration /\ s \in Sessions
    BY <1>0, <1>2 DEF Controllers, Fields, Sessions
  <2>2. CASE pc[Main] = "claim"
    <3>1. Admitting
      BY <2>2 DEF Admitting
    <3>2. sessionGeneration \in Sessions /\ sessionGeneration \notin created
      BY <1>0, <3>1 DEF Places, Fields, Sessions
    <3>3. s # sessionGeneration
      BY <1>2, <3>2
    <3>4. s <= sessionGeneration - 1
      BY <1>1, <2>1, <3>3
    <3> QED BY <2>1, <2>2, <3>4 DEF Current
  <2>3. CASE pc[Main] # "claim"
    BY <1>1, <2>1, <2>3
  <2> QED BY <2>2, <2>3
<1>3. ASSUME NEW s \in Sessions, CloseOwn(s) PROVE TunCall
  BY <1>3 DEF CloseOwn, TunCall
<1>4. ASSUME NEW s \in Sessions, Tun!Install(s) \/ Tun!InstallFails(s) PROVE TunCall
  <2>1. s <= Current
    BY <1>1, <1>4 DEF Tun!Install, Tun!InstallFails, Tun!MayInstall
  <2> QED BY <1>4, <2>1 DEF TunCall
<1>5. ASSUME NEW s \in 0..sessionGeneration, Tun!Release(s) PROVE TunCall
  <2>1. CASE s = descriptorOwner
    <3>1. s <= Current /\ s \in {0} \cup Sessions
      BY <1>1, <2>1 DEF Sessions
    <3> QED BY <1>5, <3>1 DEF TunCall
  <2>2. CASE s # descriptorOwner
    BY <1>5, <2>2 DEF TunCall, Tun!Release, Tun!tunVars, tunVars
  <2> QED BY <2>1, <2>2
<1>6. CASE StartStep \/ UserDisconnect
  <2>1. CASE AbandonWedged
    <3>1. sessionGeneration \in 0..sessionGeneration
      BY <1>1
    <3> QED BY <1>5, <2>1, <3>1 DEF AbandonWedged
  <2>2. CASE ~AbandonWedged
    <3>1. UNCHANGED tunVars
      BY <1>6, <2>2 DEF StartStep, UserDisconnect, GateAccepts, GateRefuses, AcquireSlot,
          NativeBusy, LaunchConnect
    <3> QED BY <3>1 DEF TunCall
  <2> QED BY <2>1, <2>2
<1>7. ASSUME NEW s \in Sessions, CoStep(s) PROVE TunCall
  <2>1. CASE CoInstall(s)
    BY <1>4, <2>1 DEF CoInstall
  <2>2. CASE CoInstallFails(s)
    BY <1>4, <2>2 DEF CoInstallFails, TunCall
  <2>3. CASE CoCancelled(s)
    <3>1. CASE UNCHANGED tunVars
      BY <3>1 DEF TunCall
    <3>2. CASE controller # 0 /\ DestroyBegins(controller)
      <4>1. controller \in Sessions
        BY <1>0, <1>2, <3>2 DEF Controllers
      <4> QED BY <1>3, <3>2, <4>1 DEF DestroyBegins
    <3> QED BY <2>3, <3>1, <3>2 DEF CoCancelled
  <2>4. CASE CoStart(s) \/ CoConstructFails(s) \/ CoNoController(s) \/ CoConnectRefused(s)
          \/ CoNativeReturns(s) \/ CoFailed(s) \/ CoReturned(s)
    <3>1. UNCHANGED CoOnly
      BY <2>4 DEF CoStart, CoConstructFails, CoNoController, CoConnectRefused,
        CoNativeReturns, CoFailed, CoReturned
    <3> QED BY <3>1 DEF TunCall, CoOnly
  <2>5. CASE CoConstruct(s) \/ CoEnterNative(s) \/ CoRunning(s) \/ CoUnclaimed(s)
          \/ CoNativeFails(s) \/ CoCancelDestroy(s)
    <3>1. UNCHANGED tunVars
      BY <2>5 DEF CoConstruct, CoEnterNative, CoRunning, CoUnclaimed, CoNativeFails,
          CoCancelDestroy
    <3> QED BY <3>1 DEF TunCall
  <2> QED BY <1>7, <2>1, <2>2, <2>3, <2>4, <2>5 DEF CoStep
<1>8. ASSUME NEW s \in Sessions, RepBegin(s) \/ RepReinstall(s) \/ RepFails(s)
      PROVE  TunCall
  <2>1. CASE RepBegin(s)
    BY <1>3, <2>1 DEF RepBegin
  <2>2. CASE RepReinstall(s)
    BY <1>4, <2>2 DEF RepReinstall
  <2>3. CASE RepFails(s)
    <3>1. s <= Current
      <4>1. s \in created
        BY <1>0, <2>3 DEF RepFails, Places
      <4> QED BY <1>2, <4>1
    <3>2. UNCHANGED tunVars \/ Tun!InstallFails(s) \/ Tun!Release(s)
      BY <2>3 DEF RepFails
    <3> QED BY <3>1, <3>2 DEF TunCall
  <2> QED BY <1>8, <2>1, <2>2, <2>3
<1>9. ASSUME NEW t \in Threads, ErrorAccepted(t) \/ ErrorIgnored(t) \/ StopStep(t)
      PROVE  TunCall
  <2>1. CASE StopBegin(t)
    <3>1. Tun!Invalidate(sessionGeneration)
      BY <2>1 DEF StopBegin
    <3>2. CASE sessionGeneration <= Current
      <4>1. sessionGeneration \in {0} \cup Sessions
        BY <1>1 DEF Sessions
      <4> QED BY <3>1, <3>2, <4>1 DEF TunCall
    <3>3. CASE ~(sessionGeneration <= Current)
      <4>1. installer # sessionGeneration
        BY <1>1, <3>3
      <4>2. UNCHANGED <<installer, descriptorOwner, tun, madeBy, openTuns>>
        BY <3>1, <4>1 DEF Tun!Invalidate
      <4>3. revoked' = revoked
        BY <3>1, <4>1 DEF Tun!Invalidate
      <4> QED BY <4>2, <4>3 DEF TunCall, tunVars
    <3> QED BY <3>2, <3>3
  <2>2. CASE StopRelease(t)
    <3>1. Tun!Release(stops[stopId[t]].session) /\ pc[t] \in StopLabels
      BY <2>2 DEF StopRelease, Stop, StopLabels
    <3>2. stopId[t] \in 1..Len(stops) /\ stops[stopId[t]] \in StopRecord
      BY <3>1, OwnStop
    <3>3. stops[stopId[t]].session \in 0..sessionGeneration
      <4>1. stops[stopId[t]].session <= sessionGeneration
        BY <1>0, <3>2 DEF Stops
      <4>2. stops[stopId[t]].session \in Nat
        BY <3>2 DEF StopRecord
      <4> QED BY <1>1, <4>1, <4>2
    <3> QED BY <1>5, <3>1, <3>3
  <2>3. CASE \/ StopReentrant(t) \/ StopDecide(t) \/ StopTake(t)
             \/ ErrorAccepted(t) \/ ErrorIgnored(t)
    <3>1. UNCHANGED tunVars
      BY <2>3 DEF StopReentrant, StopDecide, StopTake, ErrorAccepted, ErrorIgnored, CoOnly
    <3> QED BY <3>1 DEF TunCall
  <2> QED BY <1>9, <2>1, <2>2, <2>3 DEF StopStep
<1>10. ASSUME NEW i \in DOMAIN stops, TeardownStep(i) PROVE TunCall
  <2>1. CASE TeardownDestroys(i)
    <3>1. stops[i].target \in {0} \cup created /\ stops[i].target # 0
      <4>1. i \in 1..Len(stops)
        <5>1. stops \in Seq(StopRecord)
          BY <1>0 DEF Stops
        <5> QED BY <5>1
      <4> QED BY <1>0, <2>1, <4>1 DEF Stops, TeardownDestroys
    <3>2. stops[i].target \in Sessions
      BY <1>2, <3>1
    <3>3. CloseOwn(stops[i].target)
      BY <2>1 DEF TeardownDestroys, DestroyBegins
    <3> QED BY <1>3, <3>2, <3>3
  <2>2. CASE ~TeardownDestroys(i)
    <3>1. UNCHANGED tunVars
      BY <1>10, <2>2 DEF TeardownStep, TeardownWithoutController, TeardownConfirmed,
          TeardownUnresolved
    <3> QED BY <3>1 DEF TunCall
  <2> QED BY <2>1, <2>2
<1>11. CASE OnDestroy
  BY <1>11 DEF OnDestroy, TunCall
<1> QED BY <1>6, <1>7, <1>8, <1>9, <1>10, <1>11 DEF Next

\* Every step of the service is one the coordinator's specification allows.
LEMMA TunSteps ==
    ASSUME ServiceInv, Coordinator!IInv, [Next]_vars
    PROVE  [Tun!Next]_(Tun!vars)
<1>1. CASE UNCHANGED vars
  BY <1>1 DEF vars, tunVars, policyVars, threadVars, Tun!vars, Tun!tunVars
<1>2. CASE Next /\ ClaimTun
  <2>1. /\ pc[Main] = "claim" /\ pc'[Main] = "launch" /\ UNCHANGED sessionGeneration
        /\ Tun!TunClaim(sessionGeneration)
    BY <1>2, ThreadFacts DEF ClaimTun, policyVars, Goto, ServiceInv, Places
  <2>2. sessionGeneration \in 1..MaxSessions
    BY <2>1 DEF ServiceInv, Fields, Places, Admitting
  <2>3. /\ sessionGeneration - 1 < MaxSessions
        /\ sessionGeneration = (sessionGeneration - 1) + 1
    BY <2>2
  <2> QED BY <2>1, <2>3 DEF Tun!Next, Tun!ClaimNext
<1>3. CASE Next /\ ~ClaimTun
  <2>1. Current' = Current
    <3>1. CASE AcquireSlot
      <4>1. /\ pc[Main] = "acquire" /\ pc'[Main] = "claim"
            /\ sessionGeneration' = sessionGeneration + 1
        BY <3>1, ThreadFacts DEF AcquireSlot, OnSessionStart, Goto, ServiceInv, Places
      <4>2. sessionGeneration \in Nat
        BY DEF ServiceInv, Fields
      <4> QED BY <4>1, <4>2 DEF Current
    <3>2. CASE UNCHANGED sessionGeneration /\ (pc'[Main] = "claim" <=> pc[Main] = "claim")
      BY <3>2 DEF Current
    <3> QED BY <1>3, <3>1, <3>2, CurrentMoves
  <2>2. TunCall
    BY <1>3, TunCalls
  <2>3. CASE UNCHANGED tunVars
    BY <2>1, <2>3 DEF tunVars, Tun!vars, Tun!tunVars, Current
  <2>4. CASE ~UNCHANGED tunVars
    BY <2>1, <2>2, <2>4 DEF TunCall, Current, Tun!Next, Tun!Call, Tun!Callers,
        Tun!NO_SESSION, Tun!Sessions, Sessions
  <2> QED BY <2>3, <2>4
<1> QED BY <1>1, <1>2, <1>3

\* So the coordinator's invariant, proved for any client, holds of this one.
LEMMA CoordinatorInit == Init => Tun!Init /\ Coordinator!IInv
<1>1. Init => Tun!Init
  BY ThreadFacts DEF Init, PolicyInit, Tun!Init, Tun!NO_SESSION
<1>2. Tun!Init => Coordinator!Init
  BY DEF Tun!Init, Tun!TunInit, Tun!NO_SESSION, Tun!NoTun, Coordinator!Init,
      Coordinator!TunInit, Coordinator!NO_SESSION, Coordinator!NoTun, Current
<1> QED BY <1>1, <1>2, Coordinator!InitIInv

\* The coordinator's theorem about its own steps applies.
LEMMA CoordinatorStep ==
    ASSUME Coordinator!IInv, [Tun!Next]_(Tun!vars)
    PROVE  Coordinator!IInv'
<1>1. [Coordinator!Next]_(Coordinator!vars)
  BY Zenon DEF Current,
      Tun!Next, Coordinator!Next, Tun!vars, Coordinator!vars, Tun!tunVars,
      Coordinator!tunVars, Tun!ClaimNext, Coordinator!ClaimNext, Tun!Call,
      Coordinator!Call, Tun!ReleaseAll, Coordinator!ReleaseAll,
      Tun!CloseReference, Coordinator!CloseReference, Tun!TunClaim,
      Coordinator!TunClaim, Tun!CloseHeldLocked, Coordinator!CloseHeldLocked,
      Tun!Invalidate, Coordinator!Invalidate, Tun!Install, Coordinator!Install,
      Tun!InstallFails, Coordinator!InstallFails, Tun!Release,
      Coordinator!Release, Tun!MayInstall, Coordinator!MayInstall, Tun!Callers,
      Coordinator!Callers, Tun!Sessions, Coordinator!Sessions, Tun!NO_SESSION,
      Coordinator!NO_SESSION, Tun!NoTun, Coordinator!NoTun
<1> QED BY <1>1, Coordinator!NextIInv

\* Both invariants together.
LEMMA CoordinatorInvariant ==
    Spec => [](ServiceInv /\ StopCalls /\ Coordinator!IInv)
<1>1. ServiceInv /\ StopCalls /\ Coordinator!IInv /\ [Next]_vars
        => (ServiceInv /\ StopCalls /\ Coordinator!IInv)'
  BY ServiceStep, StopCallsKept, ServiceStutters, TunSteps, CoordinatorStep
<1> QED BY <1>1, ServiceInit, CoordinatorInit, PTL DEF Spec

\* The service is a client the coordinator's specification allows, so all that
\* is proved of the coordinator holds of it in the service.
THEOREM ServiceUsesTunCoordinator == Spec => UsesTunCoordinator
<1>1. ServiceInv /\ StopCalls /\ Coordinator!IInv /\ [Next]_vars => [Tun!Next]_(Tun!vars)
  BY TunSteps
<1>2. Init => Tun!Init
  BY CoordinatorInit
<1> QED BY <1>1, <1>2, CoordinatorInvariant, PTL DEF Spec, UsesTunCoordinator, Tun!Spec

\* Only its own last step takes a call of stopVpn off "stopRelease".
LEMMA OnlyItsRelease ==
    ASSUME ServiceInv, Next, NEW t \in Threads,
           pc[t] = "stopRelease", pc'[t] # "stopRelease"
    PROVE  StopRelease(t)
<1>0. pc \in [Threads -> Labels]
  BY DEF ServiceInv, Places
<1>1. \A u \in Threads : \A to : pc' = [pc EXCEPT ![u] = to] => u = t
  BY <1>0
<1>2. CASE StartStep \/ UserDisconnect
  BY <1>0, <1>1, <1>2, ThreadFacts DEF StartStep, UserDisconnect, AbandonWedged,
      GateAccepts, GateRefuses, AcquireSlot, NativeBusy, ClaimTun, LaunchConnect, Goto,
      ServiceInv, Places, Admitting, Fields, Sessions
<1>3. ASSUME NEW s \in Sessions, CoStep(s) PROVE FALSE
  <2> USE <1>0, <1>1, ThreadFacts
  <2>1. CASE CoStart(s) \/ CoConstructFails(s) \/ CoNoController(s) \/ CoConnectRefused(s)
          \/ CoNativeReturns(s) \/ CoFailed(s) \/ CoReturned(s)
    BY <2>1 DEF CoStart, CoConstructFails, CoNoController, CoConnectRefused,
        CoNativeReturns, CoFailed, CoReturned, Goto
  <2>2. CASE CoConstruct(s) \/ CoEnterNative(s) \/ CoRunning(s) \/ CoUnclaimed(s)
    BY <2>2 DEF CoConstruct, CoEnterNative, CoRunning, CoUnclaimed, Goto
  <2>3. CASE CoNativeFails(s) \/ CoInstall(s) \/ CoInstallFails(s) \/ CoCancelDestroy(s)
    BY <2>3 DEF CoNativeFails, CoInstall, CoInstallFails, CoCancelDestroy, Goto
  <2>4. CASE CoCancelled(s)
    BY <2>4 DEF CoCancelled, Goto
  <2> QED BY <1>3, <2>1, <2>2, <2>3, <2>4 DEF CoStep
<1>4. ASSUME NEW s \in Sessions, RepBegin(s) \/ RepReinstall(s) \/ RepFails(s)
      PROVE  FALSE
  BY <1>1, <1>4, ThreadFacts DEF RepBegin, RepReinstall, RepFails, Goto
<1>5. ASSUME NEW u \in Threads, ErrorAccepted(u) \/ ErrorIgnored(u) PROVE FALSE
  BY <1>1, <1>5 DEF ErrorAccepted, ErrorIgnored, ErrorLabels, Goto
<1>6. ASSUME NEW u \in Threads, StopStep(u) PROVE StopRelease(t)
  <2>1. u = t
    BY <1>1, <1>6 DEF StopStep, StopBegin, StopReentrant, StopDecide, StopTake,
        StopRelease, StopReturns, Goto
  <2> QED BY <1>6, <2>1 DEF StopStep, StopBegin, StopReentrant, StopDecide, StopTake
<1>7. ASSUME NEW i \in DOMAIN stops, TeardownStep(i) PROVE FALSE
  BY <1>7 DEF TeardownStep, TeardownDestroys, TeardownWithoutController,
      TeardownConfirmed, TeardownUnresolved, threadVars
<1>8. CASE OnDestroy
  BY <1>8 DEF OnDestroy, threadVars
<1> QED BY <1>2, <1>3, <1>4, <1>5, <1>6, <1>7, <1>8 DEF Next

\* A stop whose session was replaced meanwhile leaves the descriptor of the
\* newer session registered: whoever installed it owns it.
THEOREM StaleStopsKeepTun == Spec => StaleStopKeepsTun
<1> DEFINE Keeps == \A t \in Threads :
                      /\ pc[t] = "stopRelease" /\ pc'[t] # "stopRelease"
                      /\ tun # 0 /\ madeBy[tun] # Stop(t).session
                      => tun' = tun
<1>1. ServiceInv /\ StopCalls /\ Coordinator!IInv /\ [Next]_vars => [Keeps]_vars
  <2> SUFFICES ASSUME ServiceInv, Coordinator!IInv, Next, NEW t \in Threads,
                      pc[t] = "stopRelease", pc'[t] # "stopRelease",
                      tun # 0, madeBy[tun] # Stop(t).session
               PROVE  tun' = tun
    OBVIOUS
  <2>1. Tun!Release(Stop(t).session)
    BY OnlyItsRelease DEF StopRelease
  <2>2. descriptorOwner = madeBy[tun]
    BY DEF Coordinator!IInv, Coordinator!HeldIsReleasable, Coordinator!NoTun
  <2> QED BY <2>1, <2>2 DEF Tun!Release, Tun!tunVars
<1> HIDE DEF Keeps
<1>2. Spec => [][Keeps]_vars
  BY <1>1, CoordinatorInvariant, PTL DEF Spec
<1> QED BY <1>2 DEF StaleStopKeepsTun, Keeps

-----------------------------------------------------------------------------
(* A session that was stopped does not come up again. *)

\* Only claiming the TUN gives permission to establish.
LEMMA PermissionOnlyGoes ==
    ASSUME ServiceInv, Coordinator!IInv, Next, ~ClaimTun
    PROVE  installer' \in {0, installer}
<1>1. TunCall
  BY TunCalls
<1>2. CASE UNCHANGED tunVars
  BY <1>2 DEF tunVars
<1>3. CASE \E s \in {0} \cup Sessions :
             Tun!Invalidate(s) \/ Tun!Install(s) \/ Tun!InstallFails(s) \/ Tun!Release(s)
  BY <1>3 DEF Tun!Invalidate, Tun!Install, Tun!InstallFails, Tun!Release, Tun!tunVars,
      Tun!NO_SESSION
<1>4. CASE Tun!ReleaseAll \/ \E d \in openTuns : Tun!CloseReference(d)
  BY <1>4 DEF Tun!ReleaseAll, Tun!CloseReference, Tun!NO_SESSION
<1> QED BY <1>1, <1>2, <1>3, <1>4 DEF TunCall

\* Records are added by stopVpn and onDestroy, and keep what they are about.
LEMMA RecordsKeepNames ==
    ASSUME ServiceInv, Next, ~OnDestroy, \A t \in Threads : ~StopBegin(t)
    PROVE  /\ Len(stops') = Len(stops)
           /\ \A i \in 1..Len(stops) :
                 stops'[i].session = stops[i].session /\ stops'[i].by = stops[i].by
<1>1. Stops
  BY DEF ServiceInv
<1>2. ASSUME NEW i \in 1..Len(stops), NEW r \in StopRecord,
             stops' = [stops EXCEPT ![i] = r],
             r.session = stops[i].session, r.by = stops[i].by
      PROVE  /\ Len(stops') = Len(stops)
             /\ \A j \in 1..Len(stops) :
                   stops'[j].session = stops[j].session /\ stops'[j].by = stops[j].by
  BY <1>1, <1>2, StopChanges
<1>3. CASE UNCHANGED stops
  BY <1>3
<1>4. ASSUME NEW i \in 1..Len(stops),
             \/ TeardownStep(i)
             \/ \E t \in Threads : /\ i = stopId[t]
                                   /\ StopTake(t) \/ StopReentrant(t) \/ StopRelease(t)
      PROVE  /\ Len(stops') = Len(stops)
             /\ \A j \in 1..Len(stops) :
                   stops'[j].session = stops[j].session /\ stops'[j].by = stops[j].by
  <2>1. PICK r \in StopRecord : /\ stops' = [stops EXCEPT ![i] = r]
                                /\ r.session = stops[i].session /\ r.by = stops[i].by
    BY <1>4, StopEdits
  <2> QED BY <1>2, <2>1
<1>5. CASE \E i \in DOMAIN stops : TeardownStep(i)
  <2>1. DOMAIN stops = 1..Len(stops)
    <3>1. stops \in Seq(StopRecord)
      BY <1>1 DEF Stops
    <3> QED BY <3>1
  <2> QED BY <1>4, <1>5, <2>1
<1>6. CASE \E t \in Threads : StopTake(t) \/ StopReentrant(t) \/ StopRelease(t)
  <2>1. PICK t \in Threads : StopTake(t) \/ StopReentrant(t) \/ StopRelease(t)
    BY <1>6
  <2>2. pc[t] \in StopLabels
    BY <2>1 DEF StopTake, StopReentrant, StopRelease, StopLabels
  <2>3. stopId[t] \in 1..Len(stops)
    BY <2>2, OwnStop
  <2> QED BY <1>4, <2>1, <2>3
<1>7. CASE OtherStep \/ \E t \in Threads : StopDecide(t)
  BY <1>3, <1>7, OthersLeaveStops DEF StopDecide
<1> QED BY <1>5, <1>6, <1>7 DEF Next, OtherStep, StopStep

\* A stop withdraws the permission of the session it stops.  It comes before
\* that session's claim only if another session's error asked for it.
LEMMA StopsStandKept ==
    ASSUME ServiceInv, Coordinator!IInv, StopsStand, Next
    PROVE  StopsStand'
<1>0. Stops /\ Places /\ Fields
  BY DEF ServiceInv
<1>1. /\ stops \in Seq(StopRecord) /\ Len(stops) \in Nat
      /\ \A i \in 1..Len(stops) : /\ stops[i].session \in Nat
                                  /\ stops[i].session <= sessionGeneration
  <2>1. stops \in Seq(StopRecord)
    BY <1>0 DEF Stops
  <2>2. \A i \in 1..Len(stops) : stops[i] \in StopRecord
    BY <2>1
  <2>3. \A i \in 1..Len(stops) : stops[i].session \in Nat
    BY <2>2 DEF StopRecord
  <2> QED BY <1>0, <2>1, <2>3 DEF Stops
<1>2. CASE ClaimTun
  <2>1. /\ installer' = sessionGeneration /\ pc[Main] = "claim" /\ pc'[Main] = "launch"
        /\ UNCHANGED stops
    BY <1>0, <1>2, ThreadFacts DEF ClaimTun, Tun!TunClaim, Goto, Places
  <2> QED BY <2>1 DEF StopsStand
<1>3. CASE AcquireSlot
  <2>1. sessionGeneration' = sessionGeneration + 1 /\ UNCHANGED <<stops, installer>>
    BY <1>3 DEF AcquireSlot, OnSessionStart, tunVars
  <2>2. \A i \in 1..Len(stops) : stops[i].session # sessionGeneration'
    BY <1>0, <1>1, <2>1 DEF Fields
  <2> QED BY <2>1, <2>2 DEF StopsStand
<1>4. CASE ~ClaimTun /\ ~AcquireSlot
  <2>1. /\ UNCHANGED sessionGeneration
        /\ pc'[Main] = "claim" <=> pc[Main] = "claim"
        /\ installer' \in {0, installer}
    BY <1>4, CurrentMoves, PermissionOnlyGoes
  <2>2. ASSUME NEW t \in Threads, StopBegin(t) PROVE StopsStand'
    <3> DEFINE r == [session |-> sessionGeneration, by |-> t[2], target |-> 0,
                     at |-> "stopping", outcome |-> "none"]
               n == Len(stops) + 1
    <3>1. /\ stops' = Append(stops, r) /\ Tun!Invalidate(sessionGeneration)
          /\ pc[t] = "stopBegin" /\ r.session = sessionGeneration /\ r.by = t[2]
      BY <2>2 DEF StopBegin
    <3> HIDE DEF r
    <3>2. /\ stops'[n] = r /\ \A i \in 1..Len(stops) : stops'[i] = stops[i]
          /\ \A i \in 1..Len(stops') : i \in 1..Len(stops) \/ i = n
      <4>1. /\ Len(stops') = n /\ stops'[n] = r
            /\ \A i \in 1..Len(stops) : stops'[i] = stops[i]
        BY <1>1, <3>1
      <4>2. \A i \in 1..n : i \in 1..Len(stops) \/ i = n
        BY <1>1
      <4> QED BY <4>1, <4>2
    <3> HIDE DEF n
    <3>3. sessionGeneration # 0 => installer' # sessionGeneration
      BY <3>1 DEF Tun!Invalidate, Tun!NO_SESSION
    <3>4. ASSUME pc[Main] = "claim" PROVE t[2] \notin {0, sessionGeneration}
      <4>1. /\ sessionGeneration \in Sessions /\ pc[Co(sessionGeneration)] = "idle"
            /\ pc[Rep(sessionGeneration)] = "idle"
        BY <1>0, <3>4 DEF Places, Admitting, Fields, Sessions
      <4>2. t # Main /\ t # Co(sessionGeneration) /\ t # Rep(sessionGeneration)
        BY <3>1, <3>4, <4>1
      <4>3. PICK s \in Sessions : t = Co(s) \/ t = Rep(s)
        BY <4>2, ThreadFacts
      <4>4. t[2] = s /\ s # 0
        BY <4>3, ThreadFacts DEF Sessions
      <4> QED BY <4>2, <4>3, <4>4
    <3>5. ASSUME NEW i \in 1..Len(stops'), stops'[i].session # 0,
                 stops'[i].by \in {0, stops'[i].session}
          PROVE  /\ installer' # stops'[i].session
                 /\ ~(pc'[Main] = "claim" /\ stops'[i].session = sessionGeneration')
      <4>1. CASE i = n
        BY <2>1, <3>1, <3>2, <3>3, <3>4, <3>5, <4>1
      <4>2. CASE i \in 1..Len(stops)
        BY <2>1, <3>2, <3>5, <4>2 DEF StopsStand
      <4> QED BY <3>2, <4>1, <4>2
    <3> QED BY <3>5 DEF StopsStand
  <2>3. CASE OnDestroy
    <3> DEFINE r == [session |-> 0, by |-> 0, target |-> controller,
                     at |-> "destroy", outcome |-> "none"]
               n == Len(stops) + 1
    <3>1. stops' = Append(stops, r) /\ r.session = 0
      BY <2>3 DEF OnDestroy
    <3> HIDE DEF r
    <3>2. /\ stops'[n] = r /\ \A i \in 1..Len(stops) : stops'[i] = stops[i]
          /\ \A i \in 1..Len(stops') : i \in 1..Len(stops) \/ i = n
      <4>1. /\ Len(stops') = n /\ stops'[n] = r
            /\ \A i \in 1..Len(stops) : stops'[i] = stops[i]
        BY <1>1, <3>1
      <4>2. \A i \in 1..n : i \in 1..Len(stops) \/ i = n
        BY <1>1
      <4> QED BY <4>1, <4>2
    <3> HIDE DEF n
    <3> QED BY <2>1, <3>1, <3>2 DEF StopsStand
  <2>4. CASE ~OnDestroy /\ \A t \in Threads : ~StopBegin(t)
    <3>1. /\ Len(stops') = Len(stops)
          /\ \A i \in 1..Len(stops) :
                stops'[i].session = stops[i].session /\ stops'[i].by = stops[i].by
      BY <2>4, RecordsKeepNames
    <3> QED BY <2>1, <3>1 DEF StopsStand
  <2> QED BY <2>2, <2>3, <2>4
<1> QED BY <1>2, <1>3, <1>4

\* All invariants together.
LEMMA StopsStandAlways ==
    Spec => [](ServiceInv /\ StopCalls /\ Coordinator!IInv /\ StopsStand)
<1>1. Init => StopsStand
  BY DEF Init, StopsStand
<1>2. ServiceInv /\ StopsStand /\ UNCHANGED vars => StopsStand'
  BY DEF StopsStand, vars, tunVars, policyVars, threadVars
<1>3. ServiceInv /\ StopCalls /\ Coordinator!IInv /\ StopsStand /\ [Next]_vars => StopsStand'
  BY <1>2, StopsStandKept
<1> QED BY <1>1, <1>3, CoordinatorInvariant, PTL DEF Spec

\* Once the user, or a session's own error, began to stop the session, no
\* thread of it establishes a TUN descriptor again.
THEOREM StoppedStaysDown == Spec => StoppedSessionsStayDown
<1> DEFINE Down == Len(madeBy') > Len(madeBy) =>
                     \A i \in DOMAIN stops :
                        stops[i].session = madeBy'[Len(madeBy')]
                            => stops[i].by \notin {0, stops[i].session}
<1>1. ServiceInv /\ StopCalls /\ Coordinator!IInv /\ StopsStand /\ [Next]_vars
        => [Down]_vars
  <2> SUFFICES ASSUME ServiceInv, Coordinator!IInv, StopsStand, Next,
                      Len(madeBy') > Len(madeBy), NEW i \in DOMAIN stops,
                      stops[i].session = madeBy'[Len(madeBy')]
               PROVE  stops[i].by \notin {0, stops[i].session}
    OBVIOUS
  <2>1. madeBy \in Seq(Nat)
    BY DEF Coordinator!IInv, Coordinator!TypeOK, Coordinator!Sessions
  <2>2. madeBy' # madeBy
    BY <2>1
  <2>3. PICK s \in {0} \cup Sessions : Tun!Install(s)
    <3>1. ~ClaimTun
      BY <2>2 DEF ClaimTun, Tun!TunClaim, Tun!CloseHeldLocked
    <3>2. TunCall
      BY <3>1, TunCalls
    <3> QED BY <2>2, <3>2 DEF TunCall, tunVars, Tun!Invalidate, Tun!InstallFails,
          Tun!Release, Tun!ReleaseAll, Tun!CloseReference, Tun!CloseHeldLocked, Tun!tunVars
  <2>4. s # 0 /\ s = installer /\ madeBy' = Append(madeBy, s)
    BY <2>3 DEF Tun!Install, Tun!MayInstall, Tun!NO_SESSION
  <2>5. madeBy'[Len(madeBy')] = s
    BY <2>1, <2>4 DEF Sessions
  <2>6. i \in 1..Len(stops)
    <3>1. stops \in Seq(StopRecord)
      BY DEF ServiceInv, Stops
    <3> QED BY <3>1
  <2> QED BY <2>4, <2>5, <2>6 DEF StopsStand
<1> HIDE DEF Down
<1>2. Spec => [][Down]_vars
  BY <1>1, StopsStandAlways, PTL DEF Spec
<1> QED BY <1>2 DEF StoppedSessionsStayDown, Down

=============================================================================
