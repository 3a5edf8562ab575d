----------------------- MODULE MCNativeConnect_proofs -----------------------
(***************************************************************************)
(* Proofs about the native side of bringing a session up, for any number   *)
(* of connects, transports, DHCP servers and retries and for any timeouts: *)
(* the invariants of MCNativeConnect.tla.                                  *)
(*                                                                         *)
(* The components share no state, so the invariant is one of each          *)
(* (NativeInv) and a step of one leaves the others' alone (OnePart).  Each *)
(* section below states the invariant of a component, why its properties   *)
(* need it, and that the component's steps keep it.                        *)
(***************************************************************************)
EXTENDS MCNativeConnect, Sequences, FiniteSetTheorems, TLAPS

\* What the constants are, as the provers use it.
LEMMA Numbers ==
    /\ MaxConnects \in Nat /\ NumTransports \in Nat
    /\ Deadline \in Nat /\ Deadline >= 2 /\ MaxExp \in Nat /\ MaxInbox \in Nat
    /\ Polls \in Nat /\ Polls > 0 /\ MaxRetries \in Nat /\ MaxRetries > 0
    /\ ArpReads \in Nat /\ MaxQueue \in Nat
BY NativeConnectAssumption

-----------------------------------------------------------------------------
(***************************************************************************)
(* The transport race, for any number of transports: it adopts at most one *)
(* winner, complete and still open, closes every other connection, and     *)
(* frees the control block only after every worker ended.                  *)
(*                                                                         *)
(* The properties speak of the end of the race; the argument is about the  *)
(* two compare-and-swaps before it.  At most one worker is past the first  *)
(* (Claims), so the index and the record the parent reads are that         *)
(* worker's; the second, against the parent's revocation, decides who      *)
(* closes the connection (Connections), and the parent looks again after   *)
(* it (ParentSaw).  Joins proceed in order (Joined).                       *)
(***************************************************************************)

\* Worker w has won the claim and not yet tried to publish.
Holder(w) == racePc[w] \in {"index", "payload", "publish"}

Launched ==
    /\ parent = "launch" => created = {} /\ joining = 1
    /\ \A w \in Race!Workers : w \in created <=> racePc[w] # "none"

Claims ==
    /\ \A w \in Race!Workers : Holder(w) => winner_claimed /\ winner_published # 1
    /\ \A v, w \in Race!Workers : Holder(v) /\ Holder(w) => v = w
    /\ \A w \in Race!Workers : racePc[w] \in {"payload", "publish"} => winner_index = w
    /\ \A w \in Race!Workers : racePc[w] = "publish" => w \in payload
    /\ winner_published = 1 =>
        /\ winner_claimed
        /\ winner_index \in payload
        /\ racePc[winner_index] \in {"return", "ended"}

Connections ==
    \A w \in Race!Workers :
        w \in open <=> \/ racePc[w] \in {"connected", "claim"} \/ Holder(w)
                       \/ winner_published = 1 /\ w = winner_index

ParentSaw ==
    /\ winner # Race!None => winner_published = 1 /\ winner = winner_index
    /\ parent \in {"recheck", "join", "blocked", "done"} => winner_published # 0
    /\ parent \in {"join", "blocked", "done"} /\ winner_published = 1
        => winner = winner_index

Joined ==
    /\ \A w \in created : w < joining => racePc[w] = "ended"
    /\ parent = "blocked" => joining \in Race!Workers
    /\ raceFreed <=> parent = "done"
    /\ parent = "done" => joining > NumTransports /\ adopted = winner

RaceInv ==
    /\ Race!TypeOK
    /\ Launched
    /\ Claims
    /\ Connections
    /\ ParentSaw
    /\ Joined

\* The six parts of the invariant, and the shapes every action is built from.
USE DEF RaceInv, Race!TypeOK, Launched, Claims, Connections, ParentSaw, Joined,
        Holder, Race!Workers, Race!None, Race!Goto, Race!ctrlVars, Race!parentVars

\* A transport thread, whatever the others and the parent do meanwhile.
LEMMA WorkKeeps ==
    ASSUME NumTransports \in Nat, RaceInv, NEW w \in Race!Workers, Race!Work(w)
    PROVE  RaceInv'
<1>1. CASE Race!GiveUp(w)
    BY <1>1 DEF Race!GiveUp
<1>2. CASE Race!Connect(w)
  <2>1. racePc[w] = "start" /\ UNCHANGED <<Race!ctrlVars, created, exited, payload, raceFreed,
                                        Race!parentVars>>
      BY <1>2 DEF Race!Connect
  <2>2. CASE open' = open \cup {w} /\ Race!Goto(w, "connected")
      BY <2>1, <2>2
  <2>3. CASE Race!Goto(w, "return") /\ UNCHANGED open
      BY <2>1, <2>3
  <2> QED BY <1>2, <2>2, <2>3 DEF Race!Connect
<1>3. CASE Race!Handshake(w)
  <2>1. racePc[w] = "connected" /\ UNCHANGED <<Race!ctrlVars, created, exited, payload,
                                            raceFreed, Race!parentVars>>
      BY <1>3 DEF Race!Handshake
  <2>2. CASE Race!Goto(w, "claim") /\ UNCHANGED open
      BY <2>1, <2>2
  <2>3. CASE open' = open \ {w} /\ Race!Goto(w, "return")
      BY <2>1, <2>3
  <2> QED BY <1>3, <2>2, <2>3 DEF Race!Handshake
<1>4. CASE Race!Claim(w)
  <2>1. racePc[w] = "claim" /\ UNCHANGED <<cancel_flag, winner_published, winner_index,
                                        created, exited, payload, raceFreed, Race!parentVars>>
      BY <1>4 DEF Race!Claim
  <2>2. CASE /\ ~winner_claimed /\ winner_claimed' = TRUE
             /\ Race!Goto(w, "index") /\ UNCHANGED open
      BY <2>1, <2>2
  <2>3. CASE /\ winner_claimed /\ UNCHANGED winner_claimed
             /\ open' = open \ {w} /\ Race!Goto(w, "return")
      BY <2>1, <2>3
  <2> QED BY <1>4, <2>2, <2>3 DEF Race!Claim
<1>5. CASE Race!WriteIndex(w)
    BY <1>5 DEF Race!WriteIndex
<1>6. CASE Race!WritePayload(w)
    BY <1>6 DEF Race!WritePayload
<1>7. CASE Race!Publish(w)
  <2>1. /\ racePc[w] = "publish" /\ Race!Goto(w, "return")
        /\ UNCHANGED <<cancel_flag, winner_claimed, winner_index, created, exited,
                       payload, raceFreed, Race!parentVars>>
      BY <1>7 DEF Race!Publish
  <2>2. CASE winner_published = 0 /\ winner_published' = 1 /\ UNCHANGED open
      BY <2>1, <2>2
  <2>3. CASE /\ winner_published # 0 /\ UNCHANGED winner_published
             /\ open' = open \ {w}
      BY <2>1, <2>3
  <2> QED BY <1>7, <2>2, <2>3 DEF Race!Publish
<1>8. CASE Race!Return(w)
    BY <1>8 DEF Race!Return
<1> QED BY <1>1, <1>2, <1>3, <1>4, <1>5, <1>6, <1>7, <1>8 DEF Race!Work

\* The parent.
LEMMA ParentKeeps ==
    ASSUME NumTransports \in Nat, RaceInv, Race!Race
    PROVE  RaceInv'
<1>1. CASE Race!Launch
    BY <1>1 DEF Race!Launch
<1>2. CASE Race!SeePublished
    BY <1>2 DEF Race!SeePublished
<1>3. CASE Race!DeadlinePasses
    BY <1>3 DEF Race!DeadlinePasses
<1>4. CASE Race!Revoke
    BY <1>4 DEF Race!Revoke
<1>5. CASE Race!Recheck
    BY <1>5 DEF Race!Recheck
<1>6. CASE Race!JoinStarts
    BY <1>6 DEF Race!JoinStarts, Race!MustJoin
<1>7. CASE Race!JoinReturns
    BY <1>7 DEF Race!JoinReturns, Race!MustJoin
<1>8. CASE Race!JoinSkips
    BY <1>8 DEF Race!JoinSkips, Race!MustJoin
<1>9. CASE Race!Adopt
    BY <1>9 DEF Race!Adopt
<1> QED BY <1>1, <1>2, <1>3, <1>4, <1>5, <1>6, <1>7, <1>8, <1>9 DEF Race!Race

\* Nothing is launched yet.
LEMMA RaceStart == ASSUME NumTransports \in Nat, Race!Init PROVE RaceInv
<1>1. Race!TypeOK
  <2>1. winner_published \in 0..2 /\ joining \in 1..(NumTransports + 1)
      BY DEF Race!Init
  <2>2. created = {} /\ exited = {} /\ payload = {} /\ open = {}
      BY DEF Race!Init
  <2> QED BY <2>1, <2>2 DEF Race!Init
<1>2. Launched /\ Claims /\ Connections
    BY DEF Race!Init
<1>3. ParentSaw /\ Joined
    BY DEF Race!Init
<1> QED BY <1>1, <1>2, <1>3

\* The two compare-and-swaps of softether_race_transports leave one claimant and
\* one verdict, whatever the interleaving.
LEMMA RaceStep ==
    ASSUME NumTransports \in Nat, RaceInv, Race!Next \/ UNCHANGED raceVars
    PROVE  RaceInv'
<1>1. CASE UNCHANGED raceVars
    BY <1>1 DEF raceVars
<1> QED BY <1>1, WorkKeeps, ParentKeeps DEF Race!Next

\* When the race is over every connection but the adopted one is closed, the
\* adopted record is complete, and no worker runs on the freed control block.
LEMMA RaceImplies == RaceInv => Race!OneWinnerIsAdopted
<1> SUFFICES ASSUME RaceInv PROVE Race!OneWinnerIsAdopted
    OBVIOUS
<1>1. Race!OnlyWinnerStaysOpen
  <2> SUFFICES ASSUME parent = "done" PROVE open = {adopted} \ {Race!None}
      BY DEF Race!OnlyWinnerStaysOpen
  <2>1. \A w \in created : racePc[w] = "ended"
      BY Numbers
  <2>2. CASE winner_published = 1
    <3>1. adopted = winner_index /\ winner_index \in Race!Workers /\ winner_index # Race!None
        BY <2>2
    <3>2. \A w \in Race!Workers : w \in open <=> w = winner_index
        BY <2>1, <2>2
    <3> QED BY <3>1, <3>2
  <2>3. CASE winner_published # 1
    <3>1. adopted = Race!None
        BY <2>3
    <3>2. \A w \in Race!Workers : w \notin open
        BY <2>1, <2>3
    <3> QED BY <3>1, <3>2
  <2> QED BY <2>2, <2>3
<1>2. Race!WinnerIsComplete /\ Race!NoWorkerAfterFree
    BY Numbers DEF Race!WinnerIsComplete, Race!NoWorkerAfterFree
<1> QED BY <1>1, <1>2 DEF Race!OneWinnerIsAdopted

HIDE DEF RaceInv, Race!TypeOK, Launched, Claims, Connections, ParentSaw, Joined,
         Holder, Race!Workers, Race!None, Race!Goto, Race!ctrlVars, Race!parentVars

-----------------------------------------------------------------------------
(***************************************************************************)
(* The stages of connect: however many connects one object sees, wherever  *)
(* a stage fails and whenever a cancel comes, a connect completes or       *)
(* releases what it opened.                                                *)
(*                                                                         *)
(* What a failing stage releases depends on conn->state, because           *)
(* softether_disconnect does nothing in DISCONNECTED.  So the invariant    *)
(* says which states each stage runs in (Stages) and that a stage which    *)
(* runs in DISCONNECTED without a transport holds nothing (Released).      *)
(* The rest is what the object holds at each stage: whose descriptor it is *)
(* (Transports), what a login may rely on (Complete), and for how long the *)
(* acceleration context exists (Acceleration).                             *)
(*                                                                         *)
(* The instance has OwnerWaits, the order the Kotlin layer keeps: no flow  *)
(* is inside native code when its handle is destroyed, see FlowsStaySafe   *)
(* in ConnectionController_proofs.                                         *)
(***************************************************************************)

\* conn->state at each point of the connect thread.
Stages ==
    /\ pc = "idle" => state \in {"DISCONNECTED", "CONNECTED"}
    /\ pc \in {"resolve", "tcp", "tls"} => state = "CONNECTING"
    /\ pc = "tlsDone" => state = "TLS_HANDSHAKE"
    /\ pc = "tcpFailed" => state \in {"CONNECTING", "TLS_HANDSHAKE"}
    /\ pc = "race" => state = IF udp_only THEN "CONNECTING" ELSE "DISCONNECTED"
    /\ pc \in {"gate", "watermark", "auth"} =>
         state \in {"DISCONNECTED", "CONNECTING", "TLS_HANDSHAKE"}
    /\ pc = "loginFailed" =>
         state \in {"DISCONNECTED", "CONNECTING", "TLS_HANDSHAKE", "AUTHENTICATING"}
    /\ pc \in {"natt", "nattTls"} => state = "DISCONNECTED"
    /\ pc = "authenticated" => state = "AUTHENTICATING"
    /\ pc = "setup" => state = "SESSION_SETUP"
    /\ pc = "finish" => state = "CONNECTED"
    /\ pc = "idle" /\ result = "error" => state = "DISCONNECTED"
    /\ freed => pc = "idle" /\ state = "DISCONNECTED"
    /\ udp_only => pc \notin {"tcp", "tls", "tlsDone", "tcpFailed"}

\* The stages that can meet the descriptor an earlier connect left behind.
Early == {"idle", "resolve", "tcp", "tcpFailed"}

\* A transport in use owns the descriptor and excludes UDP acceleration; it
\* comes into use in the race or in the NAT-T stage and not before.  Past the
\* TCP stage a transport's descriptor belongs to the transport in use.
Transports ==
    /\ using_nat_t => nat_t_transport /\ socket_fd = "app" /\ ~rudp
    /\ using_nat_t => pc \notin {"resolve", "tcp", "tls", "tlsDone", "tcpFailed",
                                 "race", "natt"}
    /\ ~using_nat_t /\ socket_fd = "app" =>
         pc \in Early /\ (pc = "idle" => state = "DISCONNECTED")

\* From the TLS handshake on there are a socket and a TLS context.  Only a
\* handshake that failed leaves a TLS context of an earlier connect without one.
Complete ==
    /\ pc \in {"tlsDone", "auth", "authenticated", "setup", "finish"} =>
         ssl /\ socket_fd # "none"
    /\ ssl => socket_fd # "none" \/ pc = "tcpFailed"
    /\ state = "CONNECTED" => ssl /\ socket_fd # "none"
    /\ pc = "tls" => socket_fd = "tcp"

\* The acceleration context exists only in a state softether_disconnect cleans.
Acceleration ==
    rudp => /\ state # "DISCONNECTED"
            /\ pc \in {"idle", "auth", "authenticated", "loginFailed", "setup", "finish"}

\* Where softether_disconnect would do nothing there is nothing to release, but
\* for the connection of a race winner; none of it for a server without a TCP
\* port, which also never overwrites a pointer.
Released ==
    /\ state = "DISCONNECTED" /\ ~using_nat_t /\ pc # "idle" => Connect!Empty
    /\ pc \in {"resolve", "tcp"} \/ (pc = "idle" /\ state = "DISCONNECTED")
         => socket_fd # "tcp"
    /\ udp_only => lost = {}
    /\ udp_only /\ pc = "resolve" => Connect!Empty
    /\ udp_only /\ state = "DISCONNECTED" /\ pc # "nattTls" => Connect!Empty
    /\ pc = "nattTls" => ~ssl /\ using_nat_t
    /\ pc = "race" => Connect!Empty

ConnectInv ==
    /\ Connect!TypeOK
    /\ Stages
    /\ Transports
    /\ Complete
    /\ Acceleration
    /\ Released

\* The parts of the invariant, and the shapes every stage is built from.
USE DEF ConnectInv, Stages, Early, Transports, Complete, Acceleration, Released,
        Connect!Empty, Connect!TypeOK, Connect!Goto, Connect!Return,
        Connect!linkVars, Connect!transportVars, Connect!accelVars,
        Connect!resources, Connect!callVars

\* The entry of connect: what is left behind is at most a race winner.
LEMMA StartKeeps ==
    ASSUME MaxConnects \in Nat, ConnectInv, NEW tcp \in BOOLEAN, Connect!Start(tcp)
    PROVE  ConnectInv'
<1>1. Connect!TypeOK'
  <2>1. connects' \in 0..MaxConnects
      BY DEF Connect!Start
  <2> QED BY <2>1 DEF Connect!Start
<1>2. Stages'
    BY DEF Connect!Start
<1>3. Transports'
    BY DEF Connect!Start
<1>4. Complete'
    BY DEF Connect!Start
<1>5. Acceleration'
    BY DEF Connect!Start
<1>6. Released'
    BY DEF Connect!Start
<1> QED BY <1>1, <1>2, <1>3, <1>4, <1>5, <1>6

\* A name that does not resolve returns without a disconnect.
LEMMA ResolveKeeps ==
    ASSUME MaxConnects \in Nat, ConnectInv, Connect!Resolve
    PROVE  ConnectInv'
<1>1. Connect!TypeOK'
    BY DEF Connect!Resolve
<1>2. Stages'
    BY DEF Connect!Resolve
<1>3. Transports'
    BY DEF Connect!Resolve
<1>4. Complete'
    BY DEF Connect!Resolve
<1>5. Acceleration'
    BY DEF Connect!Resolve
<1>6. Released'
    BY DEF Connect!Resolve
<1> QED BY <1>1, <1>2, <1>3, <1>4, <1>5, <1>6

\* The TCP socket replaces the descriptor of a lingering winner.
LEMMA TcpConnectKeeps ==
    ASSUME MaxConnects \in Nat, ConnectInv, Connect!TcpConnect
    PROVE  ConnectInv'
<1>1. Connect!TypeOK'
    BY DEF Connect!TcpConnect, Connect!Overwrites
<1>2. Stages'
    BY DEF Connect!TcpConnect, Connect!Overwrites
<1>3. Transports'
    BY DEF Connect!TcpConnect, Connect!Overwrites
<1>4. Complete'
    BY DEF Connect!TcpConnect, Connect!Overwrites
<1>5. Acceleration'
    BY DEF Connect!TcpConnect, Connect!Overwrites
<1>6. Released'
    BY DEF Connect!TcpConnect, Connect!Overwrites
<1> QED BY <1>1, <1>2, <1>3, <1>4, <1>5, <1>6

\* A failed handshake closes its socket and stays in TLS_HANDSHAKE.
LEMMA TlsKeeps ==
    ASSUME MaxConnects \in Nat, ConnectInv, Connect!Tls
    PROVE  ConnectInv'
<1>1. Connect!TypeOK'
    BY DEF Connect!Tls, Connect!Overwrites
<1>2. Stages'
    BY DEF Connect!Tls, Connect!Overwrites
<1>3. Transports'
    BY DEF Connect!Tls, Connect!Overwrites
<1>4. Complete'
    BY DEF Connect!Tls, Connect!Overwrites
<1>5. Acceleration'
    BY DEF Connect!Tls, Connect!Overwrites
<1>6. Released'
    BY DEF Connect!Tls, Connect!Overwrites
<1> QED BY <1>1, <1>2, <1>3, <1>4, <1>5, <1>6

\* The failed stage disconnects, in a state that releases everything.
LEMMA AfterTcpKeeps ==
    ASSUME MaxConnects \in Nat, ConnectInv, Connect!AfterTcp
    PROVE  ConnectInv'
<1>1. Connect!TypeOK'
    BY DEF Connect!AfterTcp, Connect!Fail, Connect!Disconnect
<1>2. Stages'
    BY DEF Connect!AfterTcp, Connect!Fail, Connect!Disconnect
<1>3. Transports'
    BY DEF Connect!AfterTcp, Connect!Fail, Connect!Disconnect
<1>4. Complete'
    BY DEF Connect!AfterTcp, Connect!Fail, Connect!Disconnect
<1>5. Acceleration'
    BY DEF Connect!AfterTcp, Connect!Fail, Connect!Disconnect
<1>6. Released'
    BY DEF Connect!AfterTcp, Connect!Fail, Connect!Disconnect
<1> QED BY <1>1, <1>2, <1>3, <1>4, <1>5, <1>6

\* The race starts empty, so its winner overwrites nothing.
LEMMA RaceKeeps ==
    ASSUME MaxConnects \in Nat, ConnectInv, Connect!Race
    PROVE  ConnectInv'
<1>1. Connect!TypeOK'
    BY DEF Connect!Race, Connect!Overwrites
<1>2. Stages'
    BY DEF Connect!Race, Connect!Overwrites
<1>3. Transports'
    BY DEF Connect!Race, Connect!Overwrites
<1>4. Complete'
    BY DEF Connect!Race, Connect!Overwrites
<1>5. Acceleration'
    BY DEF Connect!Race, Connect!Overwrites
<1>6. Released'
  <2>1. lost' = lost
      BY Zenon DEF Connect!Race, Connect!Overwrites
  <2> QED BY <2>1 DEF Connect!Race
<1> QED BY <1>1, <1>2, <1>3, <1>4, <1>5, <1>6

\* The gate before the login.
LEMMA GateKeeps ==
    ASSUME MaxConnects \in Nat, ConnectInv, Connect!Gate
    PROVE  ConnectInv'
<1>1. Connect!TypeOK'
    BY DEF Connect!Gate, Connect!Fail, Connect!Disconnect
<1>2. Stages'
    BY DEF Connect!Gate, Connect!Fail, Connect!Disconnect
<1>3. Transports'
    BY DEF Connect!Gate, Connect!Fail, Connect!Disconnect
<1>4. Complete'
    BY DEF Connect!Gate, Connect!Fail, Connect!Disconnect
<1>5. Acceleration'
    BY DEF Connect!Gate, Connect!Fail, Connect!Disconnect
<1>6. Released'
  <2>1. CASE abort_connect /\ Connect!Fail
      BY <2>1 DEF Connect!Gate, Connect!Fail, Connect!Disconnect
  <2>2. CASE ~abort_connect /\ Connect!Goto("watermark") /\ UNCHANGED <<state, Connect!resources>>
      BY <2>2 DEF Connect!Gate
  <2> QED BY <2>1, <2>2 DEF Connect!Gate
<1> QED BY <1>1, <1>2, <1>3, <1>4, <1>5, <1>6

\* Without a TLS context the login fails; UDP acceleration begins here.
LEMMA WatermarkKeeps ==
    ASSUME MaxConnects \in Nat, ConnectInv, Connect!Watermark
    PROVE  ConnectInv'
<1>1. Connect!TypeOK'
    BY DEF Connect!Watermark, Connect!Overwrites
<1>2. Stages'
    BY DEF Connect!Watermark, Connect!Overwrites
<1>3. Transports'
  <2>1. CASE Connect!Goto("loginFailed") /\ UNCHANGED <<rudp, lost>>
      BY <2>1 DEF Connect!Watermark
  <2>2. CASE rudp' \in IF use_tcp \/ using_nat_t THEN {FALSE} ELSE BOOLEAN
    <3>1. using_nat_t => ~rudp'
        BY <2>2
    <3> QED BY <3>1 DEF Connect!Watermark
  <2> QED BY <2>1, <2>2 DEF Connect!Watermark
<1>4. Complete'
    BY DEF Connect!Watermark, Connect!Overwrites
<1>5. Acceleration'
    BY DEF Connect!Watermark, Connect!Overwrites
<1>6. Released'
  <2>1. lost' = lost
      BY DEF Connect!Watermark, Connect!Overwrites
  <2>2. CASE state = "DISCONNECTED" /\ ~using_nat_t
    <3>1. /\ pc' = "loginFailed"
          /\ UNCHANGED <<rudp, state, Connect!linkVars, Connect!transportVars, udp_only>>
        BY <2>2 DEF Connect!Watermark
    <3>2. Connect!Empty /\ (udp_only => lost = {}) /\ pc # "nattTls"
        BY <2>2 DEF Connect!Watermark
    <3>3. Connect!Empty' /\ (udp_only' => lost' = {})
        BY <2>1, <3>1, <3>2
    <3> QED BY <3>1, <3>3
  <2>3. CASE ~(state = "DISCONNECTED" /\ ~using_nat_t)
      BY <2>1, <2>3 DEF Connect!Watermark
  <2> QED BY <2>2, <2>3
<1> QED BY <1>1, <1>2, <1>3, <1>4, <1>5, <1>6

\* The authentication enters a state that a disconnect cleans.
LEMMA AuthKeeps ==
    ASSUME MaxConnects \in Nat, ConnectInv, Connect!Auth
    PROVE  ConnectInv'
<1>1. Connect!TypeOK'
    BY DEF Connect!Auth
<1>2. Stages'
    BY DEF Connect!Auth
<1>3. Transports'
    BY DEF Connect!Auth
<1>4. Complete'
    BY DEF Connect!Auth
<1>5. Acceleration'
    BY DEF Connect!Auth
<1>6. Released'
    BY DEF Connect!Auth
<1> QED BY <1>1, <1>2, <1>3, <1>4, <1>5, <1>6

\* The NAT-T stage begins with an empty object.
LEMMA LoginFailedKeeps ==
    ASSUME MaxConnects \in Nat, ConnectInv, Connect!LoginFailed
    PROVE  ConnectInv'
<1>1. Connect!TypeOK'
    BY DEF Connect!LoginFailed, Connect!Fail, Connect!Disconnect
<1>2. Stages'
    BY DEF Connect!LoginFailed, Connect!Fail, Connect!Disconnect
<1>3. Transports'
    BY DEF Connect!LoginFailed, Connect!Fail, Connect!Disconnect
<1>4. Complete'
    BY DEF Connect!LoginFailed, Connect!Fail, Connect!Disconnect
<1>5. Acceleration'
    BY DEF Connect!LoginFailed, Connect!Fail, Connect!Disconnect
<1>6. Released'
    BY DEF Connect!LoginFailed, Connect!Fail, Connect!Disconnect
<1> QED BY <1>1, <1>2, <1>3, <1>4, <1>5, <1>6

\* The new transport overwrites nothing.
LEMMA TryNatTKeeps ==
    ASSUME MaxConnects \in Nat, ConnectInv, Connect!TryNatT
    PROVE  ConnectInv'
<1>1. Connect!TypeOK'
    BY DEF Connect!TryNatT, Connect!Fail, Connect!Disconnect
<1>2. Stages'
    BY DEF Connect!TryNatT, Connect!Fail, Connect!Disconnect
<1>3. Transports'
    BY DEF Connect!TryNatT, Connect!Fail, Connect!Disconnect
<1>4. Complete'
    BY DEF Connect!TryNatT, Connect!Fail, Connect!Disconnect
<1>5. Acceleration'
    BY DEF Connect!TryNatT, Connect!Fail, Connect!Disconnect
<1>6. Released'
  <2>1. lost' = lost
      BY DEF Connect!TryNatT, Connect!Fail, Connect!Disconnect
  <2>2. CASE Connect!Fail
      BY <2>1, <2>2 DEF Connect!TryNatT, Connect!Fail, Connect!Disconnect
  <2>3. CASE ~Connect!Fail
      BY <2>1, <2>3 DEF Connect!TryNatT
  <2> QED BY <2>2, <2>3
<1> QED BY <1>1, <1>2, <1>3, <1>4, <1>5, <1>6

\* The second login has a transport, and no acceleration.
LEMMA NatTTlsSucceedsKeeps ==
    ASSUME MaxConnects \in Nat, ConnectInv, Connect!NatTTlsSucceeds
    PROVE  ConnectInv'
<1>1. Connect!TypeOK'
    BY DEF Connect!NatTTlsSucceeds, Connect!Overwrites
<1>2. Stages'
    BY DEF Connect!NatTTlsSucceeds, Connect!Overwrites
<1>3. Transports'
    BY DEF Connect!NatTTlsSucceeds, Connect!Overwrites
<1>4. Complete'
    BY DEF Connect!NatTTlsSucceeds, Connect!Overwrites
<1>5. Acceleration'
    BY DEF Connect!NatTTlsSucceeds, Connect!Overwrites
<1>6. Released'
    BY DEF Connect!NatTTlsSucceeds, Connect!Overwrites
<1> QED BY <1>1, <1>2, <1>3, <1>4, <1>5, <1>6

\* The failed handshake releases everything.
LEMMA NatTTlsFailsKeeps ==
    ASSUME MaxConnects \in Nat, ConnectInv, Connect!NatTTlsFails
    PROVE  ConnectInv'
<1>1. Connect!TypeOK'
    BY DEF Connect!NatTTlsFails
<1>2. Stages'
    BY DEF Connect!NatTTlsFails
<1>3. Transports'
    BY DEF Connect!NatTTlsFails
<1>4. Complete'
    BY DEF Connect!NatTTlsFails
<1>5. Acceleration'
    BY DEF Connect!NatTTlsFails
<1>6. Released'
    BY DEF Connect!NatTTlsFails
<1> QED BY <1>1, <1>2, <1>3, <1>4, <1>5, <1>6

\* The last gate.
LEMMA SetupKeeps ==
    ASSUME MaxConnects \in Nat, ConnectInv, Connect!Setup
    PROVE  ConnectInv'
<1>1. Connect!TypeOK'
    BY DEF Connect!Setup, Connect!Fail, Connect!Disconnect
<1>2. Stages'
    BY DEF Connect!Setup, Connect!Fail, Connect!Disconnect
<1>3. Transports'
  <2>1. CASE abort_connect /\ Connect!Fail
      BY <2>1 DEF Connect!Setup, Connect!Fail, Connect!Disconnect
  <2>2. CASE ~abort_connect
    <3>1. pc' = "setup" /\ UNCHANGED <<rudp, Connect!linkVars, Connect!transportVars>>
        BY <2>2 DEF Connect!Setup
    <3>2. /\ using_nat_t => nat_t_transport /\ socket_fd = "app" /\ ~rudp
          /\ ~using_nat_t => socket_fd # "app"
        BY DEF Connect!Setup
    <3>3. /\ using_nat_t' => nat_t_transport' /\ socket_fd' = "app" /\ ~rudp'
          /\ ~using_nat_t' => socket_fd' # "app"
        BY <3>1, <3>2
    <3> QED BY <3>1, <3>3
  <2> QED BY <2>1, <2>2 DEF Connect!Setup
<1>4. Complete'
    BY DEF Connect!Setup, Connect!Fail, Connect!Disconnect
<1>5. Acceleration'
    BY DEF Connect!Setup, Connect!Fail, Connect!Disconnect
<1>6. Released'
    BY DEF Connect!Setup, Connect!Fail, Connect!Disconnect
<1> QED BY <1>1, <1>2, <1>3, <1>4, <1>5, <1>6

\* CONNECTED is entered with a complete link.
LEMMA EnterConnectedKeeps ==
    ASSUME MaxConnects \in Nat, ConnectInv, Connect!EnterConnected
    PROVE  ConnectInv'
<1>1. Connect!TypeOK'
    BY DEF Connect!EnterConnected
<1>2. Stages'
    BY DEF Connect!EnterConnected
<1>3. Transports'
    BY DEF Connect!EnterConnected
<1>4. Complete'
    BY DEF Connect!EnterConnected
<1>5. Acceleration'
    BY DEF Connect!EnterConnected
<1>6. Released'
    BY DEF Connect!EnterConnected
<1> QED BY <1>1, <1>2, <1>3, <1>4, <1>5, <1>6

\* The end of connect; its error branch is not reachable.
LEMMA FinishKeeps ==
    ASSUME MaxConnects \in Nat, ConnectInv, Connect!Finish
    PROVE  ConnectInv'
<1>1. Connect!TypeOK'
    BY DEF Connect!Finish, Connect!Fail, Connect!Disconnect
<1>2. Stages'
    BY DEF Connect!Finish, Connect!Fail, Connect!Disconnect
<1>3. Transports'
    BY DEF Connect!Finish, Connect!Fail, Connect!Disconnect
<1>4. Complete'
    BY DEF Connect!Finish, Connect!Fail, Connect!Disconnect
<1>5. Acceleration'
    BY DEF Connect!Finish, Connect!Fail, Connect!Disconnect
<1>6. Released'
    BY DEF Connect!Finish, Connect!Fail, Connect!Disconnect
<1> QED BY <1>1, <1>2, <1>3, <1>4, <1>5, <1>6

\* A cancel, from any thread.
LEMMA ForceCloseSocketKeeps ==
    ASSUME MaxConnects \in Nat, ConnectInv, Connect!ForceCloseSocket
    PROVE  ConnectInv'
<1>1. Connect!TypeOK'
    BY DEF Connect!ForceCloseSocket
<1>2. Stages'
    BY DEF Connect!ForceCloseSocket
<1>3. Transports'
    BY DEF Connect!ForceCloseSocket
<1>4. Complete'
    BY DEF Connect!ForceCloseSocket
<1>5. Acceleration'
    BY DEF Connect!ForceCloseSocket
<1>6. Released'
    BY DEF Connect!ForceCloseSocket
<1> QED BY <1>1, <1>2, <1>3, <1>4, <1>5, <1>6

\* The disconnect of the owner.
LEMMA NativeDisconnectKeeps ==
    ASSUME MaxConnects \in Nat, ConnectInv, Connect!NativeDisconnect
    PROVE  ConnectInv'
<1>1. Connect!TypeOK'
    BY DEF Connect!NativeDisconnect, Connect!Disconnect
<1>2. Stages'
    BY DEF Connect!NativeDisconnect, Connect!Disconnect
<1>3. Transports'
    BY DEF Connect!NativeDisconnect, Connect!Disconnect
<1>4. Complete'
    BY DEF Connect!NativeDisconnect, Connect!Disconnect
<1>5. Acceleration'
    BY DEF Connect!NativeDisconnect, Connect!Disconnect
<1>6. Released'
    BY DEF Connect!NativeDisconnect, Connect!Disconnect
<1> QED BY <1>1, <1>2, <1>3, <1>4, <1>5, <1>6

\* A disconnect and the entry of connect, in one call.
LEMMA ReconnectKeeps ==
    ASSUME MaxConnects \in Nat, ConnectInv, Connect!Reconnect
    PROVE  ConnectInv'
<1>1. Connect!TypeOK'
  <2>1. connects' \in 0..MaxConnects
      BY DEF Connect!Reconnect
  <2> QED BY <2>1 DEF Connect!Reconnect
<1>2. Stages'
    BY DEF Connect!Reconnect
<1>3. Transports'
    BY DEF Connect!Reconnect
<1>4. Complete'
    BY DEF Connect!Reconnect
<1>5. Acceleration'
    BY DEF Connect!Reconnect
<1>6. Released'
    BY DEF Connect!Reconnect
<1> QED BY <1>1, <1>2, <1>3, <1>4, <1>5, <1>6

\* With OwnerWaits no connect is running.
LEMMA DestroyKeeps ==
    ASSUME MaxConnects \in Nat, ConnectInv, Connect!Destroy
    PROVE  ConnectInv'
<1>1. Connect!TypeOK'
    BY DEF Connect!Destroy
<1>2. Stages'
    BY DEF Connect!Destroy
<1>3. Transports'
    BY DEF Connect!Destroy
<1>4. Complete'
    BY DEF Connect!Destroy
<1>5. Acceleration'
    BY DEF Connect!Destroy
<1>6. Released'
    BY DEF Connect!Destroy
<1> QED BY <1>1, <1>2, <1>3, <1>4, <1>5, <1>6

\* A new object is disconnected and holds nothing.
LEMMA ConnectStart == ASSUME MaxConnects \in Nat, Connect!Init PROVE ConnectInv
<1>1. Connect!TypeOK
  <2>1. connects \in 0..MaxConnects
      BY DEF Connect!Init
  <2> QED BY <2>1 DEF Connect!Init
<1>2. Stages /\ Transports
    BY DEF Connect!Init
<1>3. Complete /\ Acceleration /\ Released
    BY DEF Connect!Init
<1> QED BY <1>1, <1>2, <1>3

\* A stage of a running connect.
LEMMA ConnectStageKeeps ==
    ASSUME MaxConnects \in Nat, ConnectInv, Connect!ConnectStep
    PROVE  ConnectInv'
BY ResolveKeeps, TcpConnectKeeps, TlsKeeps, AfterTcpKeeps, RaceKeeps, GateKeeps,
   WatermarkKeeps, AuthKeeps, LoginFailedKeeps, TryNatTKeeps, NatTTlsSucceedsKeeps,
   NatTTlsFailsKeeps, SetupKeeps, EnterConnectedKeeps, FinishKeeps
DEF Connect!ConnectStep

\* Stages, cancels, disconnects and destroy, in any order.
LEMMA ConnectStep ==
    ASSUME MaxConnects \in Nat, ConnectInv, Connect!Next \/ UNCHANGED connectVars
    PROVE  ConnectInv'
<1>1. CASE UNCHANGED connectVars
    BY <1>1 DEF connectVars
<1> HIDE DEF ConnectInv
<1> QED BY <1>1, ConnectStageKeeps, StartKeeps, ForceCloseSocketKeeps,
           NativeDisconnectKeeps, ReconnectKeeps, DestroyKeeps
        DEF Connect!Next

\* The invariant at the end of a connect.
LEMMA ConnectImplies == ConnectInv => Connect!ConnectReleasesOrCompletes
<1> SUFFICES ASSUME ConnectInv PROVE Connect!ConnectReleasesOrCompletes
    OBVIOUS
<1>1. Connect!UdpFailureIsClean /\ Connect!NothingLost
    BY DEF Connect!UdpFailureIsClean, Connect!FailedConnectIsClean, Connect!NothingLost
<1>2. Connect!OnlyRaceWinnersLinger
    BY DEF Connect!OnlyRaceWinnersLinger
<1>3. Connect!ConnectedIsComplete
    BY DEF Connect!ConnectedIsComplete
<1> QED BY <1>1, <1>2, <1>3 DEF Connect!ConnectReleasesOrCompletes

HIDE DEF ConnectInv, Stages, Early, Transports, Complete, Acceleration, Released,
         Connect!Empty, Connect!TypeOK, Connect!Goto, Connect!Return, Connect!linkVars,
         Connect!transportVars, Connect!accelVars, Connect!resources, Connect!callVars

-----------------------------------------------------------------------------
(***************************************************************************)
(* An R-UDP transport.  That a caller was told "connected" truthfully      *)
(* needs to know what the session's first result says, before any caller   *)
(* reads it: a result "ok" is a session that heard the server and its      *)
(* port.                                                                   *)
(***************************************************************************)

TransportInv ==
    /\ Transport!TypeOK
    /\ Transport!WorkerOwnsDescriptors
    /\ Transport!ResultStands
    /\ udpResult = "ok" => status # "CONNECT_SENT" /\ your_port = server_port

USE DEF TransportInv, Transport!TypeOK, Transport!WorkerOwnsDescriptors,
        Transport!ResultStands, Transport!sessionVars, Transport!SignalResult,
        Transport!SetDisconnected, Transport!FailConnect, Transport!Running

\* The thread that connects and closes the transport, and who cancels it.
LEMMA OwnerOfTransportKeeps ==
    ASSUME TransportInv,
           \/ Transport!Connect \/ Transport!ConnectFailsEarly \/ Transport!OwnerStep
           \/ Transport!WaitExpires \/ Transport!Disconnect \/ Transport!Destroy
           \/ Transport!Cancel \/ Transport!AppCloses
    PROVE  TransportInv'
<1>1. CASE Transport!Connect
    BY <1>1 DEF Transport!Connect
<1>2. CASE Transport!ConnectFailsEarly
    BY <1>2 DEF Transport!ConnectFailsEarly
<1>3. CASE Transport!CheckCancel
    BY <1>3 DEF Transport!CheckCancel
<1>4. CASE Transport!ConnectResult
    BY <1>4 DEF Transport!ConnectResult
<1>5. CASE Transport!Join
    BY <1>5 DEF Transport!Join
<1>6. CASE Transport!WaitExpires
    BY <1>6 DEF Transport!WaitExpires
<1>7. CASE Transport!Disconnect
    BY <1>7 DEF Transport!Disconnect
<1>8. CASE Transport!Destroy
    BY <1>8 DEF Transport!Destroy
<1>9. CASE Transport!Cancel
    BY <1>9 DEF Transport!Cancel
<1>10. CASE Transport!AppCloses
    BY <1>10 DEF Transport!AppCloses
<1> QED BY <1>1, <1>2, <1>3, <1>4, <1>5, <1>6, <1>7, <1>8, <1>9, <1>10
        DEF Transport!OwnerStep

\* The transport's worker thread.
LEMMA WorkerOfTransportKeeps ==
    ASSUME TransportInv,
           \/ Transport!HandlePacket \/ Transport!HandleDisconnect
           \/ Transport!HandleSmallPacket \/ Transport!SessionTimesOut
           \/ Transport!AppGone \/ Transport!WorkerEnds
    PROVE  TransportInv'
<1>1. CASE Transport!HandlePacket
    BY <1>1 DEF Transport!HandlePacket
<1>2. CASE Transport!HandleDisconnect
    BY <1>2 DEF Transport!HandleDisconnect
<1>3. CASE Transport!HandleSmallPacket
    BY <1>3 DEF Transport!HandleSmallPacket
<1>4. CASE Transport!SessionTimesOut
    BY <1>4 DEF Transport!SessionTimesOut
<1>5. CASE Transport!AppGone
    BY <1>5 DEF Transport!AppGone
<1>6. CASE Transport!WorkerEnds
    BY <1>6 DEF Transport!WorkerEnds
<1> QED BY <1>1, <1>2, <1>3, <1>4, <1>5, <1>6

\* Owner and worker interleave in any order.
LEMMA TransportStep ==
    ASSUME TransportInv, Transport!Next \/ UNCHANGED transportVars
    PROVE  TransportInv'
<1>1. CASE UNCHANGED transportVars
    BY <1>1 DEF transportVars
<1> QED BY <1>1, OwnerOfTransportKeeps, WorkerOfTransportKeeps DEF Transport!Next

\* No worker, no descriptors, no verdict.
LEMMA TransportStart == Transport!Init => TransportInv
BY DEF Transport!Init
HIDE DEF TransportInv, Transport!TypeOK, Transport!WorkerOwnsDescriptors,
         Transport!ResultStands, Transport!sessionVars, Transport!SignalResult,
         Transport!SetDisconnected, Transport!FailConnect, Transport!Running

-----------------------------------------------------------------------------
(***************************************************************************)
(* The NAT-T rendezvous over any network.  What waits at the socket was    *)
(* said by the relay, so a report is what the relay said.                  *)
(***************************************************************************)

RelayInv ==
    /\ Rendezvous!TypeOK
    /\ datagrams \subseteq said
    /\ Rendezvous!SocketIsAccountedFor
    /\ Rendezvous!ReportIsTrue

\* There are seven kinds of reply, so the socket holds finitely many.
LEMMA RepliesAreFinite ==
    ASSUME NEW S, S \subseteq Rendezvous!Replies
    PROVE  IsFiniteSet(S)
<1>1. Rendezvous!Replies =
        {"ok", "lan", "broken", "missing", "many", "stranger", "stale"}
    BY DEF Rendezvous!Replies
<1>2. IsFiniteSet({"ok", "lan", "broken", "missing", "many", "stranger", "stale"})
  <2>1. IsFiniteSet({"ok"})
      BY FS_Singleton
  <2>2. IsFiniteSet({"ok"} \cup {"lan"})
      BY <2>1, FS_AddElement
  <2>3. IsFiniteSet(({"ok"} \cup {"lan"}) \cup {"broken"})
      BY <2>2, FS_AddElement
  <2>4. IsFiniteSet((({"ok"} \cup {"lan"}) \cup {"broken"}) \cup {"missing"})
      BY <2>3, FS_AddElement
  <2>5. IsFiniteSet(((({"ok"} \cup {"lan"}) \cup {"broken"}) \cup {"missing"}) \cup {"many"})
      BY <2>4, FS_AddElement
  <2>6. IsFiniteSet((((({"ok"} \cup {"lan"}) \cup {"broken"}) \cup {"missing"}) \cup {"many"})
                        \cup {"stranger"})
      BY <2>5, FS_AddElement
  <2>7. IsFiniteSet(((((({"ok"} \cup {"lan"}) \cup {"broken"}) \cup {"missing"}) \cup {"many"})
                        \cup {"stranger"}) \cup {"stale"})
      BY <2>6, FS_AddElement
  <2>8. ((((({"ok"} \cup {"lan"}) \cup {"broken"}) \cup {"missing"}) \cup {"many"})
                        \cup {"stranger"}) \cup {"stale"}
         = {"ok", "lan", "broken", "missing", "many", "stranger", "stale"}
      OBVIOUS
  <2> QED BY <2>7, <2>8
<1> QED BY <1>1, <1>2, FS_Subset

USE DEF RelayInv, Rendezvous!TypeOK, Rendezvous!SocketIsAccountedFor,
        Rendezvous!ReportIsTrue, Rendezvous!relayVars, Rendezvous!Return

\* NatTraversal's own name of the standard operator.
LEMMA SameCardinality == \A S : Rendezvous!Cardinality(S) = Cardinality(S)
BY Zenon DEF Rendezvous!Cardinality, Cardinality

\* A request is due a backoff after the turn that sent the last one.
LEMMA DueTimes ==
    ASSUME NEW t \in 0..Deadline, NEW n \in Nat
    PROVE  t + Rendezvous!Backoff(n) \in Rendezvous!DueTicks
<1> SUFFICES \E k \in 0..MaxExp : Rendezvous!Backoff(n) = Rendezvous!Backoff(k)
  <2>1. ASSUME NEW k \in 0..MaxExp, Rendezvous!Backoff(n) = Rendezvous!Backoff(k)
        PROVE  t + Rendezvous!Backoff(n) \in Rendezvous!DueTicks
    <3>1. t + Rendezvous!Backoff(k) \in Rendezvous!DueTicks
        BY SMT DEF Rendezvous!DueTicks
    <3> QED BY <2>1, <3>1
  <2> QED BY <2>1
<1>1. CASE n < MaxExp
  <2>1. n \in 0..MaxExp
      BY <1>1, Numbers
  <2> QED BY <2>1
<1>2. CASE ~(n < MaxExp)
  <2>1. Rendezvous!Backoff(n) = Rendezvous!Backoff(MaxExp) /\ MaxExp \in 0..MaxExp
      BY <1>2, Numbers DEF Rendezvous!Backoff
  <2> QED BY <2>1
<1> QED BY <1>1, <1>2

\* Receiving or losing a datagram leaves room in the socket.
LEMMA FewerReplies ==
    ASSUME RelayInv, NEW m \in datagrams
    PROVE  Cardinality(datagrams \ {m}) <= MaxInbox
<1>1. IsFiniteSet(datagrams)
    BY RepliesAreFinite
<1>2. /\ Cardinality(datagrams) \in Nat
      /\ Cardinality(datagrams \ {m}) = Cardinality(datagrams) - 1
    BY <1>1, FS_CardinalityType, FS_RemoveElement
<1>3. PICK k \in Nat : Cardinality(datagrams) = k
    BY <1>2
<1>4. k <= MaxInbox
    BY <1>3, SameCardinality
<1> QED BY <1>2, <1>3, <1>4, Numbers

\* A reply arrives only where there is room.
LEMMA OneMoreReply ==
    ASSUME RelayInv, NEW m, m \notin datagrams, Cardinality(datagrams) < MaxInbox
    PROVE  Cardinality(datagrams \cup {m}) <= MaxInbox
<1>1. IsFiniteSet(datagrams)
    BY RepliesAreFinite
<1>2. /\ Cardinality(datagrams) \in Nat
      /\ Cardinality(datagrams \cup {m}) = Cardinality(datagrams) + 1
    BY <1>1, FS_CardinalityType, FS_AddElement
<1> QED BY <1>2, Numbers

\* The client: each turn reads a reply, sends, or gives up.
LEMMA RelayClientKeeps ==
    ASSUME RelayInv, Rendezvous!Client
    PROVE  RelayInv'
<1> USE Numbers
<1>1. CASE Rendezvous!Resolved
    BY <1>1 DEF Rendezvous!Resolved
<1>2. CASE Rendezvous!SetupFails
    BY <1>2 DEF Rendezvous!SetupFails
<1>3. CASE Rendezvous!Check
    BY <1>3 DEF Rendezvous!Check
<1>4. CASE Rendezvous!Drained
    BY <1>4 DEF Rendezvous!Drained
<1>5. CASE Rendezvous!Send
  <2>1. next_send_tick' \in Rendezvous!DueTicks
    <3>1. CASE next_send_tick' = turn + Rendezvous!Backoff(num_tries)
        BY <3>1, DueTimes
    <3>2. CASE next_send_tick' = next_send_tick
        BY <3>2
    <3> QED BY <1>5, <3>1, <3>2 DEF Rendezvous!Send
  <2>2. natAsked' \in {natAsked \cup {current_cookie}, natAsked}
      BY <1>5, Zenon DEF Rendezvous!Send
  <2>3. natAsked' \subseteq BOOLEAN
      BY <2>2, Zenon
  <2>4. num_tries' \in Nat
      BY <1>5 DEF Rendezvous!Send
  <2> QED BY <1>5, <2>1, <2>3, <2>4 DEF Rendezvous!Send
<1>6. CASE Rendezvous!Wake
    BY <1>6 DEF Rendezvous!Wake
<1>7. CASE Rendezvous!Receive
  <2>1. PICK m \in datagrams : Rendezvous!OnReply(m) /\ datagrams' = datagrams \ {m}
      BY <1>7 DEF Rendezvous!Receive
  <2>2. Rendezvous!Cardinality(datagrams') <= MaxInbox
      BY <2>1, FewerReplies, SameCardinality
  <2>3. m \in said /\ natPc = "drain"
      BY <1>7, <2>1 DEF Rendezvous!Receive
  <2>4. m \in {"ok", "lan", "broken", "missing", "many", "stranger", "stale"}
      BY DEF Rendezvous!Replies
  <2>5. UNCHANGED <<tick, turn, next_send_tick, num_tries, natAsked, said, raceCancel>>
      BY <1>7 DEF Rendezvous!Receive
  <2>6. current_cookie' \in BOOLEAN
      BY <2>1, Zenon DEF Rendezvous!OnReply
  <2>7. /\ m = "ok" => Rendezvous!Return("done", "handed", "ok")
        /\ m = "lan" => Rendezvous!Return("done", "closed", "ok")
        /\ m = "missing" => Rendezvous!Return("failed", "closed", "not_found")
        /\ m = "many" => Rendezvous!Return("failed", "closed", "two_or_more")
        /\ m \in {"broken", "stranger", "stale"} => UNCHANGED <<natPc, fd, natError>>
      BY <2>1 DEF Rendezvous!OnReply
  <2>8. Rendezvous!TypeOK'
      BY <2>1, <2>2, <2>4, <2>5, <2>6, <2>7
  <2>9. Rendezvous!SocketIsAccountedFor' /\ Rendezvous!ReportIsTrue'
      BY <2>3, <2>4, <2>5, <2>7
  <2> QED BY <2>1, <2>5, <2>8, <2>9
<1> QED BY <1>1, <1>2, <1>3, <1>4, <1>5, <1>6, <1>7 DEF Rendezvous!Client, Rendezvous!Turn

\* The relay, the network, the clock and the race that cancels.
LEMMA RelayOthersKeep ==
    ASSUME RelayInv,
           \/ Rendezvous!RelayAnswers \/ Rendezvous!NetworkFails
           \/ Rendezvous!TimePasses \/ Rendezvous!Cancelled
    PROVE  RelayInv'
<1> USE Numbers
<1>1. CASE Rendezvous!RelayAnswers
    BY <1>1 DEF Rendezvous!RelayAnswers, Rendezvous!Replies
<1>2. CASE Rendezvous!NetworkFails
  <2>1. Rendezvous!Cardinality(datagrams') <= MaxInbox
    <3>1. CASE \E m \in datagrams : datagrams' = datagrams \ {m}
        BY <3>1, FewerReplies, SameCardinality
    <3>2. CASE \E m \in said \ datagrams : /\ Rendezvous!Cardinality(datagrams) < MaxInbox
                                            /\ datagrams' = datagrams \union {m}
        BY <3>2, OneMoreReply, SameCardinality
    <3> QED BY <1>2, <3>1, <3>2 DEF Rendezvous!NetworkFails
  <2>2. datagrams' \subseteq said
      BY <1>2 DEF Rendezvous!NetworkFails
  <2>3. UNCHANGED <<natPc, fd, natError, tick, turn, next_send_tick, num_tries,
                    current_cookie, natAsked, said, raceCancel>>
      BY <1>2 DEF Rendezvous!NetworkFails
  <2> QED BY <2>1, <2>2, <2>3
<1>3. CASE Rendezvous!TimePasses
    BY <1>3 DEF Rendezvous!TimePasses
<1>4. CASE Rendezvous!Cancelled
    BY <1>4 DEF Rendezvous!Cancelled
<1> QED BY <1>1, <1>2, <1>3, <1>4

\* The client and its surroundings interleave in any order.
LEMMA RelayStep ==
    ASSUME RelayInv, Rendezvous!Next \/ UNCHANGED natVars
    PROVE  RelayInv'
<1>1. CASE UNCHANGED natVars
    BY <1>1 DEF natVars
<1> QED BY <1>1, RelayClientKeeps, RelayOthersKeep DEF Rendezvous!Next

\* Nothing asked, nothing said.
LEMMA RelayStart == Rendezvous!Init => RelayInv
<1> SUFFICES ASSUME Rendezvous!Init PROVE RelayInv
    OBVIOUS
<1>1. Cardinality(datagrams) = 0
    BY FS_EmptySet DEF Rendezvous!Init
<1>2. /\ tick \in 0..Deadline /\ turn \in 0..Deadline /\ num_tries \in Nat
      /\ Rendezvous!Cardinality(datagrams) <= MaxInbox
    BY <1>1, Numbers, SameCardinality DEF Rendezvous!Init
<1>3. next_send_tick \in Rendezvous!DueTicks
    BY DEF Rendezvous!Init, Rendezvous!DueTicks
<1> QED BY <1>2, <1>3 DEF Rendezvous!Init
HIDE DEF RelayInv, Rendezvous!TypeOK, Rendezvous!SocketIsAccountedFor,
         Rendezvous!ReportIsTrue, Rendezvous!relayVars, Rendezvous!Return

-----------------------------------------------------------------------------
(***************************************************************************)
(* The NAT-T rendezvous with a relay that answers at once.                 *)
(***************************************************************************)

\* With a relay that answers at once a call that was not answered yet is in
\* one of three phases: the first request is not sent; it is, and brings the
\* cookie before the next one is due; the second is, and brings the answer.
CookieComes == FALSE \in natAsked \/ "stale" \in datagrams \/ current_cookie
AnswerComes == TRUE \in natAsked \/ "ok" \in datagrams \/ "lan" \in datagrams

NothingAsked ==
    next_send_tick = 0 /\ num_tries = 0 /\ tick = 0 /\ turn = 0 /\ natPc # "wait"

AskedForCookie ==
    /\ next_send_tick = 1 /\ tick \in 0..1 /\ turn \in 0..tick
    /\ CookieComes
    /\ tick = 1 => current_cookie
    /\ turn = 1 => natPc \in {"drain", "send"}
    /\ natPc \in {"drain", "send"} => turn = tick

AskedForAnswer == tick = 1 /\ current_cookie /\ AnswerComes

PromptRelayInv ==
    /\ natPc \in {"resolve", "check", "drain", "send", "wait", "done", "failed"}
    /\ natAsked \subseteq BOOLEAN /\ current_cookie \in BOOLEAN
    /\ datagrams \subseteq {"ok", "lan", "stale"}
    /\ natError = "no_response" => raceCancel
    /\ \/ natPc \in {"done", "failed"}
       \/ NothingAsked \/ AskedForCookie \/ AskedForAnswer

USE DEF PromptRelayInv, NothingAsked, AskedForCookie, AskedForAnswer,
        RendezvousPrompt!relayVars, RendezvousPrompt!Return

\* What is asked and answered stays so while the socket and the relay rest.
LEMMA PromptRelayRests ==
    ASSUME UNCHANGED <<natAsked, datagrams, current_cookie>>
    PROVE  CookieComes' = CookieComes /\ AnswerComes' = AnswerComes
BY DEF CookieComes, AnswerComes

\* The head of a turn: the call is far from its deadline.
LEMMA PromptCheckKeeps ==
    ASSUME PromptRelayInv, RendezvousPrompt!Check
    PROVE  PromptRelayInv'
<1>1. natPc = "check" /\ tick \in 0..1 /\ tick < Deadline
    BY Numbers DEF RendezvousPrompt!Check
<1>2. /\ turn' = tick
      /\ UNCHANGED <<tick, next_send_tick, num_tries, current_cookie, natAsked,
                     datagrams, said, raceCancel>>
    BY DEF RendezvousPrompt!Check
<1>3. CASE raceCancel
    BY <1>2, <1>3 DEF RendezvousPrompt!Check
<1>4. CASE ~raceCancel
  <2>1. natPc' = "drain" /\ natError' = natError
      BY <1>1, <1>4, Numbers DEF RendezvousPrompt!Check
  <2> QED BY <1>1, <1>2, <2>1, PromptRelayRests
<1> QED BY <1>3, <1>4

\* The request that is due: the first at once, the second with the cookie.
LEMMA PromptSendKeeps ==
    ASSUME PromptRelayInv, RendezvousPrompt!Send
    PROVE  PromptRelayInv'
<1>1. /\ natPc = "send" /\ natPc' = "wait"
      /\ UNCHANGED <<natError, tick, turn, current_cookie, datagrams, raceCancel>>
    BY DEF RendezvousPrompt!Send
<1>2. natAsked' \in {natAsked \cup {current_cookie}, natAsked}
    BY Zenon DEF RendezvousPrompt!Send
<1>3. natAsked' \subseteq BOOLEAN /\ natAsked \subseteq natAsked'
    BY <1>2
<1>4. (CookieComes => CookieComes') /\ (AnswerComes => AnswerComes')
    BY <1>1, <1>3 DEF CookieComes, AnswerComes
<1>5. CASE NothingAsked
  <2>1. RendezvousPrompt!Backoff(0) = 1
    <3>1. (IF 0 < MaxExp THEN 0 ELSE MaxExp) = 0
        BY Numbers
    <3>2. RendezvousPrompt!Backoff(0) = 2 ^ (IF 0 < MaxExp THEN 0 ELSE MaxExp)
        BY Zenon DEF RendezvousPrompt!Backoff
    <3>3. 2 ^ 0 = 1
        OBVIOUS
    <3> QED BY <3>1, <3>2, <3>3
  <2>2. next_send_tick' = 1
      BY <1>5, <2>1 DEF RendezvousPrompt!Send
  <2>3. natAsked' = natAsked \cup {current_cookie}
      BY <1>5 DEF RendezvousPrompt!Send
  <2>4. CookieComes'
      BY <1>1, <2>3, Zenon DEF CookieComes
  <2> QED BY <1>1, <1>3, <1>5, <2>2, <2>4
<1>6. CASE AskedForCookie /\ turn = 0
  <2>1. next_send_tick' = 1
      BY <1>6 DEF RendezvousPrompt!Send
  <2> QED BY <1>1, <1>3, <1>4, <1>6, <2>1
<1>7. CASE AskedForCookie /\ turn # 0
  <2>1. turn = 1 /\ tick = 1 /\ next_send_tick = 1 /\ current_cookie
      BY <1>7
  <2>2. natAsked' = natAsked \cup {current_cookie}
    <3>1. turn >= next_send_tick
        BY <2>1
    <3> QED BY <3>1, Zenon DEF RendezvousPrompt!Send
  <2>3. AnswerComes'
      BY <2>1, <2>2, Zenon DEF AnswerComes
  <2> QED BY <1>1, <1>3, <2>1, <2>3
<1>8. CASE AskedForAnswer
    BY <1>1, <1>3, <1>4, <1>8
<1> QED BY <1>1, <1>5, <1>6, <1>7, <1>8

\* The cookie and the answers.
LEMMA PromptReceiveKeeps ==
    ASSUME PromptRelayInv, RendezvousPrompt!Receive
    PROVE  PromptRelayInv'
<1>1. PICK m \in datagrams : RendezvousPrompt!OnReply(m) /\ datagrams' = datagrams \ {m}
    BY DEF RendezvousPrompt!Receive
<1>2. /\ natPc = "drain"
      /\ UNCHANGED <<tick, turn, next_send_tick, num_tries, natAsked, raceCancel>>
    BY DEF RendezvousPrompt!Receive
<1>3. current_cookie' = TRUE
    BY <1>1 DEF RendezvousPrompt!OnReply
<1>4. CASE m = "ok" \/ m = "lan"
    BY <1>1, <1>2, <1>3, <1>4 DEF RendezvousPrompt!OnReply
<1>5. CASE m = "stale"
  <2>1. UNCHANGED <<natPc, fd, natError>>
      BY <1>1, <1>5 DEF RendezvousPrompt!OnReply
  <2>2. CookieComes' /\ (AnswerComes => AnswerComes')
      BY <1>1, <1>2, <1>3, <1>5 DEF CookieComes, AnswerComes
  <2> QED BY <1>1, <1>2, <1>3, <2>1, <2>2
<1> QED BY <1>4, <1>5

\* The relay answers with its cookie, or to it.
LEMMA PromptAnswersKeep ==
    ASSUME PromptRelayInv, RendezvousPrompt!RelayAnswers
    PROVE  PromptRelayInv'
<1>1. PICK c \in natAsked : \E m \in IF c THEN {"ok", "lan"} ELSE {"stale"} :
        natAsked' = natAsked \ {c} /\ datagrams' = datagrams \cup {m}
    BY Zenon DEF RendezvousPrompt!RelayAnswers
<1>2. PICK m \in IF c THEN {"ok", "lan"} ELSE {"stale"} :
        natAsked' = natAsked \ {c} /\ datagrams' = datagrams \cup {m}
    BY <1>1
<1>3. UNCHANGED <<natPc, natError, tick, turn, next_send_tick, num_tries,
                  current_cookie, raceCancel>>
    BY DEF RendezvousPrompt!RelayAnswers
<1>4. c \in BOOLEAN
    OBVIOUS
<1>5. CASE c = TRUE
  <2>1. m \in {"ok", "lan"}
      BY <1>5
  <2>2. AnswerComes' /\ (CookieComes => CookieComes')
      BY <1>2, <1>3, <1>5, <2>1, Zenon DEF CookieComes, AnswerComes
  <2> QED BY <1>2, <1>3, <2>1, <2>2
<1>6. CASE c = FALSE
  <2>1. m = "stale"
      BY <1>6
  <2>2. CookieComes' /\ (AnswerComes => AnswerComes')
      BY <1>2, <1>3, <1>6, <2>1, Zenon DEF CookieComes, AnswerComes
  <2> QED BY <1>2, <1>3, <2>1, <2>2
<1> QED BY <1>4, <1>5, <1>6

\* Time passes only when the prompt relay owes nothing, so no phase is skipped.
LEMMA PromptTimeKeeps ==
    ASSUME PromptRelayInv, RendezvousPrompt!TimePasses
    PROVE  PromptRelayInv'
<1>1. /\ natPc = "wait" /\ tick = turn /\ natAsked = {} /\ datagrams = {}
      /\ tick' = tick + 1
      /\ UNCHANGED <<natPc, natError, turn, next_send_tick, current_cookie, natAsked,
                     datagrams, raceCancel>>
    BY DEF RendezvousPrompt!TimePasses, RendezvousPrompt!TimePasses
<1>2. ~AnswerComes /\ (CookieComes => current_cookie)
    BY <1>1 DEF AnswerComes, CookieComes
<1>3. AskedForCookie /\ tick = 0 /\ current_cookie
    BY <1>1, <1>2
<1>4. CookieComes'
    BY <1>1, <1>3 DEF CookieComes
<1> QED BY <1>1, <1>3, <1>4

\* Each step keeps the phase or moves to the next.
LEMMA PromptRelayStep ==
    ASSUME PromptRelayInv, RendezvousPrompt!Next \/ UNCHANGED natVars
    PROVE  PromptRelayInv'
<1>1. CASE RendezvousPrompt!Resolved
    BY <1>1, PromptRelayRests DEF RendezvousPrompt!Resolved
<1>2. CASE RendezvousPrompt!SetupFails
    BY <1>2 DEF RendezvousPrompt!SetupFails
<1>3. CASE RendezvousPrompt!Drained
    BY <1>3, PromptRelayRests DEF RendezvousPrompt!Drained
<1>4. CASE RendezvousPrompt!Wake
    BY <1>4, PromptRelayRests DEF RendezvousPrompt!Wake
<1>5. CASE RendezvousPrompt!Cancelled
    BY <1>5, PromptRelayRests DEF RendezvousPrompt!Cancelled
<1>6. CASE RendezvousPrompt!NetworkFails
    BY <1>6 DEF RendezvousPrompt!NetworkFails
<1>7. CASE UNCHANGED natVars
    BY <1>7, PromptRelayRests DEF natVars
<1> QED BY <1>1, <1>2, <1>3, <1>4, <1>5, <1>6, <1>7, PromptCheckKeeps, PromptSendKeeps,
           PromptReceiveKeeps, PromptAnswersKeep, PromptTimeKeeps
        DEF RendezvousPrompt!Next, RendezvousPrompt!Client, RendezvousPrompt!Turn

\* The first phase: nothing asked.
LEMMA PromptRelayStart == Rendezvous!Init => PromptRelayInv
BY DEF Rendezvous!Init
HIDE DEF PromptRelayInv, NothingAsked, AskedForCookie, AskedForAnswer,
         RendezvousPrompt!relayVars, RendezvousPrompt!Return

-----------------------------------------------------------------------------
(***************************************************************************)
(* DHCP, for any servers that send every option, over any network.  The    *)
(* replies of all attempts and servers reach the same wait, so the queue   *)
(* has to be trusted: an ACK in it comes from a server that committed the  *)
(* lease (Waits).  The gateway's MAC address is unset until the call ends, *)
(* while the address it is for may change from the router to the resolver  *)
(* (Gateway).                                                              *)
(***************************************************************************)

\* A queue of frames in which every ACK is one whose sender committed the lease.
Waits(queue, granted) ==
    /\ queue \in Seq(Dhcp!Frame) /\ Len(queue) <= MaxQueue
    /\ \A i \in 1..Len(queue) :
         queue[i].kind = "dhcp" /\ queue[i].type = "ack" => queue[i].from \in granted

\* The call: its counters, and what it has of a lease.
CallTypes ==
    /\ dhcpPc \in {"start", "offer", "ack", "arp", "done", "failed"}
    /\ retry \in 0..MaxRetries /\ elapsed \in 0..Polls /\ reads \in 0..(2 * ArpReads)
    /\ dhcpPc \in {"start", "offer", "ack"} => retry < MaxRetries

LeaseTypes ==
    /\ lease \in [ip : Servers \cup {NoServer}, gw : Dhcp!Address, dns : Dhcp!Address]
    /\ serverId \in Servers \cup {NoServer}
    /\ conn \in [assigned : Servers \cup {NoServer}, gateway : Dhcp!Address, mac : Dhcp!Address]

NetTypes ==
    asked \in [Servers -> Seq(Dhcp!Request)] /\ leases \subseteq Servers /\ closed \in BOOLEAN

Gateway ==
    /\ dhcpPc \in {"arp", "done"} => conn.assigned = lease.ip
    /\ dhcpPc # "done" => conn.mac = Dhcp!NoAddr
    /\ Dhcp!MacIsGateways

DhcpInv ==
    /\ CallTypes
    /\ LeaseTypes
    /\ NetTypes
    /\ Waits(inbox, leases)
    /\ Dhcp!LeaseIsOneServers
    /\ Gateway

\* What a frame of each kind carries.
LEMMA FrameKinds ==
    ASSUME NEW f \in Dhcp!Frame
    PROVE  /\ f.kind = "dhcp" => f.type \in {"offer", "ack", "nak"} /\ f.from \in Servers
           /\ f.kind = "arp" => f.of \in Dhcp!Address
           /\ f.kind \in {"dhcp", "arp", "other", "keepalive"}
BY DEF Dhcp!Frame

\* A server's router and resolver are addresses, its router a real one.
LEMMA Addresses ==
    ASSUME NEW s \in Servers
    PROVE  /\ Dhcp!Router(s) \in Dhcp!Address /\ Dhcp!Resolver(s) \in Dhcp!Address
           /\ Dhcp!Router(s) # Dhcp!NoAddr /\ Dhcp!NoAddr \in Dhcp!Address
BY DEF Dhcp!Router, Dhcp!Resolver, Dhcp!Address, Dhcp!NoAddr

\* 0.0.0.0, an option that was not seen.
LEMMA NoAddress == Dhcp!NoAddr \in Dhcp!Address
BY DEF Dhcp!Address, Dhcp!NoAddr

\* Reading a frame.
LEMMA ReadsFrame ==
    ASSUME NEW granted, NEW queue, Waits(queue, granted), queue # <<>>
    PROVE  /\ Waits(Tail(queue), granted)
           /\ Head(queue) \in Dhcp!Frame
           /\ Head(queue).kind = "dhcp" /\ Head(queue).type = "ack" => Head(queue).from \in granted
<1>1. queue \in Seq(Dhcp!Frame) /\ Len(queue) \in Nat /\ Len(queue) > 0
    BY DEF Waits
<1>2. /\ Tail(queue) \in Seq(Dhcp!Frame) /\ Len(Tail(queue)) = Len(queue) - 1
      /\ \A i \in 1..(Len(queue) - 1) : Tail(queue)[i] = queue[i + 1]
      /\ Head(queue) = queue[1]
    BY <1>1
<1>3. PICK n \in Nat : Len(queue) = n
    BY <1>1
<1>4. \A i \in 1..(n - 1) : i + 1 \in 1..n
    OBVIOUS
<1> QED BY <1>1, <1>2, <1>3, <1>4, Numbers DEF Waits

\* Receiving one.
LEMMA GetsFrame ==
    ASSUME NEW granted, NEW more, granted \subseteq more,
           NEW queue, Waits(queue, granted), Len(queue) < MaxQueue,
           NEW f \in Dhcp!Frame,
           f.kind = "dhcp" /\ f.type = "ack" => f.from \in more
    PROVE  Waits(Append(queue, f), more)
<1>1. queue \in Seq(Dhcp!Frame) /\ Len(queue) \in Nat
    BY DEF Waits
<1>2. PICK n \in Nat : Len(queue) = n
    BY <1>1
<1>3. /\ Append(queue, f) \in Seq(Dhcp!Frame) /\ Len(Append(queue, f)) = n + 1
      /\ \A i \in 1..n : Append(queue, f)[i] = queue[i]
      /\ Append(queue, f)[n + 1] = f
    BY <1>1, <1>2
<1>4. \A i \in 1..(n + 1) : i \in 1..n \/ i = n + 1
    OBVIOUS
<1>5. n + 1 <= MaxQueue
    BY <1>2, Numbers
<1> QED BY <1>1, <1>2, <1>3, <1>4, <1>5 DEF Waits

\* Committing one more lease makes no waiting ACK untrue.
LEMMA MoreGrants ==
    ASSUME NEW queue, NEW granted, NEW more, granted \subseteq more, Waits(queue, granted)
    PROVE  Waits(queue, more)
BY DEF Waits

\* The requests a server has not handled yet.
LEMMA Broadcasts ==
    ASSUME NetTypes, NEW r \in Dhcp!Request, Dhcp!Broadcast(r)
    PROVE  asked' \in [Servers -> Seq(Dhcp!Request)]
<1>1. \A s \in Servers : Append(asked[s], r) \in Seq(Dhcp!Request)
    BY DEF NetTypes
<1> QED BY <1>1 DEF Dhcp!Broadcast

\* A server takes the first request of its queue.
LEMMA Handles ==
    ASSUME NetTypes, NEW s \in Servers, asked[s] # <<>>,
           asked' = [asked EXCEPT ![s] = Tail(@)]
    PROVE  asked' \in [Servers -> Seq(Dhcp!Request)]
<1>1. Tail(asked[s]) \in Seq(Dhcp!Request)
    BY DEF NetTypes
<1> QED BY <1>1 DEF NetTypes

\* What the wait for a reply, or the next attempt, does to the counters.
LEMMA Retries ==
    ASSUME CallTypes, dhcpPc \in {"offer", "ack"}, Dhcp!NextRetry, UNCHANGED reads
    PROVE  CallTypes' /\ dhcpPc' \in {"start", "failed"}
<1>1. retry + 1 \in 0..MaxRetries
    BY Numbers DEF CallTypes
<1>2. elapsed' \in 0..Polls
    BY Numbers DEF Dhcp!NextRetry
<1>3. dhcpPc' \in {"start", "failed"} /\ (dhcpPc' = "start" => retry' < MaxRetries)
    BY DEF Dhcp!NextRetry
<1> QED BY <1>1, <1>2, <1>3 DEF CallTypes, Dhcp!NextRetry

\* Before a lease is complete, nothing is promised of it but its types.
LEMMA NotYet ==
    ASSUME DhcpInv, dhcpPc \in {"start", "offer", "ack"}, dhcpPc' \notin {"arp", "done"},
           conn' = conn
    PROVE  Dhcp!LeaseIsOneServers' /\ Gateway'
<1>1. conn.mac = Dhcp!NoAddr
    BY DEF DhcpInv, Gateway
<1> QED BY <1>1 DEF Dhcp!LeaseIsOneServers, Gateway, Dhcp!MacIsGateways, Dhcp!NoAddr

\* The start of an attempt.
LEMMA SendDiscoverKeeps ==
    ASSUME DhcpInv, Dhcp!SendDiscover
    PROVE  DhcpInv'
<1>1. /\ dhcpPc = "start" /\ dhcpPc' \in {"failed", "offer"} /\ elapsed' = 0
      /\ UNCHANGED <<retry, inbox, lease, serverId, leases, closed, conn, reads>>
    BY DEF Dhcp!SendDiscover
<1>2. [type |-> "discover", to |-> NoServer] \in Dhcp!Request
    BY DEF Dhcp!Request
<1>3. NetTypes'
    BY <1>1, <1>2, Broadcasts DEF Dhcp!SendDiscover, DhcpInv, NetTypes
<1>4. CallTypes'
    BY <1>1, Numbers DEF DhcpInv, CallTypes
<1>5. LeaseTypes' /\ Waits(inbox, leases)'
    BY <1>1 DEF DhcpInv, LeaseTypes
<1>6. Dhcp!LeaseIsOneServers' /\ Gateway'
    BY <1>1, NotYet
<1> QED BY <1>3, <1>4, <1>5, <1>6 DEF DhcpInv

\* A reply with every option replaces all of the result by one server's.
LEMMA Merges ==
    ASSUME LeaseTypes, NEW s \in Servers
    PROVE  LET r == Dhcp!Merge(lease, s)
           IN  /\ r \in [ip : Servers \cup {NoServer}, gw : Dhcp!Address, dns : Dhcp!Address]
               /\ r.ip = s /\ r.gw = Dhcp!Router(s) /\ r.dns = Dhcp!Resolver(s)
BY Addresses DEF Dhcp!Merge

\* An offer leads to a request; an ACK to the gateway's resolution.
LEMMA ReadReplyKeeps ==
    ASSUME DhcpInv, Dhcp!ReadReply
    PROVE  DhcpInv'
<1> DEFINE m == Head(inbox)
<1>1. /\ dhcpPc \in {"offer", "ack"} /\ inbox # <<>> /\ m.kind = "dhcp"
      /\ lease' = Dhcp!Merge(lease, m.from) /\ serverId' = m.from
      /\ Dhcp!OnOffer(m) \/ Dhcp!OnAck(m)
      /\ inbox' = Tail(inbox)
      /\ UNCHANGED <<leases, closed, reads>>
    BY DEF Dhcp!ReadReply
<1>2. /\ Waits(inbox, leases)'
      /\ m \in Dhcp!Frame
      /\ m.type = "ack" => m.from \in leases
    BY <1>1, ReadsFrame DEF DhcpInv
<1>3. m.type \in {"offer", "ack", "nak"} /\ m.from \in Servers
    BY <1>1, <1>2, FrameKinds
<1> HIDE DEF m
<1>4. /\ lease' \in [ip : Servers \cup {NoServer}, gw : Dhcp!Address, dns : Dhcp!Address]
      /\ lease'.ip = m.from /\ lease'.gw = Dhcp!Router(m.from)
      /\ lease'.dns = Dhcp!Resolver(m.from)
    BY <1>1, <1>3, Merges DEF DhcpInv
<1>5. CASE Dhcp!OnOffer(m)
  <2>1. dhcpPc = "offer" /\ conn' = conn
      BY <1>5 DEF Dhcp!OnOffer
  <2>2. CASE m.type = "offer"
    <3>1. CASE closed
      <4>1. dhcpPc' = "failed" /\ UNCHANGED <<retry, elapsed, asked>>
          BY <1>5, <2>2, <3>1 DEF Dhcp!OnOffer
      <4> QED BY <1>1, <1>2, <1>3, <1>4, <2>1, <4>1, NotYet
              DEF DhcpInv, CallTypes, LeaseTypes, NetTypes
    <3>2. CASE ~closed
      <4>1. /\ dhcpPc' = "ack" /\ elapsed' = 0 /\ retry' = retry
            /\ Dhcp!Broadcast([type |-> "request", to |-> m.from])
          BY <1>5, <2>2, <3>2 DEF Dhcp!OnOffer
      <4>2. [type |-> "request", to |-> m.from] \in Dhcp!Request
          BY <1>3 DEF Dhcp!Request
      <4>3. NetTypes'
          BY <1>1, <4>1, <4>2, Broadcasts DEF DhcpInv, NetTypes
      <4>4. CallTypes'
          BY <1>1, <2>1, <4>1, Numbers DEF DhcpInv, CallTypes
      <4> QED BY <1>1, <1>2, <1>3, <1>4, <2>1, <4>1, <4>3, <4>4, NotYet
              DEF DhcpInv, LeaseTypes
    <3> QED BY <3>1, <3>2
  <2>3. CASE m.type # "offer"
    <3>1. Dhcp!NextRetry /\ asked' = asked
        BY <1>5, <2>3 DEF Dhcp!OnOffer
    <3>2. CallTypes' /\ dhcpPc' \in {"start", "failed"}
        BY <1>1, <3>1, Retries DEF DhcpInv
    <3> QED BY <1>1, <1>2, <1>3, <1>4, <2>1, <3>1, <3>2, NotYet
            DEF DhcpInv, LeaseTypes, NetTypes
  <2> QED BY <2>2, <2>3
<1>6. CASE Dhcp!OnAck(m)
  <2>1. dhcpPc = "ack" /\ asked' = asked
      BY <1>6 DEF Dhcp!OnAck
  <2>2. NetTypes'
      BY <1>1, <2>1 DEF DhcpInv, NetTypes
  <2>3. CASE m.type = "ack"
    <3>1. Dhcp!Merge(lease, m.from) = lease' /\ lease'.gw # Dhcp!NoAddr
        BY <1>1, <1>3, <1>4, Addresses
    <3>2. /\ dhcpPc' = "arp" /\ UNCHANGED <<retry, elapsed>>
          /\ conn' = [conn EXCEPT !.assigned = lease'.ip, !.gateway = lease'.gw]
        BY <1>6, <2>3, <3>1 DEF Dhcp!OnAck
    <3>3. /\ conn' \in [assigned : Servers \cup {NoServer}, gateway : Dhcp!Address,
                        mac : Dhcp!Address]
          /\ conn'.assigned = lease'.ip /\ conn'.mac = conn.mac
        BY <1>3, <1>4, <3>2, Addresses DEF DhcpInv, LeaseTypes
    <3>4. CallTypes' /\ LeaseTypes'
        BY <1>1, <1>3, <1>4, <3>2, <3>3 DEF DhcpInv, CallTypes, LeaseTypes
    <3>5. Gateway'
        BY <2>1, <3>2, <3>3 DEF DhcpInv, Gateway, Dhcp!MacIsGateways, Dhcp!NoAddr
    <3>6. Dhcp!LeaseIsOneServers'
        BY <1>1, <1>2, <1>4, <2>3 DEF Dhcp!LeaseIsOneServers, Dhcp!Router, Dhcp!Resolver
    <3> QED BY <1>2, <2>2, <3>4, <3>5, <3>6 DEF DhcpInv
  <2>4. CASE m.type = "nak"
    <3>1. dhcpPc' = "failed" /\ UNCHANGED <<retry, elapsed, conn>>
        BY <1>6, <2>4 DEF Dhcp!OnAck
    <3> QED BY <1>1, <1>2, <1>3, <1>4, <2>1, <2>2, <3>1, NotYet
            DEF DhcpInv, CallTypes, LeaseTypes
  <2>5. CASE m.type = "offer"
    <3>1. Dhcp!NextRetry /\ conn' = conn
        BY <1>6, <2>5 DEF Dhcp!OnAck
    <3>2. CallTypes' /\ dhcpPc' \in {"start", "failed"}
        BY <1>1, <3>1, Retries DEF DhcpInv
    <3> QED BY <1>1, <1>2, <1>3, <1>4, <2>1, <2>2, <3>1, <3>2, NotYet
            DEF DhcpInv, LeaseTypes
  <2> QED BY <1>3, <2>3, <2>4, <2>5
<1> QED BY <1>1, <1>5, <1>6

\* The other ends of a wait.
LEMMA WaitsKeep ==
    ASSUME DhcpInv,
           \/ Dhcp!ReadOther \/ Dhcp!IdlePoll \/ Dhcp!ReceiveFails \/ Dhcp!WaitTimesOut
    PROVE  DhcpInv'
<1> USE DEF Dhcp!dhcpVars, Dhcp!netVars
<1>1. /\ dhcpPc \in {"offer", "ack"}
      /\ UNCHANGED <<lease, serverId, asked, leases, closed, conn, reads>>
    BY DEF Dhcp!ReadOther, Dhcp!IdlePoll, Dhcp!ReceiveFails, Dhcp!WaitTimesOut
<1>2. inbox' = inbox \/ (inbox # <<>> /\ inbox' = Tail(inbox))
    BY DEF Dhcp!ReadOther, Dhcp!IdlePoll, Dhcp!ReceiveFails, Dhcp!WaitTimesOut
<1>3. Waits(inbox, leases)'
    BY <1>1, <1>2, ReadsFrame DEF DhcpInv
<1>4. LeaseTypes' /\ NetTypes'
    BY <1>1 DEF DhcpInv, LeaseTypes, NetTypes
<1>5. CallTypes' /\ dhcpPc' \notin {"arp", "done"}
  <2>1. CASE Dhcp!WaitTimesOut
      BY <2>1, <1>1, Retries DEF DhcpInv, Dhcp!WaitTimesOut
  <2>2. CASE Dhcp!IdlePoll
    <3>1. elapsed' \in 0..Polls /\ UNCHANGED <<dhcpPc, retry, reads>>
        BY <2>2, Numbers DEF Dhcp!IdlePoll, DhcpInv, CallTypes
    <3> QED BY <1>1, <3>1 DEF DhcpInv, CallTypes
  <2>3. CASE Dhcp!ReadOther \/ Dhcp!ReceiveFails
      BY <1>1, <2>3 DEF Dhcp!ReadOther, Dhcp!ReceiveFails, DhcpInv, CallTypes
  <2> QED BY <2>1, <2>2, <2>3
<1>6. Dhcp!LeaseIsOneServers' /\ Gateway'
    BY <1>1, <1>5, NotYet
<1> QED BY <1>3, <1>4, <1>5, <1>6 DEF DhcpInv

\* The resolution of the gateway, and of the resolver in its place.
LEMMA ResolveReadKeeps ==
    ASSUME DhcpInv, Dhcp!ResolveRead
    PROVE  DhcpInv'
<1>1. /\ dhcpPc = "arp" /\ reads < 2 * ArpReads
      /\ UNCHANGED <<retry, elapsed, lease, serverId, asked, leases, closed>>
    BY DEF Dhcp!ResolveRead, Dhcp!dhcpVars, Dhcp!netVars
<1>2. inbox' = inbox \/ (inbox # <<>> /\ inbox' = Tail(inbox))
    BY DEF Dhcp!ResolveRead
<1>3. Waits(inbox, leases)' /\ NetTypes'
    BY <1>1, <1>2, ReadsFrame DEF DhcpInv, NetTypes
<1>4. \/ /\ conn' = [conn EXCEPT !.mac = conn.gateway]
         /\ dhcpPc' = "done" /\ reads' = reads
      \/ /\ reads' = reads + 1
         /\ conn' \in {conn, [conn EXCEPT !.gateway = lease.dns]}
         /\ dhcpPc' \in {"done", "arp"}
    BY DEF Dhcp!ResolveRead
<1>5. dhcpPc' \in {"done", "arp"} /\ reads' \in 0..(2 * ArpReads)
    BY <1>1, <1>4, Numbers DEF DhcpInv, CallTypes
<1>6. CallTypes'
    BY <1>1, <1>5 DEF DhcpInv, CallTypes
<1>7. Dhcp!LeaseIsOneServers'
    BY <1>1, <1>5 DEF DhcpInv, Dhcp!LeaseIsOneServers
<1>8. conn.mac = Dhcp!NoAddr /\ conn.assigned = lease.ip
    BY <1>1 DEF DhcpInv, Gateway
<1>9. CASE conn' = [conn EXCEPT !.mac = conn.gateway] /\ dhcpPc' = "done"
  <2>1. /\ conn' \in [assigned : Servers \cup {NoServer}, gateway : Dhcp!Address,
                      mac : Dhcp!Address]
        /\ conn'.mac = conn.gateway /\ conn'.gateway = conn.gateway
        /\ conn'.assigned = conn.assigned
      BY <1>9 DEF DhcpInv, LeaseTypes
  <2>2. LeaseTypes' /\ Gateway'
      BY <1>1, <1>8, <1>9, <2>1 DEF DhcpInv, LeaseTypes, Gateway, Dhcp!MacIsGateways
  <2> QED BY <1>3, <1>6, <1>7, <2>2 DEF DhcpInv
<1>10. CASE conn' \in {conn, [conn EXCEPT !.gateway = lease.dns]}
  <2>1. /\ conn' \in [assigned : Servers \cup {NoServer}, gateway : Dhcp!Address,
                      mac : Dhcp!Address]
        /\ conn'.mac = Dhcp!NoAddr /\ conn'.assigned = conn.assigned
      BY <1>8, <1>10 DEF DhcpInv, LeaseTypes
  <2>2. LeaseTypes' /\ Gateway'
      BY <1>1, <1>8, <2>1
      DEF DhcpInv, LeaseTypes, Gateway, Dhcp!MacIsGateways, Dhcp!NoAddr
  <2> QED BY <1>3, <1>6, <1>7, <2>2 DEF DhcpInv
<1> QED BY <1>4, <1>9, <1>10

\* What the network does changes nothing of the call.
LEMMA CallRests ==
    ASSUME DhcpInv, UNCHANGED <<dhcpPc, Dhcp!dhcpVars, conn, reads>>, leases \subseteq leases'
    PROVE  CallTypes' /\ LeaseTypes' /\ Dhcp!LeaseIsOneServers' /\ Gateway'
<1>1. CallTypes' /\ LeaseTypes'
    BY DEF DhcpInv, CallTypes, LeaseTypes, Dhcp!dhcpVars
<1>2. Dhcp!LeaseIsOneServers'
    BY DEF DhcpInv, Dhcp!LeaseIsOneServers, Dhcp!dhcpVars
<1>3. Gateway'
    BY DEF DhcpInv, Gateway, Dhcp!MacIsGateways, Dhcp!NoAddr, Dhcp!dhcpVars
<1> QED BY <1>1, <1>2, <1>3

\* Servers, gateways, other traffic and the closing of the connection.
LEMMA NetworkKeeps ==
    ASSUME DhcpInv, Dhcp!Network
    PROVE  DhcpInv'
<1> USE DEF Dhcp!Arrive
<1>1. ASSUME NEW s \in Servers, Dhcp!ServeDiscover(s)
      PROVE  DhcpInv'
  <2>1. Dhcp!Reply("offer", s) \in Dhcp!Frame /\ Dhcp!Reply("offer", s).type = "offer"
      BY DEF Dhcp!Reply, Dhcp!Frame
  <2>2. /\ UNCHANGED <<dhcpPc, Dhcp!dhcpVars, leases, closed, conn, reads>>
        /\ asked[s] # <<>> /\ asked' = [asked EXCEPT ![s] = Tail(@)]
        /\ Len(inbox) < MaxQueue /\ inbox' = Append(inbox, Dhcp!Reply("offer", s))
      BY <1>1 DEF Dhcp!ServeDiscover
  <2>3. Waits(inbox, leases)'
      BY <2>1, <2>2, GetsFrame DEF DhcpInv
  <2>4. NetTypes'
      BY <2>2, Handles DEF DhcpInv, NetTypes
  <2> QED BY <2>2, <2>3, <2>4, CallRests DEF DhcpInv
<1>2. ASSUME NEW s \in Servers, Dhcp!ServeRequest(s)
      PROVE  DhcpInv'
  <2>1. Dhcp!Reply("ack", s) \in Dhcp!Frame /\ Dhcp!Reply("ack", s).from = s
      BY DEF Dhcp!Reply, Dhcp!Frame
  <2>2. /\ UNCHANGED <<dhcpPc, Dhcp!dhcpVars, closed, conn, reads>>
        /\ leases' = leases \cup {s}
        /\ asked[s] # <<>> /\ asked' = [asked EXCEPT ![s] = Tail(@)]
        /\ Len(inbox) < MaxQueue /\ inbox' = Append(inbox, Dhcp!Reply("ack", s))
      BY <1>2 DEF Dhcp!ServeRequest
  <2>3. Waits(inbox, leases)'
      BY <2>1, <2>2, GetsFrame DEF DhcpInv
  <2>4. NetTypes'
      BY <2>2, Handles DEF DhcpInv, NetTypes
  <2> QED BY <2>2, <2>3, <2>4, CallRests DEF DhcpInv
<1>3. ASSUME NEW s \in Servers, Dhcp!ServeOther(s)
      PROVE  DhcpInv'
  <2>1. /\ UNCHANGED <<dhcpPc, Dhcp!dhcpVars, inbox, leases, closed, conn, reads>>
        /\ asked[s] # <<>> /\ asked' = [asked EXCEPT ![s] = Tail(@)]
      BY <1>3 DEF Dhcp!ServeOther
  <2>2. NetTypes'
      BY <2>1, Handles DEF DhcpInv, NetTypes
  <2> QED BY <2>1, <2>2, CallRests DEF DhcpInv
<1>4. ASSUME NEW s \in Servers, Dhcp!LoseRequest(s)
      PROVE  DhcpInv'
  <2>1. Dhcp!Reply("nak", s) \in Dhcp!Frame /\ Dhcp!Reply("nak", s).type = "nak"
      BY DEF Dhcp!Reply, Dhcp!Frame
  <2>2. /\ UNCHANGED <<dhcpPc, Dhcp!dhcpVars, leases, closed, conn, reads>>
        /\ asked[s] # <<>> /\ asked' = [asked EXCEPT ![s] = Tail(@)]
        /\ \/ inbox' = inbox
           \/ Len(inbox) < MaxQueue /\ inbox' = Append(inbox, Dhcp!Reply("nak", s))
      BY <1>4 DEF Dhcp!LoseRequest
  <2>3. Waits(inbox, leases)'
      BY <2>1, <2>2, GetsFrame DEF DhcpInv
  <2>4. NetTypes'
      BY <2>2, Handles DEF DhcpInv, NetTypes
  <2> QED BY <2>2, <2>3, <2>4, CallRests DEF DhcpInv
<1>5. CASE Dhcp!AnswerArp
  <2>1. PICK x \in {lease.gw, lease.dns} :
          Len(inbox) < MaxQueue /\ inbox' = Append(inbox, Dhcp!ArpReply(x))
      BY <1>5 DEF Dhcp!AnswerArp
  <2>2. UNCHANGED <<dhcpPc, Dhcp!dhcpVars, asked, leases, closed, conn, reads>>
      BY <1>5 DEF Dhcp!AnswerArp, Dhcp!netVars
  <2>3. x \in Dhcp!Address
      BY DEF DhcpInv, LeaseTypes
  <2>4. Dhcp!ArpReply(x) \in Dhcp!Frame /\ Dhcp!ArpReply(x).kind = "arp"
      BY <2>3 DEF Dhcp!ArpReply, Dhcp!Frame
  <2>5. Waits(inbox, leases)'
      BY <2>1, <2>2, <2>4, GetsFrame DEF DhcpInv
  <2> QED BY <2>2, <2>5, CallRests DEF DhcpInv, NetTypes
<1>6. CASE Dhcp!OtherTraffic
  <2>1. PICK k \in {"other", "keepalive"} :
          Len(inbox) < MaxQueue /\ inbox' = Append(inbox, [kind |-> k])
      BY <1>6 DEF Dhcp!OtherTraffic
  <2>2. UNCHANGED <<dhcpPc, Dhcp!dhcpVars, asked, leases, closed, conn, reads>>
      BY <1>6 DEF Dhcp!OtherTraffic, Dhcp!netVars
  <2>3. [kind |-> k] \in Dhcp!Frame /\ [kind |-> k].kind # "dhcp"
      BY DEF Dhcp!Frame
  <2>4. Waits(inbox, leases)'
      BY <2>1, <2>2, <2>3, GetsFrame DEF DhcpInv
  <2> QED BY <2>2, <2>4, CallRests DEF DhcpInv, NetTypes
<1>7. CASE Dhcp!ForceClose
  <2>1. /\ UNCHANGED <<dhcpPc, Dhcp!dhcpVars, inbox, asked, leases, conn, reads>>
        /\ closed' = TRUE
      BY <1>7 DEF Dhcp!ForceClose
  <2> QED BY <2>1, CallRests DEF DhcpInv, NetTypes
<1> QED BY <1>1, <1>2, <1>3, <1>4, <1>5, <1>6, <1>7 DEF Dhcp!Network

\* The call and its surroundings interleave in any order.
LEMMA DhcpInvStep ==
    ASSUME DhcpInv, Dhcp!Next \/ UNCHANGED dhcpVars
    PROVE  DhcpInv'
<1>1. CASE UNCHANGED dhcpVars
  <2>1. CallTypes' /\ LeaseTypes' /\ Dhcp!LeaseIsOneServers' /\ Gateway'
      BY <1>1, CallRests DEF dhcpVars, Dhcp!dhcpVars
  <2> QED BY <1>1, <2>1 DEF dhcpVars, DhcpInv, NetTypes
<1> QED BY <1>1, SendDiscoverKeeps, ReadReplyKeeps, WaitsKeep, ResolveReadKeeps, NetworkKeeps
        DEF Dhcp!Next, Dhcp!Client

\* Nothing asked, nothing granted.
LEMMA DhcpStart == Dhcp!Init => DhcpInv
<1> SUFFICES ASSUME Dhcp!Init PROVE DhcpInv
    OBVIOUS
<1>1. CallTypes
    BY Numbers DEF Dhcp!Init, CallTypes
<1>2. LeaseTypes
    BY NoAddress DEF Dhcp!Init, LeaseTypes
<1>3. NetTypes
  <2>1. <<>> \in Seq(Dhcp!Request)
      OBVIOUS
  <2>2. asked \in [Servers -> Seq(Dhcp!Request)]
      BY <2>1 DEF Dhcp!Init
  <2> QED BY <2>2 DEF Dhcp!Init, NetTypes
<1>4. Waits(inbox, leases)
    BY Numbers DEF Dhcp!Init, Waits
<1>5. Dhcp!LeaseIsOneServers /\ Gateway
    BY DEF Dhcp!Init, Dhcp!LeaseIsOneServers, Gateway, Dhcp!MacIsGateways
<1> QED BY <1>1, <1>2, <1>3, <1>4, <1>5 DEF DhcpInv

\* The type invariant, put together from its parts.
LEMMA DhcpTypes == DhcpInv => Dhcp!TypeOK
BY DEF DhcpInv, CallTypes, LeaseTypes, NetTypes, Waits, Dhcp!TypeOK

-----------------------------------------------------------------------------
(***************************************************************************)
(* DHCP with one server that answers at once.  Every wait has its reply on *)
(* the way, one and no more (PromptExchange), so none of them times out    *)
(* and the second wait never reads a reply to the first request.           *)
(***************************************************************************)

\* No reply waits in the queue; or one does, of this type.
Silent(queue) == \A i \in 1..Len(queue) : queue[i].kind # "dhcp"
Replied(queue, type) ==
    \E i \in 1..Len(queue) :
        /\ queue[i].kind = "dhcp" /\ queue[i].type = type
        /\ \A j \in 1..Len(queue) : j # i => queue[j].kind # "dhcp"

\* The server has the request r, or the client will read its reply.
Answering(r, type) ==
    \/ asked[PromptServer] = <<r>> /\ Silent(inbox)
    \/ asked[PromptServer] = <<>> /\ Replied(inbox, type)

Discover == [type |-> "discover", to |-> NoServer]
RequestLease == [type |-> "request", to |-> PromptServer]

PromptCall ==
    /\ dhcpPc \in {"start", "offer", "ack", "arp", "done"}
    /\ retry = 0 /\ elapsed = 0 /\ closed = FALSE
    /\ reads \in 0..(2 * ArpReads)

PromptExchange ==
    /\ dhcpPc = "start" => asked[PromptServer] = <<>> /\ Silent(inbox)
    /\ dhcpPc = "offer" => Answering(Discover, "offer")
    /\ dhcpPc = "ack" => Answering(RequestLease, "ack")
    /\ dhcpPc \in {"arp", "done"} => asked[PromptServer] = <<>>

PromptQueue == inbox \in Seq(DhcpPrompt!Frame) /\ Len(inbox) <= MaxQueue

PromptAsked == asked \in [{PromptServer} -> Seq(DhcpPrompt!Request)]

PromptLease ==
    /\ leases \subseteq {PromptServer} /\ serverId \in {PromptServer} \cup {NoServer}
    /\ lease \in [ip : {PromptServer} \cup {NoServer}, gw : DhcpPrompt!Address,
                  dns : DhcpPrompt!Address]
    /\ conn \in [assigned : {PromptServer} \cup {NoServer}, gateway : DhcpPrompt!Address,
                 mac : DhcpPrompt!Address]

PromptDhcpInv ==
    PromptCall /\ PromptExchange /\ PromptQueue /\ PromptAsked /\ PromptLease

\* The frames one prompt server sends.
LEMMA PromptFrames ==
    /\ \A f \in DhcpPrompt!Frame :
         /\ f.kind \in {"dhcp", "arp", "other"}
         /\ f.kind = "dhcp" => f.from = PromptServer
    /\ \A type \in {"offer", "ack", "nak"} :
         /\ DhcpPrompt!Reply(type, PromptServer) \in DhcpPrompt!Frame
         /\ DhcpPrompt!Reply(type, PromptServer).kind = "dhcp"
         /\ DhcpPrompt!Reply(type, PromptServer).type = type
    /\ [kind |-> "other"] \in DhcpPrompt!Frame
BY DEF DhcpPrompt!Frame, DhcpPrompt!Reply

\* Its addresses.
LEMMA PromptAddresses ==
    /\ DhcpPrompt!Router(PromptServer) \in DhcpPrompt!Address
    /\ DhcpPrompt!Resolver(PromptServer) \in DhcpPrompt!Address
    /\ DhcpPrompt!NoAddr \in DhcpPrompt!Address
BY DEF DhcpPrompt!Router, DhcpPrompt!Resolver, DhcpPrompt!NoAddr, DhcpPrompt!Address

\* Reading a frame: the expected reply is read or still waits.
LEMMA PromptReads ==
    ASSUME PromptQueue, inbox # <<>>, inbox' = Tail(inbox)
    PROVE  /\ PromptQueue' /\ Head(inbox) \in DhcpPrompt!Frame
           /\ Silent(inbox) => Head(inbox).kind # "dhcp" /\ Silent(inbox')
           /\ \A type : Replied(inbox, type) =>
                IF Head(inbox).kind = "dhcp" THEN Head(inbox).type = type /\ Silent(inbox')
                                             ELSE Replied(inbox', type)
<1>1. PICK n \in Nat : Len(inbox) = n
    BY DEF PromptQueue
<1>2. n > 0
    BY <1>1 DEF PromptQueue
<1>3. /\ inbox' \in Seq(DhcpPrompt!Frame) /\ Len(inbox') = n - 1
      /\ Head(inbox) = inbox[1] /\ inbox[1] \in DhcpPrompt!Frame
    BY <1>1, <1>2 DEF PromptQueue
<1>4. \A i \in 1..(n - 1) : inbox'[i] = inbox[i + 1] /\ i + 1 \in 1..n /\ i + 1 # 1
    BY <1>1, <1>2 DEF PromptQueue
<1>5. PromptQueue'
    BY <1>1, <1>2, <1>3, Numbers DEF PromptQueue
<1>6. Silent(inbox) => Head(inbox).kind # "dhcp" /\ Silent(inbox')
    BY <1>1, <1>2, <1>3, <1>4 DEF Silent
<1>7. ASSUME NEW type, Replied(inbox, type)
      PROVE  IF Head(inbox).kind = "dhcp" THEN Head(inbox).type = type /\ Silent(inbox')
                                          ELSE Replied(inbox', type)
  <2>1. PICK i \in 1..n : /\ inbox[i].kind = "dhcp" /\ inbox[i].type = type
                          /\ \A j \in 1..n : j # i => inbox[j].kind # "dhcp"
      BY <1>1, <1>7 DEF Replied
  <2>2. CASE i = 1
    <3>1. Silent(inbox')
        BY <1>3, <1>4, <2>1, <2>2 DEF Silent
    <3> QED BY <1>3, <2>1, <2>2, <3>1
  <2>3. CASE i # 1
    <3>1. Head(inbox).kind # "dhcp"
        BY <1>2, <1>3, <2>1, <2>3
    <3>2. i - 1 \in 1..(n - 1) /\ (i - 1) + 1 = i
        BY <2>3
    <3>3. inbox'[i - 1] = inbox[i]
        BY <1>4, <3>2
    <3>4. \A j \in 1..(n - 1) : j # i - 1 => j + 1 # i
        BY <3>2
    <3>5. \A j \in 1..(n - 1) : j # i - 1 => inbox'[j].kind # "dhcp"
        BY <1>4, <2>1, <3>4
    <3>6. Replied(inbox', type)
        BY <1>3, <2>1, <3>2, <3>3, <3>5 DEF Replied
    <3> QED BY <3>1, <3>6
  <2> QED BY <2>2, <2>3
<1> QED BY <1>3, <1>5, <1>6, <1>7

\* A frame arrives: nothing else becomes a reply.
LEMMA PromptGets ==
    ASSUME PromptQueue, NEW f \in DhcpPrompt!Frame, Len(inbox) < MaxQueue,
           inbox' = Append(inbox, f)
    PROVE  /\ PromptQueue'
           /\ f.kind # "dhcp" /\ Silent(inbox) => Silent(inbox')
           /\ \A type : f.kind # "dhcp" /\ Replied(inbox, type) => Replied(inbox', type)
           /\ f.kind = "dhcp" /\ Silent(inbox) => Replied(inbox', f.type)
<1>1. PICK n \in Nat : Len(inbox) = n
    BY DEF PromptQueue
<1>2. /\ inbox' \in Seq(DhcpPrompt!Frame) /\ Len(inbox') = n + 1
      /\ \A i \in 1..n : inbox'[i] = inbox[i]
      /\ inbox'[n + 1] = f
    BY <1>1 DEF PromptQueue
<1>3. /\ \A i \in 1..(n + 1) : i # n + 1 => i \in 1..n
      /\ \A i \in 1..n : i \in 1..(n + 1) /\ i # n + 1
      /\ n + 1 \in 1..(n + 1)
    OBVIOUS
<1>4. PromptQueue'
    BY <1>1, <1>2, Numbers DEF PromptQueue
<1>5. f.kind # "dhcp" /\ Silent(inbox) => Silent(inbox')
    BY <1>1, <1>2, <1>3 DEF Silent
<1>6. ASSUME NEW type, f.kind # "dhcp", Replied(inbox, type)
      PROVE  Replied(inbox', type)
  <2>1. PICK i \in 1..n : /\ inbox[i].kind = "dhcp" /\ inbox[i].type = type
                          /\ \A j \in 1..n : j # i => inbox[j].kind # "dhcp"
      BY <1>1, <1>6 DEF Replied
  <2> QED BY <1>2, <1>3, <1>6, <2>1 DEF Replied
<1>7. f.kind = "dhcp" /\ Silent(inbox) => Replied(inbox', f.type)
    BY <1>1, <1>2, <1>3 DEF Silent, Replied
<1> QED BY <1>4, <1>5, <1>6, <1>7

\* Reading a frame or receiving one of other traffic leaves an answer to come.
LEMMA StillAnswering ==
    ASSUME NEW r, NEW type, Answering(r, type), asked' = asked,
           Silent(inbox) => Silent(inbox'), Replied(inbox, type) => Replied(inbox', type)
    PROVE  Answering(r, type)'
BY DEF Answering

\* A broadcast reaches a server that has nothing else to do.
LEMMA PromptBroadcasts ==
    ASSUME asked[PromptServer] = <<>>, NEW r \in DhcpPrompt!Request,
           DhcpPrompt!Broadcast(r)
    PROVE  PromptAsked' /\ asked'[PromptServer] = <<r>>
<1>1. asked' = [s \in {PromptServer} |-> Append(asked[s], r)]
    BY DEF DhcpPrompt!Broadcast
<1>2. Append(<<>>, r) = <<r>> /\ <<r>> \in Seq(DhcpPrompt!Request)
    OBVIOUS
<1>3. asked'[PromptServer] = <<r>>
    BY <1>1, <1>2
<1>4. asked' = [s \in {PromptServer} |-> <<r>>]
    BY <1>1, <1>2
<1> QED BY <1>2, <1>3, <1>4 DEF PromptAsked

\* The first attempt asks for an offer.
LEMMA PromptDiscovers ==
    ASSUME PromptDhcpInv, DhcpPrompt!SendDiscover
    PROVE  PromptDhcpInv'
<1>1. /\ dhcpPc = "start" /\ dhcpPc' = "offer" /\ elapsed' = 0
      /\ DhcpPrompt!Broadcast(Discover)
      /\ UNCHANGED <<retry, inbox, lease, serverId, leases, closed, conn, reads>>
    BY DEF DhcpPrompt!SendDiscover, PromptDhcpInv, PromptCall, Discover
<1>2. Discover \in DhcpPrompt!Request
    BY DEF Discover, DhcpPrompt!Request
<1>3. asked[PromptServer] = <<>> /\ Silent(inbox)
    BY <1>1 DEF PromptDhcpInv, PromptExchange
<1>4. PromptAsked' /\ asked'[PromptServer] = <<Discover>>
    BY <1>1, <1>2, <1>3, PromptBroadcasts
<1>5. PromptExchange'
    BY <1>1, <1>3, <1>4 DEF PromptExchange, Answering
<1> QED BY <1>1, <1>4, <1>5
        DEF PromptDhcpInv, PromptCall, PromptQueue, PromptLease

\* The offer, then the ACK.
LEMMA PromptReplies ==
    ASSUME PromptDhcpInv, DhcpPrompt!ReadReply
    PROVE  PromptDhcpInv'
<1> DEFINE m == Head(inbox)
<1>1. /\ dhcpPc \in {"offer", "ack"} /\ inbox # <<>> /\ m.kind = "dhcp"
      /\ lease' = DhcpPrompt!Merge(lease, m.from) /\ serverId' = m.from
      /\ DhcpPrompt!OnOffer(m) \/ DhcpPrompt!OnAck(m)
      /\ inbox' = Tail(inbox)
      /\ UNCHANGED <<leases, closed, reads>>
    BY DEF DhcpPrompt!ReadReply
<1>2. /\ PromptQueue' /\ ~Silent(inbox) /\ m.from = PromptServer
      /\ \A type : Replied(inbox, type) => m.type = type /\ Silent(inbox')
    BY <1>1, PromptReads, PromptFrames DEF PromptDhcpInv
<1> HIDE DEF m
<1>3. asked[PromptServer] = <<>> /\ Silent(inbox')
      /\ (dhcpPc = "offer" => m.type = "offer") /\ (dhcpPc = "ack" => m.type = "ack")
    BY <1>1, <1>2 DEF PromptDhcpInv, PromptExchange, Answering
<1>4. /\ lease' \in [ip : {PromptServer} \cup {NoServer}, gw : DhcpPrompt!Address,
                     dns : DhcpPrompt!Address]
      /\ serverId' \in {PromptServer} \cup {NoServer}
    BY <1>1, <1>2, PromptAddresses DEF DhcpPrompt!Merge
<1>5. CASE dhcpPc = "offer"
  <2>1. /\ dhcpPc' = "ack" /\ elapsed' = 0 /\ UNCHANGED <<retry, conn>>
        /\ DhcpPrompt!Broadcast(RequestLease)
      BY <1>1, <1>2, <1>3, <1>5
      DEF DhcpPrompt!OnOffer, DhcpPrompt!OnAck, PromptDhcpInv, PromptCall, RequestLease
  <2>2. RequestLease \in DhcpPrompt!Request
      BY DEF RequestLease, DhcpPrompt!Request
  <2>3. PromptAsked' /\ asked'[PromptServer] = <<RequestLease>>
      BY <1>3, <2>1, <2>2, PromptBroadcasts
  <2>4. PromptExchange'
      BY <1>3, <2>1, <2>3 DEF PromptExchange, Answering
  <2> QED BY <1>1, <1>2, <1>4, <2>1, <2>3, <2>4
          DEF PromptDhcpInv, PromptCall, PromptLease
<1>6. CASE dhcpPc = "ack"
  <2>1. /\ dhcpPc' \in {"arp", "done"} /\ UNCHANGED <<retry, elapsed, asked>>
        /\ conn' \in {conn, [conn EXCEPT !.assigned = lease'.ip, !.gateway = lease'.gw]}
      BY <1>1, <1>3, <1>6 DEF DhcpPrompt!OnOffer, DhcpPrompt!OnAck
  <2>2. conn' \in [assigned : {PromptServer} \cup {NoServer},
                   gateway : DhcpPrompt!Address, mac : DhcpPrompt!Address]
      BY <1>4, <2>1 DEF PromptDhcpInv, PromptLease
  <2>3. PromptExchange'
      BY <1>3, <2>1 DEF PromptExchange
  <2> QED BY <1>1, <1>2, <1>4, <2>1, <2>2, <2>3
          DEF PromptDhcpInv, PromptCall, PromptAsked, PromptLease
<1> QED BY <1>1, <1>5, <1>6

\* No wait ends without the reply it is for.
LEMMA PromptNeverWaits ==
    ASSUME PromptDhcpInv
    PROVE  ~DhcpPrompt!IdlePoll /\ ~DhcpPrompt!ReceiveFails /\ ~DhcpPrompt!WaitTimesOut
<1>1. ~DhcpPrompt!ReceiveFails /\ ~DhcpPrompt!WaitTimesOut
    BY Numbers DEF DhcpPrompt!ReceiveFails, DhcpPrompt!WaitTimesOut, PromptDhcpInv, PromptCall
<1>2. ASSUME DhcpPrompt!IdlePoll PROVE FALSE
  <2>1. CASE inbox = <<>>
    <3>1. asked[PromptServer] = <<>> /\ dhcpPc \in {"offer", "ack"}
        BY <1>2, <2>1 DEF DhcpPrompt!IdlePoll
    <3>2. \E type : Replied(inbox, type)
        BY <3>1 DEF PromptDhcpInv, PromptExchange, Answering
    <3>3. Len(inbox) = 0
        BY <2>1
    <3> QED BY <3>2, <3>3 DEF Replied
  <2>2. CASE inbox # <<>>
    <3>1. Head(inbox).kind = "keepalive" /\ inbox' = Tail(inbox)
        BY <1>2, <2>2 DEF DhcpPrompt!IdlePoll
    <3> QED BY <2>2, <3>1, PromptReads, PromptFrames DEF PromptDhcpInv
  <2> QED BY <2>1, <2>2
<1> QED BY <1>1, <1>2

\* Other traffic is read past.
LEMMA PromptReadsOther ==
    ASSUME PromptDhcpInv, DhcpPrompt!ReadOther
    PROVE  PromptDhcpInv'
<1>1. /\ inbox # <<>> /\ Head(inbox).kind # "dhcp" /\ inbox' = Tail(inbox)
      /\ dhcpPc \in {"offer", "ack"}
      /\ UNCHANGED <<dhcpPc, retry, elapsed, lease, serverId, asked, leases, closed,
                     conn, reads>>
    BY DEF DhcpPrompt!ReadOther, DhcpPrompt!dhcpVars, DhcpPrompt!netVars
<1>2. /\ PromptQueue' /\ (Silent(inbox) => Silent(inbox'))
      /\ \A type : Replied(inbox, type) => Replied(inbox', type)
    BY <1>1, PromptReads DEF PromptDhcpInv
<1>3. PromptExchange'
    BY <1>1, <1>2, StillAnswering DEF PromptDhcpInv, PromptExchange
<1> QED BY <1>1, <1>2, <1>3 DEF PromptDhcpInv, PromptCall, PromptAsked, PromptLease

\* The gateway's resolution after the ACK.
LEMMA PromptResolves ==
    ASSUME PromptDhcpInv, DhcpPrompt!ResolveRead
    PROVE  PromptDhcpInv'
<1>1. /\ dhcpPc = "arp" /\ reads < 2 * ArpReads
      /\ UNCHANGED <<retry, elapsed, lease, serverId, asked, leases, closed>>
    BY DEF DhcpPrompt!ResolveRead, DhcpPrompt!dhcpVars, DhcpPrompt!netVars
<1>2. inbox' = inbox \/ (inbox # <<>> /\ inbox' = Tail(inbox))
    BY DEF DhcpPrompt!ResolveRead
<1>3. PromptQueue'
    BY <1>2, PromptReads DEF PromptDhcpInv, PromptQueue
<1>4. /\ dhcpPc' \in {"arp", "done"} /\ reads' \in {reads, reads + 1}
      /\ conn' \in {conn, [conn EXCEPT !.mac = conn.gateway],
                    [conn EXCEPT !.gateway = lease.dns]}
    BY <1>1 DEF DhcpPrompt!ResolveRead
<1>5. reads' \in 0..(2 * ArpReads)
    BY <1>1, <1>4, Numbers DEF PromptDhcpInv, PromptCall
<1>6. conn' \in [assigned : {PromptServer} \cup {NoServer},
                 gateway : DhcpPrompt!Address, mac : DhcpPrompt!Address]
    BY <1>4 DEF PromptDhcpInv, PromptLease
<1>7. PromptExchange'
    BY <1>1, <1>4 DEF PromptDhcpInv, PromptExchange
<1> QED BY <1>1, <1>3, <1>4, <1>5, <1>6, <1>7
        DEF PromptDhcpInv, PromptCall, PromptAsked, PromptLease

\* The server answers what was asked, once.
LEMMA PromptNetworkKeeps ==
    ASSUME PromptDhcpInv, DhcpPrompt!Network
    PROVE  PromptDhcpInv'
<1> USE DEF DhcpPrompt!Arrive, DhcpPrompt!dhcpVars, DhcpPrompt!netVars
<1> DEFINE P == PromptServer
<1>1. CASE DhcpPrompt!ServeDiscover(P)
  <2>1. /\ asked[P] # <<>> /\ Head(asked[P]).type = "discover"
        /\ Len(inbox) < MaxQueue /\ inbox' = Append(inbox, DhcpPrompt!Reply("offer", P))
        /\ asked' = [asked EXCEPT ![P] = Tail(@)]
        /\ UNCHANGED <<dhcpPc, retry, elapsed, lease, serverId, leases, closed, conn, reads>>
      BY <1>1 DEF DhcpPrompt!ServeDiscover
  <2>2. dhcpPc = "offer" /\ asked[P] = <<Discover>> /\ Silent(inbox)
      BY <2>1 DEF PromptDhcpInv, PromptExchange, PromptCall, Answering, RequestLease
  <2>3. PromptQueue' /\ Replied(inbox', "offer")
      BY <2>1, <2>2, PromptGets, PromptFrames DEF PromptDhcpInv
  <2>4. asked'[P] = <<>> /\ asked' \in [{P} -> Seq(DhcpPrompt!Request)]
      BY <2>1, <2>2 DEF PromptDhcpInv, PromptAsked
  <2>5. PromptExchange'
      BY <2>1, <2>2, <2>3, <2>4 DEF PromptExchange, Answering
  <2> QED BY <2>1, <2>3, <2>4, <2>5 DEF PromptDhcpInv, PromptCall, PromptAsked, PromptLease
<1>2. CASE DhcpPrompt!ServeRequest(P)
  <2>1. /\ asked[P] # <<>> /\ Head(asked[P]).type = "request"
        /\ Len(inbox) < MaxQueue /\ inbox' = Append(inbox, DhcpPrompt!Reply("ack", P))
        /\ asked' = [asked EXCEPT ![P] = Tail(@)] /\ leases' = leases \cup {P}
        /\ UNCHANGED <<dhcpPc, retry, elapsed, lease, serverId, closed, conn, reads>>
      BY <1>2 DEF DhcpPrompt!ServeRequest
  <2>2. dhcpPc = "ack" /\ asked[P] = <<RequestLease>> /\ Silent(inbox)
      BY <2>1 DEF PromptDhcpInv, PromptExchange, PromptCall, Answering, Discover
  <2>3. PromptQueue' /\ Replied(inbox', "ack")
      BY <2>1, <2>2, PromptGets, PromptFrames DEF PromptDhcpInv
  <2>4. asked'[P] = <<>> /\ asked' \in [{P} -> Seq(DhcpPrompt!Request)]
      BY <2>1, <2>2 DEF PromptDhcpInv, PromptAsked
  <2>5. PromptExchange'
      BY <2>1, <2>2, <2>3, <2>4 DEF PromptExchange, Answering
  <2> QED BY <2>1, <2>3, <2>4, <2>5 DEF PromptDhcpInv, PromptCall, PromptAsked, PromptLease
<1>3. ~DhcpPrompt!ServeOther(P)
    BY DEF DhcpPrompt!ServeOther, PromptDhcpInv, PromptExchange, PromptCall, Answering,
           Discover, RequestLease
<1>4. CASE DhcpPrompt!OtherTraffic
  <2>1. /\ Len(inbox) < MaxQueue /\ inbox' = Append(inbox, [kind |-> "other"])
        /\ dhcpPc \notin {"done", "failed"}
        /\ UNCHANGED <<dhcpPc, retry, elapsed, lease, serverId, asked, leases, closed,
                       conn, reads>>
      BY <1>4 DEF DhcpPrompt!OtherTraffic, DhcpPrompt!Ended
  <2>2. /\ PromptQueue' /\ (Silent(inbox) => Silent(inbox'))
        /\ \A type : Replied(inbox, type) => Replied(inbox', type)
      BY <2>1, PromptGets, PromptFrames DEF PromptDhcpInv
  <2>3. PromptExchange'
      BY <2>1, <2>2, StillAnswering DEF PromptDhcpInv, PromptExchange
  <2> QED BY <2>1, <2>2, <2>3 DEF PromptDhcpInv, PromptCall, PromptAsked, PromptLease
<1> QED BY <1>1, <1>2, <1>3, <1>4
        DEF DhcpPrompt!Network, DhcpPrompt!LoseRequest, DhcpPrompt!AnswerArp,
            DhcpPrompt!ForceClose

\* The exchange with a prompt server moves one way.
LEMMA PromptDhcpStep ==
    ASSUME PromptDhcpInv, DhcpPrompt!Next \/ UNCHANGED dhcpVars
    PROVE  PromptDhcpInv'
<1>1. CASE UNCHANGED dhcpVars
    BY <1>1 DEF dhcpVars, PromptDhcpInv, PromptCall, PromptExchange, Answering, PromptQueue,
                PromptAsked, PromptLease
<1> QED BY <1>1, PromptDiscovers, PromptReplies, PromptNeverWaits, PromptReadsOther,
           PromptResolves, PromptNetworkKeeps
        DEF DhcpPrompt!Next, DhcpPrompt!Client

\* Nothing asked yet.
LEMMA PromptDhcpStart == DhcpPrompt!Init => PromptDhcpInv
<1> SUFFICES ASSUME DhcpPrompt!Init PROVE PromptDhcpInv
    OBVIOUS
<1>1. PromptCall
    BY Numbers DEF DhcpPrompt!Init, PromptCall
<1>2. PromptLease
    BY PromptAddresses DEF DhcpPrompt!Init, PromptLease
<1>3. PromptQueue /\ Silent(inbox)
    BY Numbers DEF DhcpPrompt!Init, PromptQueue, Silent
<1>4. PromptAsked /\ asked[PromptServer] = <<>>
  <2>1. <<>> \in Seq(DhcpPrompt!Request)
      OBVIOUS
  <2> QED BY <2>1 DEF DhcpPrompt!Init, PromptAsked
<1>5. PromptExchange
    BY <1>3, <1>4 DEF DhcpPrompt!Init, PromptExchange
<1> QED BY <1>1, <1>2, <1>3, <1>4, <1>5 DEF PromptDhcpInv

\* No state of the exchange is a failure.
LEMMA PromptDhcpTypes == PromptDhcpInv => DhcpPrompt!TypeOK /\ DhcpPrompt!PromptServerLeases
<1> SUFFICES ASSUME PromptDhcpInv PROVE DhcpPrompt!TypeOK /\ DhcpPrompt!PromptServerLeases
    OBVIOUS
<1>1. retry \in 0..MaxRetries /\ elapsed \in 0..Polls
    BY Numbers DEF PromptDhcpInv, PromptCall
<1> QED BY <1>1 DEF PromptDhcpInv, PromptCall, PromptQueue, PromptAsked, PromptLease,
                    DhcpPrompt!TypeOK, DhcpPrompt!PromptServerLeases

-----------------------------------------------------------------------------
(***************************************************************************)
(* The components together.                                                *)
(***************************************************************************)

NativeInv ==
    /\ ConnectInv
    /\ RaceInv
    /\ TransportInv
    /\ part = "relay" => RelayInv
    /\ part = "promptRelay" => PromptRelayInv
    /\ part \in {"quiet", "busy"} => DhcpInv
    /\ part = "prompt" => PromptDhcpInv

\* A step is one of the part's own, and leaves the others where they are.
LEMMA OnePart ==
    ASSUME [Next]_vars
    PROVE  /\ part' = part
           /\ Connect!Next \/ UNCHANGED connectVars
           /\ Race!Next \/ UNCHANGED raceVars
           /\ Transport!Next \/ UNCHANGED transportVars
           /\ part = "relay" => Rendezvous!Next \/ UNCHANGED natVars
           /\ part = "promptRelay" => RendezvousPrompt!Next \/ UNCHANGED natVars
           /\ part \in {"quiet", "busy"} => Dhcp!Next \/ UNCHANGED dhcpVars
           /\ part = "prompt" => DhcpPrompt!Next \/ UNCHANGED dhcpVars
<1>1. CASE UNCHANGED vars
    BY <1>1 DEF vars
<1>2. CASE OnlyConnect /\ Connect!Next
    BY <1>2 DEF OnlyConnect
<1>3. CASE OnlyRace /\ Race!Next
    BY <1>3 DEF OnlyRace
<1>4. CASE OnlyTransport /\ Transport!Next
    BY <1>4 DEF OnlyTransport
<1>5. CASE OnlyRelay("relay") /\ Rendezvous!Next
    BY <1>5 DEF OnlyRelay
<1>6. CASE OnlyRelay("promptRelay") /\ RendezvousPrompt!Next
    BY <1>6 DEF OnlyRelay
<1>7. CASE DhcpStep
    BY <1>7 DEF DhcpStep, OnlyDhcp, Dhcp!Next, DhcpPrompt!Next
<1>8. CASE DhcpNetwork
    BY <1>8 DEF DhcpNetwork, OnlyDhcp, Dhcp!Next, DhcpPrompt!Next
<1> QED BY <1>1, <1>2, <1>3, <1>4, <1>5, <1>6, <1>7, <1>8 DEF Next

\* The parts do not disturb each other.
LEMMA NativeInvHolds == Spec => []NativeInv
<1>1. Init => NativeInv
    BY Numbers, ConnectStart, RaceStart, TransportStart, RelayStart, PromptRelayStart,
       DhcpStart, PromptDhcpStart
    DEF Init, NativeInv
<1>2. NativeInv /\ [Next]_vars => NativeInv'
  <2> SUFFICES ASSUME NativeInv, [Next]_vars PROVE NativeInv'
      OBVIOUS
  <2>1. ConnectInv' /\ RaceInv' /\ TransportInv'
      BY Numbers, OnePart, ConnectStep, RaceStep, TransportStep DEF NativeInv
  <2>2. /\ part' = "relay" => RelayInv'
        /\ part' = "promptRelay" => PromptRelayInv'
      BY OnePart, RelayStep, PromptRelayStep DEF NativeInv
  <2>3. /\ part' \in {"quiet", "busy"} => DhcpInv'
        /\ part' = "prompt" => PromptDhcpInv'
      BY OnePart, DhcpInvStep, PromptDhcpStep DEF NativeInv
  <2> QED BY <2>1, <2>2, <2>3 DEF NativeInv
<1> QED BY <1>1, <1>2, PTL DEF Spec

\* A connect that failed for a server without a TCP port has closed everything,
\* and nothing is ever lost there; with a TCP port what can linger is a race
\* winner; and a connection in CONNECTED has a socket, a TLS context and the
\* transport its descriptor belongs to (softether_connect, softether_disconnect).
THEOREM ConnectCompletesOrReleases == Spec => []ConnectReleasesOrCompletes
<1>1. NativeInv => ConnectReleasesOrCompletes
    BY ConnectImplies DEF NativeInv, ConnectReleasesOrCompletes
<1> QED BY <1>1, NativeInvHolds, PTL

\* When softether_race_transports is over every connection but the adopted one
\* is closed: losers, and a winner that published after the parent's revocation,
\* close their own.  The adopted record was written completely, and the control
\* block is freed after the last worker ended, however late that one is.
THEOREM AdoptionIsSafe == Spec => []OneWinnerIsAdopted
<1>1. NativeInv => OneWinnerIsAdopted
    BY RaceImplies DEF NativeInv, OneWinnerIsAdopted
<1> QED BY <1>1, NativeInvHolds, PTL

\* rudp_transport_connect reports "connected" only of a session that heard the
\* server, and does not take it back; its worker never outlives the
\* descriptors.  nat_t_connect reports what the relay said and keeps no socket
\* open, and reaches a relay that answers at once before its deadline.
THEOREM TransportResultsAreTrue == Spec => []TransportResultIsTrue
<1>1. NativeInv => TransportResultIsTrue
  <2> SUFFICES ASSUME NativeInv PROVE TransportResultIsTrue
      OBVIOUS
  <2>1. /\ Transport!TypeOK /\ Transport!WorkerOwnsDescriptors /\ Transport!ResultStands
        /\ Transport!ConnectedMeansEstablished
      BY DEF NativeInv, TransportInv, Transport!ResultStands,
             Transport!ConnectedMeansEstablished
  <2>2. part = "relay" => /\ Rendezvous!TypeOK /\ Rendezvous!SocketIsAccountedFor
                          /\ Rendezvous!ReportIsTrue
      BY DEF NativeInv, RelayInv
  <2>3. part = "promptRelay" => RendezvousPrompt!PromptRelayIsReached
      BY DEF NativeInv, PromptRelayInv, RendezvousPrompt!PromptRelayIsReached
  <2> QED BY <2>1, <2>2, <2>3 DEF TransportResultIsTrue
<1> QED BY <1>1, NativeInvHolds, PTL

\* A DHCP call that succeeds reports ONE server's committed lease and the MAC
\* address of its gateway, though all attempts share a transaction id and every
\* reply is merged into the same result (softether_do_dhcp,
\* parse_dhcp_response); with one prompt server no call fails.
THEOREM LeasesAreConsistent == Spec => []LeaseIsConsistent
<1>1. NativeInv => LeaseIsConsistent
  <2>1. DhcpInv => Dhcp!LeaseIsOneServers /\ Dhcp!MacIsGateways
      BY DEF DhcpInv, Gateway
  <2> QED BY <2>1, DhcpTypes, PromptDhcpTypes DEF NativeInv, LeaseIsConsistent
<1> QED BY <1>1, NativeInvHolds, PTL
=============================================================================
