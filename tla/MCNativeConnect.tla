--------------------------- MODULE MCNativeConnect ---------------------------
(***************************************************************************)
(* The native side of bringing a session up, for TLC: the stages of        *)
(* connect, the transport race it may run, an R-UDP transport's connect,   *)
(* the NAT-T rendezvous before it, and DHCP with gateway resolution.  Each *)
(* treats the others as a step with an outcome, so they share no state: a  *)
(* behaviour follows one of them (part) while the others keep their        *)
(* initial state, and the states add up instead of multiplying.            *)
(***************************************************************************)
EXTENDS Naturals

CONSTANTS
    MaxConnects,              \* connects on one object
    NumTransports,            \* transports of a race
    Deadline, MaxExp, MaxInbox, \* of the NAT-T rendezvous
    Servers, Polls, MaxRetries, ArpReads, MaxQueue,  \* of a DHCP call
    PromptServer,             \* a DHCP server that answers at once
    NoServer                  \* no server: the address 0

\* A rendezvous has time for the request with the relay's cookie, which is due
\* one interval after the first; a DHCP call waits and tries at least once.
ASSUME NativeConnectAssumption ==
    /\ {MaxConnects, NumTransports, Deadline, MaxExp, MaxInbox} \subseteq Nat
    /\ Deadline >= 2
    /\ {Polls, MaxRetries, ArpReads, MaxQueue} \subseteq Nat
    /\ Polls > 0 /\ MaxRetries > 0
    /\ NoServer \notin Servers /\ NoServer # PromptServer

VARIABLES
    part,
    udp_only, state, socket_fd, ssl, nat_t_transport, using_nat_t, rudp,
    rudp_enabled, abort_connect, use_tcp, pc, result, connects, lost, freed,
    cancel_flag, winner_claimed, winner_published, winner_index, created, exited,
    payload, raceFreed, open, racePc, parent, joining, winner, adopted,
    status, udpResult, halt, worker, caller, cancel, fds, error_code, your_port,
    server_port, smallSeen, appClosed, goodbye,
    natPc, fd, natError, tick, turn, next_send_tick, num_tries, current_cookie,
    natAsked, datagrams, said, raceCancel,
    dhcpPc, retry, elapsed, inbox, asked, lease, serverId, leases, closed, conn, reads

\* The owner of the object waits for a running connect before it destroys it.
Connect == INSTANCE SoftEtherConnect WITH OwnerWaits <- TRUE

Race == INSTANCE TransportRace WITH pc <- racePc, freed <- raceFreed

Transport == INSTANCE RudpTransport WITH result <- udpResult

\* Any relay over any network.
Rendezvous == INSTANCE NatTraversal WITH
    Prompt <- FALSE, GiveUp <- Deadline, asked <- natAsked,
    Answers <- {"ok", "lan", "broken", "missing", "many", "stranger"}

\* A relay that answers at once.
RendezvousPrompt == INSTANCE NatTraversal WITH
    Prompt <- TRUE, GiveUp <- Deadline, asked <- natAsked, Answers <- {"ok", "lan"}

\* Servers that send every option; requests are lost or refused, replies come
\* late, other traffic comes in between.
Dhcp == INSTANCE DhcpClient WITH
    Routed <- Servers, Noise <- {"other", "keepalive"}, Lossy <- TRUE, Prompt <- FALSE,
    None <- NoServer, pc <- dhcpPc, result <- lease

\* One server that answers at once, and other traffic.
DhcpPrompt == INSTANCE DhcpClient WITH
    Servers <- {PromptServer}, Routed <- {PromptServer}, Noise <- {"other"},
    Lossy <- FALSE, Prompt <- TRUE, None <- NoServer, pc <- dhcpPc, result <- lease

connectVars == <<udp_only, state, socket_fd, ssl, nat_t_transport, using_nat_t, rudp,
    rudp_enabled, abort_connect, use_tcp, pc, result, connects, lost, freed>>
raceVars == <<cancel_flag, winner_claimed, winner_published, winner_index, created,
    exited, payload, raceFreed, open, racePc, parent, joining, winner, adopted>>
transportVars == <<status, udpResult, halt, worker, caller, cancel, fds, error_code,
    your_port, server_port, smallSeen, appClosed, goodbye>>
natVars == <<natPc, fd, natError, tick, turn, next_send_tick, num_tries, current_cookie,
    natAsked, datagrams, said, raceCancel>>
dhcpVars == <<dhcpPc, retry, elapsed, inbox, asked, lease, serverId, leases, closed,
    conn, reads>>
vars == <<part, connectVars, raceVars, transportVars, natVars, dhcpVars>>

\* Each part's Init, the others at one initial state of theirs.
Init ==
    /\ part \in {"connect", "race", "transport", "relay", "promptRelay", "quiet", "prompt", "busy"}
    /\ Connect!Init /\ (part # "connect" => udp_only = FALSE)
    /\ Race!Init
    /\ Transport!Init /\ (part # "transport" => server_port = "configured")
    /\ Rendezvous!Init
    /\ IF part \in {"quiet", "busy"} THEN Dhcp!Init ELSE DhcpPrompt!Init

OnlyConnect ==
    part = "connect" /\ UNCHANGED <<part, raceVars, transportVars, natVars, dhcpVars>>
OnlyRace ==
    part = "race" /\ UNCHANGED <<part, connectVars, transportVars, natVars, dhcpVars>>
OnlyTransport ==
    part = "transport" /\ UNCHANGED <<part, connectVars, raceVars, natVars, dhcpVars>>
OnlyRelay(p) == part = p /\ UNCHANGED <<part, connectVars, raceVars, transportVars, dhcpVars>>
OnlyDhcp(p) == part = p /\ UNCHANGED <<part, connectVars, raceVars, transportVars, natVars>>

\* The tunnel is otherwise quiet: the call reads DHCP and ARP replies only.
Quiet == \A i \in DOMAIN inbox : inbox[i].kind \in {"dhcp", "arp"}

DhcpStep ==
    \/ OnlyDhcp("quiet") /\ Dhcp!Client
    \/ OnlyDhcp("prompt") /\ DhcpPrompt!Client
    \/ OnlyDhcp("busy") /\ Dhcp!Client

DhcpNetwork ==
    \/ OnlyDhcp("quiet") /\ Dhcp!Network /\ Quiet'
    \/ OnlyDhcp("prompt") /\ DhcpPrompt!Network
    \/ OnlyDhcp("busy") /\ Dhcp!Network

Next ==
    \/ OnlyConnect /\ Connect!Next
    \/ OnlyRace /\ Race!Next
    \/ OnlyTransport /\ Transport!Next
    \/ OnlyRelay("relay") /\ Rendezvous!Next
    \/ OnlyRelay("promptRelay") /\ RendezvousPrompt!Next
    \/ DhcpStep
    \/ DhcpNetwork

\* The thread that makes the call a part is about.
CallerStep ==
    \/ OnlyConnect /\ Connect!ConnectStep
    \/ OnlyRace /\ Race!Race
    \/ OnlyTransport /\ Transport!OwnerStep
    \/ OnlyRelay("relay") /\ Rendezvous!Turn
    \/ DhcpStep

\* The fairness of the components' own specifications.  A behaviour stays in its
\* part, so one condition for the callers of all parts is one for each.
Spec ==
    /\ Init /\ [][Next]_vars
    /\ WF_vars(CallerStep)
    /\ \A w \in Race!Workers : WF_vars(OnlyRace /\ Race!Work(w))
    /\ WF_vars(OnlyTransport /\ Transport!WorkerEnds)
    /\ WF_vars(OnlyTransport /\ Transport!SessionTimesOut)

-----------------------------------------------------------------------------
(* Properties: those of the components, grouped by what they are about.    *)

\* A connect that fails leaves nothing open (with a TCP port: nothing but the
\* connection of a race winner), nothing is lost over retries and destroy,
\* and a connection reported as connected has a complete link.
ConnectReleasesOrCompletes == Connect!ConnectReleasesOrCompletes

\* A cancel that comes before the session setup makes the connect fail.
CancelledConnectFails == Connect!CancelledConnectFails

\* The parent of the race adopts a winner whose result is complete and which
\* is still open, every other connection is closed, and no worker runs on the
\* freed control block.
OneWinnerIsAdopted == Race!OneWinnerIsAdopted

\* The R-UDP worker never runs on closed descriptors, and a transport that was
\* reported as connected has heard the server, sends to the port it answers
\* from, and is not reported otherwise later.  A NAT-T rendezvous reports what
\* the relay said, reaches a relay that answers, and keeps no socket open.
TransportResultIsTrue ==
    /\ Transport!TypeOK
    /\ Transport!WorkerOwnsDescriptors
    /\ Transport!ResultStands
    /\ Transport!ConnectedMeansEstablished
    /\ part = "relay" => /\ Rendezvous!TypeOK
                         /\ Rendezvous!SocketIsAccountedFor
                         /\ Rendezvous!ReportIsTrue
    /\ part = "promptRelay" => RendezvousPrompt!PromptRelayIsReached

\* A successful DHCP call reports one server's committed lease and the MAC
\* address of that lease's gateway; with one prompt server every call succeeds.
LeaseIsConsistent ==
    /\ part \in {"quiet", "busy"} => /\ Dhcp!TypeOK
                                     /\ Dhcp!LeaseIsOneServers
                                     /\ Dhcp!MacIsGateways
    /\ part = "prompt" => /\ DhcpPrompt!TypeOK
                          /\ DhcpPrompt!PromptServerLeases

\* A call is waiting whose wait is bounded: a race, an R-UDP connect, a NAT-T
\* rendezvous at its deadline, a DHCP call that is cancelled or over a quiet tunnel.
Waiting ==
    \/ part = "race"
    \/ part = "transport" /\ caller \in {"check", "join"}
    \/ part = "relay" /\ Rendezvous!TimeIsOver
    \/ part = "quiet"
    \/ part \in {"prompt", "busy"} /\ closed

\* The call of the part has returned.
Decided ==
    \/ part = "race" /\ parent = "done"
    \/ part = "transport" /\ caller \in {"connected", "failed"}
    \/ part = "relay" /\ Rendezvous!Returned
    \/ part \in {"quiet", "prompt", "busy"} /\ Dhcp!Ended

\* The race ends, every R-UDP connect is decided and every join returns, a NAT-T
\* rendezvous ends, so does a DHCP call over a quiet tunnel, and a cancelled one
\* over any.  (RaceEnds, ConnectIsDecided, RendezvousEnds, WaitHasTimeout and
\* CancelEnds of the parts as one formula, which TLC checks once.)
EveryWaitEnds == Waiting ~> Decided
=============================================================================
