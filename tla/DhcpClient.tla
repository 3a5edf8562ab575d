---------------------------- MODULE DhcpClient ----------------------------
(***************************************************************************)
(* One call of nativeDoDhcp (softether_jni.c): softether_do_dhcp           *)
(* (net/dhcp_client.c) followed by softether_resolve_gateway               *)
(* (softether_protocol.c), over the frames of the tunnel.                  *)
(*                                                                         *)
(* The client broadcasts, so every DHCP server of the virtual hub and of   *)
(* the network bridged to it sees each request.  All retries of a call use *)
(* ONE transaction id: a reply to an earlier attempt is accepted by the    *)
(* wait of a later one, and parse_dhcp_response writes the fields of every *)
(* such reply into the same dhcp_result_t, whatever the reply's type.      *)
(*                                                                         *)
(* An address is represented by the server that handed it out.  Frames are *)
(* "dhcp" replies, ARP replies, "other" traffic of the hub (any frame that *)
(* parse_dhcp_response refuses) and "keepalive", a receive that returns no *)
(* frame.  A wait counts time only on a poll that finds nothing and on a   *)
(* receive that returns no frame.                                          *)
(***************************************************************************)
EXTENDS Naturals, Sequences, FiniteSets

CONSTANTS
    Servers,     \* DHCP servers that see the client's broadcasts
    Routed,      \* those whose replies carry OPT_ROUTER
    Polls,       \* DHCP_TIMEOUT_MS / poll_interval, 50 in the code
    MaxRetries,  \* DHCP_MAX_RETRIES, 3 in the code
    ArpReads,    \* 3 attempts of 40 reads, as one count
    MaxQueue,    \* bound on the frames waiting to be received
    Noise,       \* kinds of other frames the tunnel may carry
    Lossy,       \* a request may be lost or refused with a NAK, a cancel may happen
    Prompt,      \* the servers answer before a poll interval has passed
    None         \* no address, 0 in the code

VARIABLES
    pc,       \* where the call is; "done" and "failed" are its two returns
    retry,    \* retry of softether_do_dhcp
    elapsed,  \* elapsed of wait_dhcp_response, in poll intervals
    inbox,    \* frames received and not yet read
    asked,    \* per server, the requests it has not handled yet
    result,   \* dhcp_result_t, one owner per field (None is 0)
    serverId, \* server_id
    leases,   \* servers that have committed a lease to this client
    closed,   \* softether_force_close_socket: abort_connect and sockets shut down
    conn,     \* assigned_ip, gateway_ip and the owner of gateway_mac
    reads     \* receives made by softether_resolve_gateway

vars == <<pc, retry, elapsed, inbox, asked, result, serverId, leases, closed, conn, reads>>
netVars == <<asked, leases, closed>>
dhcpVars == <<retry, elapsed, result, serverId>>

Address == ((Servers \union {None}) \X {"router", "resolver", "none"})
NoAddr == <<None, "none">>
Router(s) == <<s, "router">>
Resolver(s) == <<s, "resolver">>

Reply(type, s) == [kind |-> "dhcp", type |-> type, from |-> s]
ArpReply(a) == [kind |-> "arp", of |-> a]
Frame == [kind : {"dhcp"}, type : {"offer", "ack", "nak"}, from : Servers]
            \union [kind : {"arp"}, of : Address] \union [kind : Noise]
Request == [type : {"discover", "request"}, to : Servers \union {None}]

Ended == pc \in {"done", "failed"}

\* The type of every variable.
TypeOK ==
    /\ pc \in {"start", "offer", "ack", "arp", "done", "failed"}
    /\ retry \in 0 .. MaxRetries
    /\ elapsed \in 0 .. Polls
    /\ inbox \in Seq(Frame) /\ Len(inbox) <= MaxQueue
    /\ asked \in [Servers -> Seq(Request)]
    /\ result \in [ip : Servers \union {None}, gw : Address, dns : Address]
    /\ serverId \in Servers \union {None}
    /\ leases \subseteq Servers
    /\ closed \in BOOLEAN
    /\ conn \in [assigned : Servers \union {None}, gateway : Address, mac : Address]
    /\ reads \in 0 .. 2 * ArpReads

Init ==
    /\ pc = "start" /\ retry = 0 /\ elapsed = 0
    /\ inbox = <<>>
    /\ asked = [s \in Servers |-> <<>>]
    /\ result = [ip |-> None, gw |-> NoAddr, dns |-> NoAddr]
    /\ serverId = None
    /\ leases = {} /\ closed = FALSE
    /\ conn = [assigned |-> None, gateway |-> NoAddr, mac |-> NoAddr]
    /\ reads = 0

-----------------------------------------------------------------------------
\* softether_send_raw of a broadcast; it fails once the sockets are shut down.
Broadcast(request) == asked' = [s \in Servers |-> Append(asked[s], request)]

\* The next iteration of the retry loop, or its end.
NextRetry ==
    /\ retry' = retry + 1
    /\ elapsed' = 0
    /\ pc' = IF retry + 1 < MaxRetries THEN "start" ELSE "failed"

\* The head of an iteration: abort_connect and a failed send end the call.
SendDiscover ==
    /\ pc = "start"
    /\ IF closed
       THEN pc' = "failed" /\ UNCHANGED asked
       ELSE pc' = "offer" /\ Broadcast([type |-> "discover", to |-> None])
    /\ elapsed' = 0
    /\ UNCHANGED <<retry, inbox, result, serverId, leases, closed, conn, reads>>

MergeKeepsGateway(r, s) ==
    [ip |-> s, gw |-> IF s \in Routed /\ r.gw = NoAddr THEN Router(s) ELSE r.gw,
     dns |-> Resolver(s)]

\* What parse_dhcp_response stores of a reply: an option that is absent keeps
\* the value an earlier reply left.
Merge(r, s) ==
    [ip |-> s, gw |-> IF s \in Routed THEN Router(s) ELSE r.gw, dns |-> Resolver(s)]

\* The wait for the OFFER returned: anything but an OFFER starts over.
OnOffer(m) ==
    /\ pc = "offer"
    /\ IF m.type = "offer"
       THEN IF closed
            THEN pc' = "failed" /\ UNCHANGED <<retry, elapsed, asked>>
            ELSE /\ pc' = "ack" /\ elapsed' = 0
                 /\ Broadcast([type |-> "request", to |-> m.from])
                 /\ UNCHANGED retry
       ELSE NextRetry /\ UNCHANGED asked
    /\ UNCHANGED conn

\* The wait for the ACK returned.  An ACK ends softether_do_dhcp and, when the
\* lease has a router, nativeDoDhcp records the address and resolves the router.
OnAck(m) ==
    /\ pc = "ack"
    /\ CASE m.type = "ack" ->
              /\ LET r == Merge(result, m.from)
                 IN IF r.gw # NoAddr
                    THEN /\ pc' = "arp"
                         /\ conn' = [conn EXCEPT !.assigned = r.ip, !.gateway = r.gw]
                    ELSE pc' = "done" /\ UNCHANGED conn
              /\ UNCHANGED <<retry, elapsed>>
         [] m.type = "nak" -> pc' = "failed" /\ UNCHANGED <<retry, elapsed, conn>>
         [] OTHER -> NextRetry /\ UNCHANGED conn
    /\ UNCHANGED asked

\* wait_dhcp_response reads a DHCP reply with this transaction's id.
ReadReply ==
    /\ pc \in {"offer", "ack"} /\ elapsed < Polls
    /\ inbox # <<>> /\ Head(inbox).kind = "dhcp"
    /\ LET m == Head(inbox)
       IN /\ result' = Merge(result, m.from)
          /\ serverId' = m.from
          /\ OnOffer(m) \/ OnAck(m)
    /\ inbox' = Tail(inbox)
    /\ UNCHANGED <<leases, closed, reads>>

ReadOtherReturns ==
    /\ pc \in {"offer", "ack"} /\ elapsed < Polls
    /\ inbox # <<>> /\ Head(inbox).kind \in {"other", "arp"}
    /\ inbox' = Tail(inbox)
    /\ NextRetry
    /\ UNCHANGED <<result, serverId, netVars, conn, reads>>

\* wait_dhcp_response reads a frame it has no use for: no time is counted.
ReadOther ==
    /\ pc \in {"offer", "ack"} /\ elapsed < Polls
    /\ inbox # <<>> /\ Head(inbox).kind \in {"other", "arp"}
    /\ inbox' = Tail(inbox)
    /\ UNCHANGED <<pc, dhcpVars, netVars, conn, reads>>

IdlePollUncounted ==
    /\ pc \in {"offer", "ack"} /\ elapsed < Polls
    /\ IF inbox = <<>>
       THEN ~closed /\ (Prompt => \A s \in Servers : asked[s] = <<>>) /\ UNCHANGED inbox
       ELSE Head(inbox).kind = "keepalive" /\ inbox' = Tail(inbox)
    /\ UNCHANGED <<pc, dhcpVars, netVars, conn, reads>>

\* wait_dhcp_response counts a poll interval: nothing arrived within it, or the
\* receive returned no frame.
IdlePoll ==
    /\ pc \in {"offer", "ack"} /\ elapsed < Polls
    /\ IF inbox = <<>>
       THEN ~closed /\ (Prompt => \A s \in Servers : asked[s] = <<>>) /\ UNCHANGED inbox
       ELSE Head(inbox).kind = "keepalive" /\ inbox' = Tail(inbox)
    /\ elapsed' = elapsed + 1
    /\ UNCHANGED <<pc, retry, result, serverId, netVars, conn, reads>>

ReceiveFailsIgnored ==
    /\ pc \in {"offer", "ack"} /\ elapsed < Polls
    /\ inbox = <<>> /\ closed
    /\ UNCHANGED vars

\* Nothing left to read from sockets that were shut down: poll reports the
\* hang-up, the receive fails, and so do the wait and the call.
ReceiveFails ==
    /\ pc \in {"offer", "ack"} /\ elapsed < Polls
    /\ inbox = <<>> /\ closed
    /\ pc' = "failed"
    /\ UNCHANGED <<dhcpVars, inbox, netVars, conn, reads>>

\* wait_dhcp_response returns 0.
WaitTimesOut ==
    /\ pc \in {"offer", "ack"} /\ elapsed = Polls
    /\ NextRetry
    /\ UNCHANGED <<inbox, result, serverId, netVars, conn, reads>>

-----------------------------------------------------------------------------
ResolveReadAnySender ==
    /\ pc = "arp" /\ reads < 2 * ArpReads
    /\ LET got == IF inbox = <<>> THEN [kind |-> "none"] ELSE Head(inbox)
       IN IF got.kind = "arp"
          THEN /\ conn' = [conn EXCEPT !.mac = got.of]
               /\ pc' = "done"
               /\ UNCHANGED reads
          ELSE /\ reads' = reads + 1
               /\ conn' = IF reads + 1 = ArpReads
                          THEN [conn EXCEPT !.gateway = result.dns] ELSE conn
               /\ pc' = IF reads + 1 = 2 * ArpReads THEN "done" ELSE "arp"
    /\ inbox' = IF inbox = <<>> THEN inbox ELSE Tail(inbox)
    /\ UNCHANGED <<dhcpVars, netVars>>

ResolveReadNoEnd ==
    /\ pc = "arp"
    /\ LET got == IF inbox = <<>> THEN [kind |-> "none"] ELSE Head(inbox)
       IN IF got.kind = "arp" /\ got.of = conn.gateway
          THEN /\ conn' = [conn EXCEPT !.mac = conn.gateway]
               /\ pc' = "done"
               /\ UNCHANGED reads
          ELSE /\ reads' = reads + 1
               /\ UNCHANGED <<conn, pc>>
    /\ inbox' = IF inbox = <<>> THEN inbox ELSE Tail(inbox)
    /\ UNCHANGED <<dhcpVars, netVars>>

\* One receive of softether_resolve_gateway; the address of the lease's DNS
\* server takes the router's place when the first resolution fails.
ResolveRead ==
    /\ pc = "arp" /\ reads < 2 * ArpReads
    /\ LET got == IF inbox = <<>> THEN [kind |-> "none"] ELSE Head(inbox)
       IN IF got.kind = "arp" /\ got.of = conn.gateway
          THEN /\ conn' = [conn EXCEPT !.mac = conn.gateway]
               /\ pc' = "done"
               /\ UNCHANGED reads
          ELSE /\ reads' = reads + 1
               /\ conn' = IF reads + 1 = ArpReads
                          THEN [conn EXCEPT !.gateway = result.dns] ELSE conn
               /\ pc' = IF reads + 1 = 2 * ArpReads THEN "done" ELSE "arp"
    /\ inbox' = IF inbox = <<>> THEN inbox ELSE Tail(inbox)
    /\ UNCHANGED <<dhcpVars, netVars>>

-----------------------------------------------------------------------------
\* A frame reaches the client's receive queue.
Arrive(frame) ==
    /\ ~closed /\ Len(inbox) < MaxQueue
    /\ inbox' = Append(inbox, frame)

\* External: a server answers a DISCOVER with an OFFER.
ServeDiscover(s) ==
    /\ asked[s] # <<>> /\ Head(asked[s]).type = "discover"
    /\ Arrive(Reply("offer", s))
    /\ asked' = [asked EXCEPT ![s] = Tail(@)]
    /\ UNCHANGED <<pc, dhcpVars, leases, closed, conn, reads>>

\* External: the server a REQUEST names commits the lease and acknowledges it.
ServeRequest(s) ==
    /\ asked[s] # <<>> /\ Head(asked[s]).type = "request" /\ Head(asked[s]).to = s
    /\ Arrive(Reply("ack", s))
    /\ leases' = leases \union {s}
    /\ asked' = [asked EXCEPT ![s] = Tail(@)]
    /\ UNCHANGED <<pc, dhcpVars, closed, conn, reads>>

\* External: a REQUEST that names another server needs no answer.
ServeOther(s) ==
    /\ asked[s] # <<>> /\ Head(asked[s]).type = "request" /\ Head(asked[s]).to # s
    /\ asked' = [asked EXCEPT ![s] = Tail(@)]
    /\ UNCHANGED <<pc, dhcpVars, inbox, leases, closed, conn, reads>>

\* External: a request is lost, or the named server refuses it.
LoseRequest(s) ==
    /\ Lossy /\ asked[s] # <<>>
    /\ asked' = [asked EXCEPT ![s] = Tail(@)]
    /\ \/ UNCHANGED inbox
       \/ Head(asked[s]).type = "request" /\ Head(asked[s]).to = s /\ Arrive(Reply("nak", s))
    /\ UNCHANGED <<pc, dhcpVars, leases, closed, conn, reads>>

\* External: a host answers an ARP request of this call, in time or late.
AnswerArp ==
    /\ pc = "arp" /\ Lossy
    /\ \E a \in {result.gw, result.dns} : Arrive(ArpReply(a))
    /\ UNCHANGED <<pc, dhcpVars, netVars, conn, reads>>

\* External: other traffic of the hub.
OtherTraffic ==
    /\ ~Ended
    /\ \E k \in Noise : Arrive([kind |-> k])
    /\ UNCHANGED <<pc, dhcpVars, netVars, conn, reads>>

\* softether_force_close_socket, from another thread.
ForceClose ==
    /\ Lossy /\ ~closed /\ ~Ended
    /\ closed' = TRUE
    /\ UNCHANGED <<pc, dhcpVars, inbox, asked, leases, conn, reads>>

-----------------------------------------------------------------------------
Client ==
    SendDiscover \/ ReadReply \/ ReadOther \/ IdlePoll \/ ReceiveFails \/ WaitTimesOut
        \/ ResolveRead

Network ==
    \/ \E s \in Servers : ServeDiscover(s) \/ ServeRequest(s) \/ ServeOther(s) \/ LoseRequest(s)
    \/ AnswerArp \/ OtherTraffic \/ ForceClose

Next == Client \/ Network

\* The thread in nativeDoDhcp keeps running: every poll returns within its
\* interval and every receive returns.  Nothing is assumed of the network.
Spec == Init /\ [][Next]_vars /\ WF_vars(Client)

-----------------------------------------------------------------------------
(* Properties *)

\* A call that succeeds reports the configuration of ONE server, and that server
\* has committed the lease: a late reply of another server, or of an earlier
\* attempt, that the shared transaction id let through never mixes in (servers
\* that send every option).
LeaseIsOneServers ==
    pc \in {"arp", "done"} =>
        LET s == result.ip
        IN /\ s \in leases /\ serverId = s
           /\ result.gw = Router(s) /\ result.dns = Resolver(s)

\* The MAC address the data path will send to belongs to the address the
\* connection records as its gateway, across the fallback to the DNS server and
\* an answer of the router that comes after it.
MacIsGateways ==
    conn.mac # NoAddr => conn.mac = conn.gateway /\ conn.assigned = result.ip

\* A cancel ends the call, whatever traffic the tunnel carried.
CancelEnds == closed ~> Ended

\* The client obtains its configuration from servers that answer promptly over a
\* tunnel that loses nothing: the call never fails.
PromptServerLeases == pc # "failed"

\* wait_dhcp_response returns within its timeout, so every call ends.
WaitHasTimeout == <>Ended
=============================================================================
