--------------------------- MODULE SoftEtherConnect ---------------------------
(***************************************************************************)
(* One native connection object through softether_connect_with_hub: TCP    *)
(* first, the parallel UDP race as its fallback (or alone, for a server    *)
(* that has no TCP port), the two-step login, the NAT-T fallback for a     *)
(* refused login, and the session setup; against a cancel from another     *)
(* thread, and the owner's disconnect, reconnect and destroy.              *)
(*                                                                         *)
(* The connect thread holds connect_mutex from Start until it returns, so  *)
(* a disconnect by the owner only happens between connects.  Addresses,    *)
(* credentials and the content of the login exchange are abstracted to     *)
(* whether a step succeeds.  What the transport race does inside is module *)
(* TransportRace; the additional links are module SoftEtherLinks.          *)
(***************************************************************************)
EXTENDS Naturals

CONSTANTS
    OwnerWaits,     \* the owner destroys only with no connect running
    MaxConnects     \* bound on connects of one object

VARIABLES
    udp_only,           \* conn->udp_only: the server has no TCP port
    state,              \* conn->state
    socket_fd,          \* "none", a "tcp" socket, or a transport's "app" end
    ssl,                \* conn->ssl is set
    nat_t_transport,    \* conn->nat_t_transport is set
    using_nat_t,
    rudp,               \* conn->rudp is set (UDP acceleration)
    rudp_enabled,
    abort_connect,
    use_tcp,            \* argument of the running connect
    pc,                 \* where the connect thread is; "idle" outside connect
    result,             \* of the last connect
    connects,
    lost,               \* kinds of objects nothing points to any more
    freed               \* softether_destroy freed the object

linkVars == <<socket_fd, ssl>>
transportVars == <<nat_t_transport, using_nat_t>>
accelVars == <<rudp, rudp_enabled>>
resources == <<linkVars, transportVars, accelVars, lost>>
callVars == <<udp_only, use_tcp, connects, freed>>
vars == <<state, resources, abort_connect, callVars, pc, result>>

Init ==
    /\ udp_only \in BOOLEAN
    /\ state = "DISCONNECTED"
    /\ socket_fd = "none"
    /\ ssl = FALSE
    /\ nat_t_transport = FALSE
    /\ using_nat_t = FALSE
    /\ rudp = FALSE
    /\ rudp_enabled = FALSE
    /\ abort_connect = FALSE
    /\ use_tcp = FALSE
    /\ pc = "idle"
    /\ result = "none"
    /\ connects = 0
    /\ lost = {}
    /\ freed = FALSE

-----------------------------------------------------------------------------
(* softether_disconnect, and the ways out of connect. *)

\* Mutant: disconnect forgets the NAT-T transport.
DisconnectKeepsTransport ==
    IF state \in {"DISCONNECTED", "DISCONNECTING"}
      THEN UNCHANGED <<state, resources>>
      ELSE /\ state' = "DISCONNECTED"
           /\ socket_fd' = "none"
           /\ ssl' = FALSE
           /\ using_nat_t' = FALSE
           /\ rudp' = FALSE
           /\ rudp_enabled' = FALSE
           /\ UNCHANGED <<nat_t_transport, lost>>

\* softether_disconnect returns at once in DISCONNECTED and DISCONNECTING,
\* whatever the object holds.  Otherwise everything is closed and freed.
Disconnect ==
    IF state \in {"DISCONNECTED", "DISCONNECTING"}
      THEN UNCHANGED <<state, resources>>
      ELSE /\ state' = "DISCONNECTED"
           /\ socket_fd' = "none"
           /\ ssl' = FALSE
           /\ nat_t_transport' = FALSE
           /\ using_nat_t' = FALSE
           /\ rudp' = FALSE
           /\ rudp_enabled' = FALSE
           /\ UNCHANGED lost

Return(r) == pc' = "idle" /\ result' = r

\* "softether_disconnect(conn); return error" of every failing stage.
Fail == Disconnect /\ Return("error")

Goto(step) == pc' = step /\ UNCHANGED result

\* Storing a new object over a pointer that is still set loses the old one.
Overwrites(kind, set) == lost' = IF set THEN lost \cup {kind} ELSE lost

-----------------------------------------------------------------------------
(* The connect thread. *)

\* The entry of connect, on a new object or one that was disconnected: the
\* abort flag is cleared, and a transport left from an earlier connect is
\* destroyed if its descriptor is closed.
Start(tcp) ==
    /\ pc = "idle"
    /\ ~freed
    /\ state = "DISCONNECTED"
    /\ connects < MaxConnects
    /\ connects' = connects + 1
    /\ use_tcp' = tcp
    /\ abort_connect' = FALSE
    /\ nat_t_transport' = (nat_t_transport /\ socket_fd # "none")
    /\ using_nat_t' = FALSE
    /\ state' = "CONNECTING"
    /\ Goto("resolve")
    /\ UNCHANGED <<udp_only, linkVars, accelVars, lost, freed>>

\* A name that does not resolve ends the connect without a disconnect.
Resolve ==
    /\ pc = "resolve"
    /\ \/ Goto(IF udp_only THEN "race" ELSE "tcp") /\ UNCHANGED state
       \/ state' = "DISCONNECTED" /\ Return("error")
    /\ UNCHANGED <<resources, abort_connect, callVars>>

\* Both address families were tried, or the connect saw abort_connect.
TcpConnect ==
    /\ pc = "tcp"
    /\ \/ /\ socket_fd' = "tcp"
          /\ Overwrites("fd", socket_fd # "none")
          /\ Goto("tls")
       \/ Goto("tcpFailed") /\ UNCHANGED <<socket_fd, lost>>
    /\ UNCHANGED <<state, ssl, transportVars, accelVars, abort_connect, callVars>>

\* perform_tls_handshake on the TCP socket; a failure closes it.
Tls ==
    /\ pc = "tls"
    /\ state' = "TLS_HANDSHAKE"
    /\ \/ /\ ssl' = TRUE
          /\ Overwrites("ssl", ssl)
          /\ Goto("tlsDone")
          /\ UNCHANGED socket_fd
       \/ socket_fd' = "none" /\ Goto("tcpFailed") /\ UNCHANGED <<ssl, lost>>
    /\ UNCHANGED <<transportVars, accelVars, abort_connect, callVars>>

\* The gate after the TCP stage: a cancel ends the connect, a failed stage
\* disconnects and goes on to the race.
AfterTcp ==
    /\ pc \in {"tlsDone", "tcpFailed"}
    /\ \/ abort_connect /\ Fail
       \/ ~abort_connect /\ pc = "tlsDone" /\ Goto("gate") /\ UNCHANGED <<state, resources>>
       \/ ~abort_connect /\ pc = "tcpFailed" /\ Disconnect /\ Goto("race")
    /\ UNCHANGED <<abort_connect, callVars>>

\* softether_connect_parallel_race.  The winner is complete, its TLS handshake
\* is done, and conn->state is left as it is.  Its result is not looked at.
Race ==
    /\ pc = "race"
    /\ \/ /\ socket_fd' = "app"
          /\ ssl' = TRUE
          /\ nat_t_transport' = TRUE
          /\ using_nat_t' = TRUE
          /\ Overwrites("transport", nat_t_transport)
       \/ UNCHANGED <<linkVars, transportVars, lost>>
    /\ Goto("gate")
    /\ UNCHANGED <<state, accelVars, abort_connect, callVars>>

\* The gate before the login.
Gate ==
    /\ pc = "gate"
    /\ \/ abort_connect /\ Fail
       \/ ~abort_connect /\ Goto("watermark") /\ UNCHANGED <<state, resources>>
    /\ UNCHANGED <<abort_connect, callVars>>

\* The first half of softether_protocol_login: the watermark needs a TLS
\* context; the UDP acceleration context is created for the login that follows.
Watermark ==
    /\ pc = "watermark"
    /\ \/ Goto("loginFailed") /\ UNCHANGED <<rudp, lost>>
       \/ /\ ssl
          /\ rudp' \in IF use_tcp \/ using_nat_t THEN {FALSE} ELSE BOOLEAN
          /\ Overwrites("rudp", rudp)
          /\ Goto("auth")
    /\ UNCHANGED <<state, linkVars, transportVars, rudp_enabled, abort_connect, callVars>>

\* perform_authentication_http.  The server may offer UDP acceleration.
Auth ==
    /\ pc = "auth"
    /\ state' = "AUTHENTICATING"
    /\ \/ rudp_enabled' \in {rudp_enabled, TRUE} /\ Goto("authenticated")
       \/ Goto("loginFailed") /\ UNCHANGED rudp_enabled
    /\ UNCHANGED <<linkVars, transportVars, rudp, lost, abort_connect, callVars>>

\* A refused login is tried once more over NAT-T, unless it used a UDP
\* transport already.
LoginFailed ==
    /\ pc = "loginFailed"
    /\ \/ ~using_nat_t /\ Disconnect /\ Goto("natt")
       \/ using_nat_t /\ Fail
    /\ UNCHANGED <<abort_connect, callVars>>

\* softether_try_nat_t_connect.
TryNatT ==
    /\ pc = "natt"
    /\ \/ /\ socket_fd' = "app"
          /\ nat_t_transport' = TRUE
          /\ using_nat_t' = TRUE
          /\ lost' = lost \cup {k \in {"fd", "transport"} :
                                  \/ k = "fd" /\ socket_fd # "none"
                                  \/ k = "transport" /\ nat_t_transport}
          /\ Goto("nattTls")
          /\ UNCHANGED <<state, ssl, accelVars>>
       \/ Fail
    /\ UNCHANGED <<abort_connect, callVars>>

\* The TLS handshake over the transport; success goes to the second login.
NatTTlsSucceeds ==
    /\ pc = "nattTls"
    /\ state' = "TLS_HANDSHAKE"
    /\ ssl' = TRUE
    /\ Overwrites("ssl", ssl)
    /\ Goto("watermark")
    /\ UNCHANGED <<socket_fd, transportVars, accelVars, abort_connect, callVars>>

\* perform_tls_handshake entered TLS_HANDSHAKE, so its disconnect is complete.
NatTTlsFails ==
    /\ pc = "nattTls"
    /\ state' = "DISCONNECTED"
    /\ socket_fd' = "none"
    /\ ssl' = FALSE
    /\ nat_t_transport' = FALSE
    /\ using_nat_t' = FALSE
    /\ rudp' = FALSE
    /\ rudp_enabled' = FALSE
    /\ Return("error")
    /\ UNCHANGED <<lost, abort_connect, callVars>>

\* Mutant: no look at the abort flag after the login.
SetupUngated ==
    /\ pc = "authenticated"
    /\ rudp_enabled' \in
         IF ~use_tcp /\ rudp /\ rudp_enabled THEN BOOLEAN ELSE {rudp_enabled}
    /\ state' = "SESSION_SETUP"
    /\ Goto("setup")
    /\ UNCHANGED <<linkVars, transportVars, rudp, lost, abort_connect, callVars>>

\* The last gate, then UDP acceleration is started or switched off.
Setup ==
    /\ pc = "authenticated"
    /\ \/ abort_connect /\ Fail
       \/ /\ ~abort_connect
          /\ rudp_enabled' \in
               IF ~use_tcp /\ rudp /\ rudp_enabled THEN BOOLEAN ELSE {rudp_enabled}
          /\ state' = "SESSION_SETUP"
          /\ Goto("setup")
          /\ UNCHANGED <<linkVars, transportVars, rudp, lost>>
    /\ UNCHANGED <<abort_connect, callVars>>

EnterConnected ==
    /\ pc = "setup"
    /\ state' = "CONNECTED"
    /\ Goto("finish")
    /\ UNCHANGED <<resources, abort_connect, callVars>>

\* The end of connect: without a socket it is an error after all.
Finish ==
    /\ pc = "finish"
    /\ IF socket_fd # "none"
         THEN Return("ok") /\ UNCHANGED <<state, resources>>
         ELSE Fail
    /\ UNCHANGED <<abort_connect, callVars>>

ConnectStep ==
    \/ Resolve \/ TcpConnect \/ Tls \/ AfterTcp \/ Race \/ Gate
    \/ Watermark \/ Auth \/ LoginFailed
    \/ TryNatT \/ NatTTlsSucceeds \/ NatTTlsFails
    \/ Setup \/ EnterConnected \/ Finish

-----------------------------------------------------------------------------
(* The other threads. *)

\* softether_force_close_socket, at any time and without connect_mutex.  The
\* shutdown of the descriptor makes a blocked stage fail, which every stage
\* may do anyway.
ForceCloseSocket ==
    /\ ~freed
    /\ ~abort_connect
    /\ abort_connect' = TRUE
    /\ UNCHANGED <<state, resources, callVars, pc, result>>

\* nativeDisconnect, waiting for connect_mutex.
NativeDisconnect ==
    /\ pc = "idle"
    /\ ~freed
    /\ state # "DISCONNECTED"
    /\ Disconnect
    /\ UNCHANGED <<abort_connect, callVars, pc, result>>

\* softether_reconnect: a disconnect if needed, then a connect over TCP only,
\* both in one call on the same thread.
Reconnect ==
    /\ pc = "idle"
    /\ ~freed
    /\ result # "none"
    /\ state # "DISCONNECTED"
    /\ connects < MaxConnects
    /\ connects' = connects + 1
    /\ use_tcp' = TRUE
    /\ abort_connect' = FALSE
    /\ state' = "CONNECTING"
    /\ socket_fd' = "none"
    /\ ssl' = FALSE
    /\ nat_t_transport' = FALSE
    /\ using_nat_t' = FALSE
    /\ rudp' = FALSE
    /\ rudp_enabled' = FALSE
    /\ Goto("resolve")
    /\ UNCHANGED <<udp_only, lost, freed>>

\* softether_destroy: disconnects (waiting for connect_mutex) unless the state
\* is DISCONNECTED, and then destroys a transport that is still there.
Destroy ==
    /\ ~freed
    /\ (OwnerWaits \/ state # "DISCONNECTED") => pc = "idle"
    /\ freed' = TRUE
    /\ state' = "DISCONNECTED"
    /\ nat_t_transport' = FALSE
    /\ using_nat_t' = FALSE
    /\ IF state # "DISCONNECTED"
         THEN /\ socket_fd' = "none"
              /\ ssl' = FALSE
              /\ rudp' = FALSE
              /\ rudp_enabled' = FALSE
         ELSE UNCHANGED <<linkVars, accelVars>>
    /\ UNCHANGED <<lost, abort_connect, udp_only, use_tcp, connects, pc, result>>

Next ==
    \/ \E tcp \in BOOLEAN : Start(tcp)
    \/ ConnectStep
    \/ ForceCloseSocket \/ NativeDisconnect \/ Reconnect \/ Destroy

Spec == Init /\ [][Next]_vars

\* Every stage of connect has a timeout, so the connect thread goes on.
FairSpec == Spec /\ WF_vars(ConnectStep)

-----------------------------------------------------------------------------
(* Properties. *)

TypeOK ==
    /\ state \in {"DISCONNECTED", "CONNECTING", "TLS_HANDSHAKE", "AUTHENTICATING",
                  "SESSION_SETUP", "CONNECTED"}
    /\ socket_fd \in {"none", "tcp", "app"}
    /\ {udp_only, ssl, nat_t_transport, using_nat_t, rudp, rudp_enabled,
        abort_connect, use_tcp, freed} \subseteq BOOLEAN
    /\ pc \in {"idle", "resolve", "tcp", "tls", "tlsDone", "tcpFailed", "race", "gate",
               "watermark", "auth", "loginFailed", "natt", "nattTls",
               "authenticated", "setup", "finish"}
    /\ result \in {"none", "ok", "error"}
    /\ connects \in 0..MaxConnects
    /\ lost \subseteq {"fd", "ssl", "transport", "rudp"}

Empty == socket_fd = "none" /\ ~ssl /\ ~nat_t_transport /\ ~rudp

\* "The connect thread will close the fd properly via softether_disconnect()":
\* a connect that returned an error left nothing open behind it, whatever stage
\* failed and whenever the cancel came.  Not so with a TCP port: the fallback
\* race runs in state DISCONNECTED, in which softether_disconnect does nothing.
FailedConnectIsClean == pc = "idle" /\ result = "error" => Empty

\* For a server without a TCP port it does hold.
UdpFailureIsClean == udp_only => FailedConnectIsClean

\* Across retries, reconnects and a final destroy, no descriptor, TLS context,
\* transport or acceleration context is dropped without being released, again
\* for a server without a TCP port.
NothingLost == udp_only => lost = {} /\ (freed => Empty)

\* The TCP socket and the acceleration context of a failed connect are always
\* released: what the fallback may leave behind is a race winner.
OnlyRaceWinnersLinger ==
    pc = "idle" /\ result = "error" => socket_fd # "tcp" /\ ~rudp

\* A connection in CONNECTED has a socket and a TLS context, its transport is
\* there exactly if the socket is that transport's, and UDP acceleration is
\* not combined with a UDP transport.
ConnectedIsComplete ==
    state = "CONNECTED" =>
        /\ socket_fd # "none"
        /\ ssl
        /\ using_nat_t = (socket_fd = "app")
        /\ using_nat_t => nat_t_transport /\ ~rudp

\* A connect either completes or releases what it opened, as far as the code
\* does: entirely for a server without a TCP port, all but a race winner
\* otherwise.
ConnectReleasesOrCompletes ==
    /\ TypeOK
    /\ UdpFailureIsClean
    /\ NothingLost
    /\ OnlyRaceWinnersLinger
    /\ ConnectedIsComplete

\* A cancel that arrives before the session setup makes that connect return
\* an error, from whatever stage it is in.
CancelledConnectFails ==
    (abort_connect /\ pc \notin {"idle", "setup", "finish"})
        ~> (pc = "idle" /\ result = "error")

\* A cancel ends the connect between stages "instead of waiting for the whole
\* timeout budget (TCP + fallback stages)" (softether_force_close_socket):
\* after it the NAT-T stage, with its own full timeout, is not begun.
NoStageAfterCancel == [][pc # "natt" /\ pc' = "natt" => ~abort_connect]_vars

\* Freeing the object waits for a running connect ("Must be called BEFORE
\* softether_destroy() when the connect thread may be stuck holding
\* connect_mutex").
DestroyWaitsForConnect == freed => pc = "idle"
=============================================================================
