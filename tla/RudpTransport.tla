--------------------------- MODULE RudpTransport ---------------------------
(***************************************************************************)
(* How an R-UDP session begins and ends (rudp_transport.c): the thread     *)
(* that connects, disconnects and destroys the transport, its worker       *)
(* thread, the application at the other end of the socket pair, and a      *)
(* competing transport that may cancel the connect.  What the session      *)
(* carries is RudpStream.tla's.                                            *)
(***************************************************************************)
EXTENDS Integers

VARIABLES
    status,         \* CONNECT_SENT, ESTABLISHED, DISCONNECTED
    result,         \* result_ready and result_ok
    halt, worker,   \* halt flag; worker thread none, running or over
    caller,         \* where the owner of the transport is
    cancel,         \* *cancel_flag, set by a competing transport
    fds,            \* the UDP socket and the pair are open
    error_code,
    your_port,      \* where segments are sent
    server_port,    \* where the server's datagrams come from
    smallSeen,      \* history: a datagram of less than 20 bytes arrived
    appClosed,      \* the application closed its end
    goodbye         \* history: graceful disconnect segments were sent

vars == <<status, result, halt, worker, caller, cancel, fds, error_code,
          your_port, server_port, smallSeen, appClosed, goodbye>>
sessionVars == <<status, result, goodbye, your_port, server_port, smallSeen>>

Init ==
    /\ status = "CONNECT_SENT"
    /\ result = "none"
    /\ halt = FALSE
    /\ worker = "none"
    /\ caller = "idle"
    /\ cancel = FALSE
    /\ fds = FALSE
    /\ error_code = "UNKNOWN"
    /\ your_port = "configured"
    /\ server_port \in {"configured", "rewritten"}
    /\ smallSeen = FALSE
    /\ appClosed = FALSE
    /\ goodbye = FALSE

-----------------------------------------------------------------------------
(* rudp_transport_connect and the owner of the transport. *)

\* Sockets, pair and session set up, the worker started.
Connect ==
    /\ caller = "idle"
    /\ caller' = "check"
    /\ fds' = TRUE
    /\ worker' = "running"
    /\ UNCHANGED <<sessionVars, halt, cancel, error_code, appClosed>>

\* Bad arguments, or socket, socketpair, fcntl, malloc or pthread_create
\* failed: what was opened is closed again.
ConnectFailsEarly ==
    /\ caller = "idle"
    /\ caller' = "failed"
    /\ UNCHANGED <<sessionVars, halt, worker, cancel, fds, error_code, appClosed>>

\* The fail label: halt the worker and go on to join it.
FailConnect(error) ==
    /\ caller' = "join"
    /\ halt' = TRUE
    /\ error_code' = error

\* The wait loop's look at the cancel flag, before it blocks.
CheckCancel ==
    /\ caller = "check"
    /\ result = "none"
    /\ IF cancel THEN FailConnect("TIMEOUT")
                 ELSE caller' = "waiting" /\ UNCHANGED <<halt, error_code>>
    /\ UNCHANGED <<sessionVars, worker, cancel, fds, appClosed>>

\* pthread_cond_timedwait is signalled: the session's result.
ConnectResult ==
    /\ caller \in {"check", "waiting"}
    /\ result # "none"
    /\ IF result = "ok"
         THEN caller' = "connected" /\ error_code' = "OK" /\ UNCHANGED halt
         ELSE FailConnect(IF error_code = "OK" THEN "TIMEOUT" ELSE error_code)
    /\ UNCHANGED <<sessionVars, worker, cancel, fds, appClosed>>

\* ... or reaches the deadline, a second after the session's own timeout.
WaitExpires ==
    /\ caller = "waiting"
    /\ result = "none"
    /\ FailConnect(IF error_code = "OK" THEN "TIMEOUT" ELSE error_code)
    /\ UNCHANGED <<sessionVars, worker, cancel, fds, appClosed>>

\* rudp_transport_disconnect.
Disconnect ==
    /\ caller = "connected"
    /\ halt' = TRUE
    /\ UNCHANGED <<sessionVars, worker, caller, cancel, fds, error_code, appClosed>>

\* rudp_transport_destroy, after the application end was closed.
Destroy ==
    /\ caller = "connected"
    /\ appClosed
    /\ caller' = "join"
    /\ halt' = TRUE
    /\ UNCHANGED <<sessionVars, worker, cancel, fds, error_code, appClosed>>

\* Mutant: the descriptors are closed without joining the worker.
JoinNobody ==
    /\ caller = "join"
    /\ caller' = "failed"
    /\ fds' = FALSE
    /\ UNCHANGED <<sessionVars, halt, worker, cancel, error_code, appClosed>>

\* pthread_join returned: descriptors closed, queues freed.
Join ==
    /\ caller = "join"
    /\ worker = "over"
    /\ caller' = "failed"
    /\ fds' = FALSE
    /\ UNCHANGED <<sessionVars, halt, worker, cancel, error_code, appClosed>>

\* A competing transport won the race (external).
Cancel ==
    /\ ~cancel
    /\ cancel' = TRUE
    /\ UNCHANGED <<sessionVars, halt, worker, caller, fds, error_code, appClosed>>

AppCloses ==
    /\ caller = "connected"
    /\ ~appClosed
    /\ appClosed' = TRUE
    /\ UNCHANGED <<sessionVars, halt, worker, caller, cancel, fds, error_code>>

-----------------------------------------------------------------------------
(* The worker. *)

Running == worker = "running" /\ status # "DISCONNECTED"

\* rt_signal_result: the first result stands.
SignalResult(r) == result' = IF result = "none" THEN r ELSE result

\* Mutant: the end of a session wakes nobody.
SetDisconnectedSilently(by_you) ==
    /\ status' = "DISCONNECTED"
    /\ goodbye' = (goodbye \/ (~by_you /\ status = "ESTABLISHED"))
    /\ UNCHANGED result

\* rt_set_disconnected: goodbye segments only if we end an established session.
SetDisconnected(by_you) ==
    /\ status' = "DISCONNECTED"
    /\ SignalResult("failed")
    /\ goodbye' = (goodbye \/ (~by_you /\ status = "ESTABLISHED"))

\* A valid segment: the first one establishes the session.
HandlePacket ==
    /\ Running
    /\ status' = "ESTABLISHED"
    /\ IF status = "CONNECT_SENT" THEN SignalResult("ok") ELSE UNCHANGED result
    /\ your_port' = server_port
    /\ UNCHANGED <<halt, worker, caller, cancel, fds, error_code, server_port,
                   smallSeen, appClosed, goodbye>>

\* The server's magic_disconnect segment.
HandleDisconnect ==
    /\ Running
    /\ SetDisconnected(TRUE)
    /\ UNCHANGED <<halt, worker, caller, cancel, fds, error_code, your_port,
                   server_port, smallSeen, appClosed>>

\* A datagram of less than 20 bytes: the first test returns.
HandleSmallPacket ==
    /\ Running
    /\ ~smallSeen
    /\ smallSeen' = TRUE
    /\ UNCHANGED <<status, result, halt, worker, caller, cancel, fds, error_code,
                   your_port, server_port, appClosed, goodbye>>

\* rt_interrupt: connect_timeout_ms without a valid segment, 12 s of silence.
SessionTimesOut ==
    /\ Running
    /\ error_code' = "TIMEOUT"
    /\ SetDisconnected(FALSE)
    /\ UNCHANGED <<halt, worker, caller, cancel, fds, your_port, server_port,
                   smallSeen, appClosed>>

\* The pair's other end is closed: recv returns 0, send fails.
AppGone ==
    /\ Running
    /\ status = "ESTABLISHED"
    /\ appClosed \/ halt
    /\ SetDisconnected(FALSE)
    /\ UNCHANGED <<halt, worker, caller, cancel, fds, error_code, your_port,
                   server_port, smallSeen, appClosed>>

\* Leaving the worker loop: halted, or disconnected with the result known.
WorkerEnds ==
    /\ worker = "running"
    /\ halt \/ (status = "DISCONNECTED" /\ result # "none")
    /\ worker' = "over"
    /\ IF status = "DISCONNECTED" THEN UNCHANGED <<status, result, goodbye>>
                                  ELSE SetDisconnected(FALSE)
    /\ UNCHANGED <<halt, caller, cancel, fds, error_code, your_port, server_port,
                   smallSeen, appClosed>>

OwnerStep == CheckCancel \/ ConnectResult \/ Join

Next ==
    \/ Connect \/ ConnectFailsEarly \/ OwnerStep \/ WaitExpires
    \/ Disconnect \/ Destroy \/ Cancel \/ AppCloses
    \/ HandlePacket \/ HandleDisconnect \/ HandleSmallPacket
    \/ SessionTimesOut \/ AppGone \/ WorkerEnds

Spec == Init /\ [][Next]_vars

\* Threads that can go on do; the session's timer fires.
FairSpec ==
    Spec /\ WF_vars(OwnerStep) /\ WF_vars(WorkerEnds) /\ WF_vars(SessionTimesOut)

\* Threads go on, but no timer is waited for.
UntimedSpec == Spec /\ WF_vars(OwnerStep) /\ WF_vars(WorkerEnds)

-----------------------------------------------------------------------------
\* The types.
TypeOK ==
    /\ status \in {"CONNECT_SENT", "ESTABLISHED", "DISCONNECTED"}
    /\ result \in {"none", "ok", "failed"}
    /\ worker \in {"none", "running", "over"}
    /\ caller \in {"idle", "check", "waiting", "connected", "join", "failed"}
    /\ error_code \in {"OK", "UNKNOWN", "TIMEOUT"}
    /\ {your_port, server_port} \subseteq {"configured", "rewritten"}
    /\ {halt, cancel, fds, smallSeen, appClosed, goodbye} \subseteq BOOLEAN

\* "Joins the worker thread, closes the UDP socket and both socket-pair ends":
\* the worker never runs on closed descriptors.
WorkerOwnsDescriptors == worker = "running" => fds

\* A caller told that the connect succeeded was told by a session that had
\* heard the server, and sends to the port the server answered from.
ConnectedMeansEstablished ==
    caller = "connected" => status # "CONNECT_SENT" /\ your_port = server_port

\* The session's end does not take back a result the caller acts on.
ResultStands == caller = "connected" => result = "ok"

\* A connect is decided, even by a server that never answers, and the owner
\* that waits for the worker is not left waiting.
ConnectIsDecided == caller \in {"check", "join"} ~> caller \in {"connected", "failed"}

\* "some NATs overwrite the server source port; learn it while we are still
\* awaiting the first valid segment".
LearnsPortFromSmallPackets ==
    smallSeen /\ status = "CONNECT_SENT" => your_port = server_port

\* "if ... *cancel_flag becomes non-zero, the connect returns early": not only
\* when a timer fires.
CancelReturnsEarly == (cancel /\ caller = "waiting") ~> caller # "waiting"
=============================================================================
