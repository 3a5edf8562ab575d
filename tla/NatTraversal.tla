---------------------------- MODULE NatTraversal ----------------------------
(***************************************************************************)
(* One NAT-T rendezvous (softether_nat_t.c): the client asks a relay for   *)
(* the endpoint of a server behind a NAT, over UDP, until the relay        *)
(* decides, the race cancels it or its time is over.                       *)
(*                                                                         *)
(* Each turn of the loop looks at the clock and the cancel flag, drains    *)
(* the socket, sends when a request is due and waits up to 50 ms.  The     *)
(* relay may ask for a cookie before it answers: the client only learns it *)
(* from a reply and repeats it in its NEXT request, which is due after a   *)
(* backoff that doubles with every request.                                *)
(*                                                                         *)
(* Time is counted in NAT_T_CONNECT_INTERVAL.  A relay is represented by   *)
(* the replies the parser tells apart: "ok" and "lan" (ok, same_lan),      *)
(* "broken" (ok without a usable address), "missing" and "many" (refused), *)
(* "stale" (another transaction's, which still carries the cookie).        *)
(* "stranger" is a datagram of another sender.                             *)
(***************************************************************************)
EXTENDS Naturals, FiniteSets

CONSTANTS
    GiveUp,       \* timeout_ms, in intervals (12000 / 200 = 60 in the code)
    MaxExp,       \* NAT_T_MAX_BACKOFF_EXP
    Answers,      \* replies of the relay to a request with its cookie
    Prompt,       \* nothing is lost or repeated, replies come before time passes
    MaxInbox      \* bound on the datagrams waiting at the socket

VARIABLES
    natPc,        \* the step of the call; "done" and "failed" are its returns
    fd,           \* the UDP socket: "none", "open", "closed" or "handed" to the caller
    natError,     \* result->error_code
    tick,         \* nat_t_tick_ms
    turn,         \* now, the tick this turn of the loop started at
    next_send_tick, num_tries,
    current_cookie, \* TRUE once the relay's cookie is known
    asked,        \* requests under way to the relay, by the cookie they carry
    datagrams,    \* replies waiting at the socket or under way to it
    said,         \* the answers the relay has given
    raceCancel    \* *cancel_flag

vars == <<natPc, fd, natError, tick, turn, next_send_tick, num_tries, current_cookie,
          asked, datagrams, said, raceCancel>>
relayVars == <<asked, datagrams, said>>

Replies == Answers \union {"stale"}

\* The wait after a request, in intervals, when tries were sent before it.
Backoff(tries) == 2 ^ (IF tries < MaxExp THEN tries ELSE MaxExp)

\* At once, or a backoff after the turn that sent the last request.
DueTicks == {0} \union {t + Backoff(n) : t \in 0 .. GiveUp, n \in 0 .. MaxExp}

\* The type of every variable.
TypeOK ==
    /\ natPc \in {"resolve", "check", "drain", "send", "wait", "done", "failed"}
    /\ fd \in {"none", "open", "closed", "handed"}
    /\ natError \in {"ok", "unknown", "getip_failed", "no_response", "two_or_more", "not_found"}
    /\ tick \in 0 .. GiveUp /\ turn \in 0 .. GiveUp
    /\ next_send_tick \in DueTicks /\ num_tries \in Nat
    /\ current_cookie \in BOOLEAN /\ raceCancel \in BOOLEAN
    /\ asked \subseteq BOOLEAN
    /\ datagrams \subseteq Replies /\ Cardinality(datagrams) <= MaxInbox
    /\ said \subseteq Replies

Init ==
    /\ natPc = "resolve" /\ fd = "none" /\ natError = "unknown"
    /\ tick = 0 /\ turn = 0 /\ next_send_tick = 0 /\ num_tries = 0
    /\ current_cookie = FALSE
    /\ asked = {} /\ datagrams = {} /\ said = {}
    /\ raceCancel = FALSE

-----------------------------------------------------------------------------
\* The call returns: the socket is closed unless the caller gets it.
Return(step, socket, code) == natPc' = step /\ fd' = socket /\ natError' = code

\* The relay's name resolves, under the primary or the alternate domain.
Resolved ==
    /\ natPc = "resolve"
    /\ natPc' = "check" /\ fd' = "open"
    /\ UNCHANGED <<natError, tick, turn, next_send_tick, num_tries, current_cookie,
                   relayVars, raceCancel>>

\* Neither domain resolves, or there is no socket.
SetupFails ==
    /\ natPc = "resolve"
    /\ \E code \in {"getip_failed", "unknown"} : Return("failed", "none", code)
    /\ UNCHANGED <<tick, turn, next_send_tick, num_tries, current_cookie, relayVars,
                   raceCancel>>

\* The head of a turn.
Check ==
    /\ natPc = "check"
    /\ turn' = tick
    /\ IF tick >= GiveUp \/ raceCancel
       THEN Return("failed", "closed", "no_response")
       ELSE natPc' = "drain" /\ UNCHANGED <<fd, natError>>
    /\ UNCHANGED <<tick, next_send_tick, num_tries, current_cookie, relayVars, raceCancel>>

\* nat_t_parse_response and what the loop makes of it.  The cookie is taken
\* before the transaction is compared; a datagram of another sender is skipped.
OnReply(m) ==
    /\ current_cookie' = (current_cookie \/ m # "stranger")
    /\ CASE m = "ok"      -> Return("done", "handed", "ok")
         [] m = "lan"     -> Return("done", "closed", "ok")
         [] m = "missing" -> Return("failed", "closed", "not_found")
         [] m = "many"    -> Return("failed", "closed", "two_or_more")
         [] OTHER         -> UNCHANGED <<natPc, fd, natError>>

\* One datagram of the drain loop.
Receive ==
    /\ natPc = "drain"
    /\ \E m \in datagrams : OnReply(m) /\ datagrams' = datagrams \ {m}
    /\ UNCHANGED <<tick, turn, next_send_tick, num_tries, asked, said, raceCancel>>

\* The socket is empty, or what is left arrives only after the last poll of it.
Drained ==
    /\ natPc = "drain"
    /\ Prompt => datagrams = {}
    /\ natPc' = "send"
    /\ UNCHANGED <<fd, natError, tick, turn, next_send_tick, num_tries, current_cookie,
                   relayVars, raceCancel>>

\* A request, when one is due; sendto may lose it.
Send ==
    /\ natPc = "send"
    /\ natPc' = "wait"
    /\ IF next_send_tick = 0 \/ turn >= next_send_tick
       THEN /\ next_send_tick' = turn + Backoff(num_tries)
            /\ num_tries' = num_tries + 1
            /\ \/ asked' = asked \union {current_cookie}
               \/ ~Prompt /\ UNCHANGED asked
       ELSE UNCHANGED <<next_send_tick, num_tries, asked>>
    /\ UNCHANGED <<fd, natError, tick, turn, current_cookie, datagrams, said, raceCancel>>

\* The wait ends: a datagram, or 50 ms.
Wake ==
    /\ natPc = "wait"
    /\ natPc' = "check"
    /\ UNCHANGED <<fd, natError, tick, turn, next_send_tick, num_tries, current_cookie,
                   relayVars, raceCancel>>

\* The steps that take the loop on; Receive may repeat as long as replies come.
Turn == Resolved \/ SetupFails \/ Check \/ Drained \/ Send \/ Wake
Client == Turn \/ Receive

-----------------------------------------------------------------------------
\* The relay takes a request.  Without its cookie it only hands that out.
RelayAnswers ==
    /\ \E c \in asked :
        \E m \in IF c THEN Answers ELSE {"stale"} :
            /\ asked' = asked \ {c}
            /\ Cardinality(datagrams \union {m}) <= MaxInbox
            /\ datagrams' = datagrams \union {m}
            /\ said' = said \union {m}
    /\ UNCHANGED <<natPc, fd, natError, tick, turn, next_send_tick, num_tries,
                   current_cookie, raceCancel>>

\* A reply is lost, or one the relay once sent arrives (again).
NetworkFails ==
    /\ ~Prompt
    /\ \/ \E m \in datagrams : datagrams' = datagrams \ {m}
       \/ \E m \in said \ datagrams :
            /\ Cardinality(datagrams) < MaxInbox
            /\ datagrams' = datagrams \union {m}
    /\ UNCHANGED <<natPc, fd, natError, tick, turn, next_send_tick, num_tries,
                   current_cookie, asked, said, raceCancel>>

\* A prompt turn takes no longer than its wait.
TimePasses ==
    /\ natPc \notin {"resolve", "done", "failed"} /\ tick < GiveUp
    /\ Prompt => natPc = "wait" /\ tick = turn /\ asked = {} /\ datagrams = {}
    /\ tick' = tick + 1
    /\ UNCHANGED <<natPc, fd, natError, turn, next_send_tick, num_tries, current_cookie,
                   relayVars, raceCancel>>

\* Another transport won the race.
Cancelled ==
    /\ ~raceCancel /\ raceCancel' = TRUE
    /\ UNCHANGED <<natPc, fd, natError, tick, turn, next_send_tick, num_tries,
                   current_cookie, relayVars>>

Next == Client \/ RelayAnswers \/ NetworkFails \/ TimePasses \/ Cancelled

\* The drain loop looks at neither clock nor flag; a relay that answers a
\* request once, over a network that copies finitely often, lets it end.
Spec == Init /\ [][Next]_vars /\ WF_vars(Turn)

-----------------------------------------------------------------------------
\* A call that returned has closed its socket, or handed it to a caller whom it
\* told of an endpoint off the LAN: a caller that sees a failure closes nothing.
SocketIsAccountedFor ==
    /\ natPc \in {"done", "failed"} => fd # "open"
    /\ fd = "handed" => natPc = "done" /\ "ok" \in said

\* What is reported is what the relay said, and "no response" means that the
\* time was over or the race cancelled it.
ReportIsTrue ==
    /\ natPc = "done" => said \intersect {"ok", "lan"} # {}
    /\ natError = "not_found" => "missing" \in said
    /\ natError = "two_or_more" => "many" \in said
    /\ natError = "no_response" => raceCancel \/ tick = GiveUp

\* With a relay that answers at once, the cookie it asks for is back with it in
\* time: the call fails only if it is cancelled, refused, or has no relay.
PromptRelayIsReached ==
    Prompt /\ natPc = "failed" /\ natError = "no_response" => raceCancel

\* Once its time is over the call returns, whatever the relay and the network do.
TimeIsOver == tick = GiveUp
Returned == natPc \in {"done", "failed"}
RendezvousEnds == TimeIsOver ~> Returned
=============================================================================
