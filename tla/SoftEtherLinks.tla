--------------------------- MODULE SoftEtherLinks ---------------------------
(***************************************************************************)
(* The TCP links of a native connection (softether_protocol.c and          *)
(* packet_handler.c): link 0 is the primary socket, the others the slots   *)
(* of additional[].  Four threads work on them: the TUN sender, the        *)
(* receiver (which also keeps alive, cleans up, launches connects and      *)
(* answers ARP), the background connect and a teardown.                    *)
(*                                                                         *)
(* An SSL context is a number, 0 is NULL, and a link's socket is known by  *)
(* its context's number.  What is read and written is left out, and so is  *)
(* plain TCP data mode, which takes none of these locks.  The RUDP side of *)
(* the same threads is RudpLifetime.tla's.                                 *)
(***************************************************************************)
EXTENDS Integers, FiniteSets

CONSTANTS
    NumSlots,       \* MAX_SE_CONNECTIONS, and max_connection - 1
    Established,    \* how many additional links may be up at the start
    MaxContexts     \* bound: no context is created beyond this many

ASSUME LinksAssumption ==
    /\ NumSlots \in Nat
    /\ Established \subseteq 0..NumSlots
    /\ MaxContexts \in Nat

Slots == 1..NumSlots
Links == 0..NumSlots
Contexts == 1..MaxContexts \cup 1..(NumSlots + 1)
Workers == {"send", "recv"}
Nobody == "nobody"

VARIABLES
    state,                          \* CONNECTED, DISCONNECTING, DISCONNECTED
    ssl, socket_fd, ssl_ctx,        \* per link: the context, by all three names
    active, num_additional,
    created, destroyed,             \* contexts created; ssl_destroy calls of each
    readers, writer,                \* ssl_lifetime_lock
    write_mutex, io_mutex,          \* owners
    additional_connecting, additional_connect_slot,
    bg, bgSlot,                     \* background thread: where it is, its slot
    pc, op, link, ctx, tried,       \* sender and receiver: step, purpose, captured link
    disc, held                      \* teardown: step, I/O locks held

linkVars == <<ssl, socket_fd, ssl_ctx, active>>
ctxVars == <<created, destroyed>>
lockVars == <<readers, writer, write_mutex, io_mutex>>
bgVars == <<additional_connecting, additional_connect_slot, bg, bgSlot>>
workVars == <<pc, op, link, ctx, tried>>
discVars == <<disc, held>>
vars == <<state, linkVars, num_additional, ctxVars, lockVars, bgVars, workVars, discVars>>

\* Links are established in the order of their slots.
Up(l, n) == IF l <= n THEN l + 1 ELSE 0

Init ==
    /\ state = "CONNECTED"
    /\ num_additional \in Established
    /\ ssl = [l \in Links |-> Up(l, num_additional)]
    /\ socket_fd = ssl
    /\ ssl_ctx = ssl
    /\ active = [s \in Slots |-> s <= num_additional]
    /\ created = num_additional + 1
    /\ destroyed = [c \in Contexts |-> 0]
    /\ readers = {}
    /\ writer = FALSE
    /\ write_mutex = Nobody
    /\ io_mutex = [l \in Links |-> Nobody]
    /\ additional_connecting = FALSE
    /\ additional_connect_slot = 0
    /\ bg = "none"
    /\ bgSlot = 0
    /\ pc = [t \in Workers |-> "idle"]
    /\ op = [t \in Workers |-> "none"]
    /\ link = [t \in Workers |-> 0]
    /\ ctx = [t \in Workers |-> 0]
    /\ tried = [t \in Workers |-> {}]
    /\ disc = "idle"
    /\ held = 0

Goto(t, step) == pc' = [pc EXCEPT ![t] = step]

\* Work on link l for a purpose, with the context it has now.
Captures(t, l, purpose, step) ==
    /\ link' = [link EXCEPT ![t] = l]
    /\ ctx' = [ctx EXCEPT ![t] = ssl[l]]
    /\ op' = [op EXCEPT ![t] = purpose]
    /\ Goto(t, step)

Closing == state \in {"DISCONNECTED", "DISCONNECTING"}

-----------------------------------------------------------------------------
(* One SSL operation under a link's io_mutex. *)

\* Mutant: the slot is not looked at again under the lock.
LinkIoLiveUnchecked(t, l) == TRUE

\* link_io_live; data_write_all on the primary checks the state instead.
LinkIoLive(t, l) ==
    IF op[t] = "write" /\ l = 0
      THEN ~Closing
      ELSE ssl[l] = ctx[t] /\ socket_fd[l] = ctx[t]

\* link_io_resolve: the link that has the captured pair now, if any.
Resolve(t) ==
    /\ pc[t] = "resolve"
    /\ \/ \E l \in Links :
             /\ ssl[l] = ctx[t] /\ socket_fd[l] = ctx[t]
             /\ link' = [link EXCEPT ![t] = l]
             /\ Goto(t, "lock")
       \/ /\ \A l \in Links : ssl[l] # ctx[t] \/ socket_fd[l] # ctx[t]
          /\ Goto(t, "failed")
          /\ UNCHANGED link
    /\ UNCHANGED <<state, linkVars, num_additional, ctxVars, lockVars, bgVars,
                   op, ctx, tried, discVars>>

LinkUnlocked(l) == io_mutex[l] = Nobody

\* Lock, check again; data_write_all uses what conn->ssl is now.
Lock(t) ==
    /\ pc[t] = "lock"
    /\ LinkUnlocked(link[t])
    /\ IF LinkIoLive(t, link[t])
         THEN /\ io_mutex' = [io_mutex EXCEPT ![link[t]] = t]
              /\ ctx' = [ctx EXCEPT ![t] = IF op[t] = "write" /\ link[t] = 0
                                             THEN ssl[0] ELSE @]
              /\ Goto(t, "busy")
         ELSE Goto(t, "failed") /\ UNCHANGED <<io_mutex, ctx>>
    /\ UNCHANGED <<state, linkVars, num_additional, ctxVars, readers, writer,
                   write_mutex, bgVars, op, link, tried, discVars>>

\* ssl_read, ssl_write or ssl_has_pending returns.
Unlock(t) ==
    /\ pc[t] = "busy"
    /\ io_mutex' = [io_mutex EXCEPT ![link[t]] = Nobody]
    /\ \E outcome \in {"ok", "failed"} : Goto(t, outcome)
    /\ UNCHANGED <<state, linkVars, num_additional, ctxVars, readers, writer,
                   write_mutex, bgVars, op, link, ctx, tried, discVars>>

-----------------------------------------------------------------------------
(* Retiring an additional link. *)

\* Failover and cleanup look again under the lock, the receive path's
\* CLOSE_FAILED_ADDITIONAL_SOCKET does not.
MayRetire(t) ==
    CASE op[t] = "write" -> ssl[link[t]] = ctx[t] /\ socket_fd[link[t]] = ctx[t]
      [] op[t] = "cleanup" -> active[link[t]] /\ socket_fd[link[t]] = ctx[t]
      [] OTHER -> TRUE

\* Where the thread goes on: failover tries the next candidate, cleanup polls
\* the next slot, the receive path returns.
AfterRetire(t) ==
    CASE op[t] = "write" -> "candidates"
      [] op[t] = "cleanup" -> "cleanup"
      [] OTHER -> "leave"

\* Lock the slot and mark it inactive before anything is destroyed.
RetireMark(t) ==
    /\ pc[t] = "retire"
    /\ io_mutex[link[t]] = Nobody
    /\ IF MayRetire(t)
         THEN /\ io_mutex' = [io_mutex EXCEPT ![link[t]] = t]
              /\ active' = [active EXCEPT ![link[t]] = FALSE]
              /\ ssl' = [ssl EXCEPT ![link[t]] = 0]
              /\ socket_fd' = [socket_fd EXCEPT ![link[t]] = 0]
              /\ Goto(t, "free")
         ELSE /\ Goto(t, AfterRetire(t))
              /\ UNCHANGED <<io_mutex, active, ssl, socket_fd>>
    /\ UNCHANGED <<state, ssl_ctx, num_additional, ctxVars, readers, writer,
                   write_mutex, bgVars, op, link, ctx, tried, discVars>>

\* take_ssl_ctx_slot and ssl_destroy: whatever the slot holds.
Destroys(c) == IF c = 0 THEN destroyed ELSE [destroyed EXCEPT ![c] = @ + 1]

RetireFree(t) ==
    /\ pc[t] = "free"
    /\ ssl_ctx' = [ssl_ctx EXCEPT ![link[t]] = 0]
    /\ destroyed' = Destroys(ssl_ctx[link[t]])
    /\ io_mutex' = [io_mutex EXCEPT ![link[t]] = Nobody]
    /\ num_additional' = num_additional - 1
    /\ Goto(t, AfterRetire(t))
    /\ UNCHANGED <<state, ssl, socket_fd, active, created, readers, writer,
                   write_mutex, bgVars, op, link, ctx, tried, discVars>>

-----------------------------------------------------------------------------
(* Sending: softether_send on the TUN thread; softether_send_packet for the  *)
(* receiver's ARP replies, which tries one link and retires none.            *)

SendStarts ==
    /\ pc["send"] = "idle"
    /\ state = "CONNECTED"
    /\ Goto("send", "staging")
    /\ UNCHANGED <<state, linkVars, num_additional, ctxVars, lockVars, bgVars,
                   op, link, ctx, tried, discVars>>

\* write_mutex, and the state looked at again.
TakeWriteMutex(t) ==
    /\ pc[t] = "staging"
    /\ write_mutex = Nobody
    /\ IF state = "DISCONNECTING" \/ ssl[0] = 0
         THEN Goto(t, "idle") /\ UNCHANGED <<write_mutex, tried>>
         ELSE /\ Goto(t, "candidates")
              /\ write_mutex' = t
              /\ tried' = [tried EXCEPT ![t] = {}]
    /\ UNCHANGED <<state, linkVars, num_additional, ctxVars, readers, writer,
                   io_mutex, bgVars, op, link, ctx, discVars>>

Sendable(t) ==
    {l \in Links \ tried[t] : ssl[l] # 0 /\ socket_fd[l] # 0 /\ (l # 0 => active[l])}

Candidate(t) ==
    /\ pc[t] = "candidates"
    /\ \E l \in Sendable(t) :
          /\ Captures(t, l, "write", IF l = 0 THEN "lock" ELSE "resolve")
          /\ tried' = [tried EXCEPT ![t] = @ \cup {l}]
    /\ UNCHANGED <<state, linkVars, num_additional, ctxVars, lockVars, bgVars, discVars>>

\* Sent, or nothing left to try.
SendEnds(t) ==
    /\ \/ pc[t] = "ok" /\ op[t] = "write"
       \/ pc[t] = "candidates" /\ Sendable(t) = {}
       \/ pc[t] = "failed" /\ op[t] = "write" /\ t = "recv"
    /\ write_mutex' = Nobody
    /\ Goto(t, "idle")
    /\ UNCHANGED <<state, linkVars, num_additional, ctxVars, readers, writer,
                   io_mutex, bgVars, op, link, ctx, tried, discVars>>

\* Failover: an additional link is retired, the primary only passed over.
SendFails ==
    /\ pc["send"] = "failed"
    /\ Goto("send", IF link["send"] = 0 THEN "candidates" ELSE "retire")
    /\ UNCHANGED <<state, linkVars, num_additional, ctxVars, lockVars, bgVars,
                   op, link, ctx, tried, discVars>>

-----------------------------------------------------------------------------
(* The receiver: softether_receive, softether_maintain_links. *)

RecvStep(from, to) ==
    /\ pc["recv"] = from
    /\ Goto("recv", to)
    /\ UNCHANGED <<state, linkVars, num_additional, ctxVars, lockVars, bgVars,
                   op, link, ctx, tried, discVars>>

RecvStarts == state = "CONNECTED" /\ RecvStep("idle", "keepalive")

\* softether_send_keepalive_all: each link, when the interval is over.
KeepAlive(l) ==
    /\ pc["recv"] = "keepalive"
    /\ l \notin tried["recv"]
    /\ state = "CONNECTED"
    /\ ssl[l] # 0 /\ socket_fd[l] # 0 /\ (l # 0 => active[l])
    /\ Captures("recv", l, "keepalive", "resolve")
    /\ tried' = [tried EXCEPT !["recv"] = @ \cup {l}]
    /\ UNCHANGED <<state, linkVars, num_additional, ctxVars, lockVars, bgVars, discVars>>

KeptAlive ==
    /\ op["recv"] = "keepalive"
    /\ RecvStep("ok", "keepalive") \/ RecvStep("failed", "keepalive")

KeepAliveEnds == RecvStep("keepalive", "launch")

\* The first slot that is not active, if there is one.
FreeSlot == CHOOSE s \in Slots : ~active[s] /\ \A r \in Slots : ~active[r] => s <= r

\* A background connect, when there is room for another link.
Launch ==
    /\ pc["recv"] = "launch"
    /\ num_additional < NumSlots
    /\ ~additional_connecting
    /\ \E s \in Slots : ~active[s]
    /\ created < MaxContexts
    /\ additional_connecting' = TRUE
    /\ additional_connect_slot' = FreeSlot
    /\ Goto("recv", "create")
    /\ UNCHANGED <<state, linkVars, num_additional, ctxVars, lockVars, bg, bgSlot,
                   op, link, ctx, tried, discVars>>

NoLaunch == RecvStep("launch", "cleanup")

\* pthread_create; the thread of an earlier connect has returned.
CreateThread ==
    /\ pc["recv"] = "create"
    /\ bg = "none"
    /\ bg' = "start"
    /\ Goto("recv", "cleanup")
    /\ UNCHANGED <<state, linkVars, num_additional, ctxVars, lockVars,
                   additional_connecting, additional_connect_slot, bgSlot,
                   op, link, ctx, tried, discVars>>

\* An additional socket polls as hung up.
Cleanup(s) ==
    /\ pc["recv"] = "cleanup"
    /\ active[s]
    /\ ~(additional_connecting /\ s = additional_connect_slot)
    /\ link' = [link EXCEPT !["recv"] = s]
    /\ ctx' = [ctx EXCEPT !["recv"] = socket_fd[s]]
    /\ op' = [op EXCEPT !["recv"] = "cleanup"]
    /\ Goto("recv", "retire")
    /\ UNCHANGED <<state, linkVars, num_additional, ctxVars, lockVars, bgVars, tried, discVars>>

CleanupEnds == RecvStep("cleanup", "fill")

\* Mutant: the early return keeps the read lock.
FillStartsLeaking ==
    /\ pc["recv"] = "fill"
    /\ ~writer
    /\ Goto("recv", IF ssl[0] = 0 \/ Closing THEN "idle" ELSE "capture")
    /\ readers' = readers \cup {"recv"}
    /\ tried' = [tried EXCEPT !["recv"] = {}]
    /\ UNCHANGED <<state, linkVars, num_additional, ctxVars, writer, write_mutex,
                   io_mutex, bgVars, op, link, ctx, discVars>>

\* softether_fill_recv_queue: read lock and first checks.
FillStarts ==
    /\ pc["recv"] = "fill"
    /\ ~writer
    /\ IF ssl[0] = 0 \/ Closing
         THEN Goto("recv", "idle") /\ UNCHANGED readers
         ELSE Goto("recv", "capture") /\ readers' = readers \cup {"recv"}
    /\ tried' = [tried EXCEPT !["recv"] = {}]
    /\ UNCHANGED <<state, linkVars, num_additional, ctxVars, writer, write_mutex,
                   io_mutex, bgVars, op, link, ctx, discVars>>

\* Capture a link and ask it for buffered data.
Capture ==
    /\ pc["recv"] = "capture"
    /\ \E l \in Links :
          /\ socket_fd[l] # 0
          /\ l # 0 => active[l] /\ ssl[l] # 0
          /\ Captures("recv", l, "pending", "lock")
    /\ UNCHANGED <<state, linkVars, num_additional, ctxVars, lockVars, bgVars, tried, discVars>>

\* After poll: the state and the link are looked at again, then it is read.
PolledData ==
    /\ pc["recv"] \in {"ok", "failed"} /\ op["recv"] = "pending"
    /\ LET l == link["recv"] IN
       /\ state # "DISCONNECTING"
       /\ ctx["recv"] # 0
       /\ ssl[l] = ctx["recv"]
       /\ IF l = 0 THEN socket_fd[0] = ctx["recv"] ELSE active[l]
    /\ op' = [op EXCEPT !["recv"] = "read"]
    /\ Goto("recv", "resolve")
    /\ UNCHANGED <<state, linkVars, num_additional, ctxVars, lockVars, bgVars,
                   link, ctx, tried, discVars>>

\* A keepalive of the server is answered on the primary link.
ReplyKeepAlive ==
    /\ pc["recv"] = "ok" /\ op["recv"] = "block"
    /\ state = "CONNECTED" /\ ssl[0] # 0
    /\ Captures("recv", 0, "reply", "resolve")
    /\ UNCHANGED <<state, linkVars, num_additional, ctxVars, lockVars, bgVars, tried, discVars>>

\* The rest of the message: one further read stands for its sizes and blocks.
ReadMore ==
    /\ pc["recv"] = "ok" /\ op["recv"] = "read"
    /\ op' = [op EXCEPT !["recv"] = "block"]
    /\ Goto("recv", "resolve")
    /\ UNCHANGED <<state, linkVars, num_additional, ctxVars, lockVars, bgVars,
                   link, ctx, tried, discVars>>

\* CLOSE_FAILED_ADDITIONAL_SOCKET: the primary's failure is returned.
ReadFails ==
    /\ pc["recv"] = "failed" /\ op["recv"] \in {"read", "block"}
    /\ Goto("recv", IF link["recv"] = 0 THEN "leave" ELSE "retire")
    /\ UNCHANGED <<state, linkVars, num_additional, ctxVars, lockVars, bgVars,
                   op, link, ctx, tried, discVars>>

\* The pass ends: nothing to read, a message read, a failure; an ARP request
\* in it is answered once the lock is released.
FillEnds ==
    /\ \/ pc["recv"] = "leave"
       \/ pc["recv"] = "capture"
       \/ pc["recv"] = "ok" /\ op["recv"] \in {"read", "block", "pending", "reply"}
       \/ pc["recv"] = "failed" /\ op["recv"] \in {"pending", "reply"}
    /\ readers' = readers \ {"recv"}
    /\ \/ Goto("recv", "idle")
       \/ state = "CONNECTED" /\ pc["recv"] = "ok" /\ op["recv"] = "block"
          /\ Goto("recv", "staging")
    /\ UNCHANGED <<state, linkVars, num_additional, ctxVars, writer, write_mutex,
                   io_mutex, bgVars, op, link, ctx, tried, discVars>>

-----------------------------------------------------------------------------
(* The background thread: softether_additional_connect. *)

BgVarsOnly == UNCHANGED <<state, additional_connect_slot, lockVars, workVars, discVars>>

BgStarts ==
    /\ bg = "start"
    /\ IF state = "CONNECTED" /\ \E s \in Slots : ~active[s]
         THEN /\ bg' = "connecting"
              /\ bgSlot' = FreeSlot
         ELSE bg' = "over" /\ UNCHANGED bgSlot
    /\ UNCHANGED <<linkVars, num_additional, ctxVars, additional_connecting>>
    /\ BgVarsOnly

\* Connecting, TLS, signature or the additional_connect method failed: the
\* thread's own socket and context are gone again.
BgFails ==
    /\ bg = "connecting"
    /\ bg' = "over"
    /\ UNCHANGED <<linkVars, num_additional, ctxVars, additional_connecting, bgSlot>>
    /\ BgVarsOnly

\* The slot is filled, without its lock and whatever the state is by now.
BgPublishes ==
    /\ bg = "connecting"
    /\ created < MaxContexts
    /\ created' = created + 1
    /\ socket_fd' = [socket_fd EXCEPT ![bgSlot] = created + 1]
    /\ ssl_ctx' = [ssl_ctx EXCEPT ![bgSlot] = created + 1]
    /\ ssl' = [ssl EXCEPT ![bgSlot] = created + 1]
    /\ bg' = "published"
    /\ UNCHANGED <<active, num_additional, destroyed, additional_connecting, bgSlot>>
    /\ BgVarsOnly

BgActivates ==
    /\ bg = "published"
    /\ active' = [active EXCEPT ![bgSlot] = TRUE]
    /\ num_additional' = num_additional + 1
    /\ bg' = "over"
    /\ UNCHANGED <<ssl, socket_fd, ssl_ctx, ctxVars, additional_connecting, bgSlot>>
    /\ BgVarsOnly

BgReturns ==
    /\ bg = "over"
    /\ bg' = "none"
    /\ additional_connecting' = FALSE
    /\ UNCHANGED <<linkVars, num_additional, ctxVars, bgSlot>>
    /\ BgVarsOnly

-----------------------------------------------------------------------------
(* softether_disconnect; connect_mutex keeps a second one out. *)

DiscStep(from, to) == disc = from /\ disc' = to

Disconnect ==
    /\ DiscStep("idle", "join")
    /\ state' = "DISCONNECTING"
    /\ UNCHANGED <<linkVars, num_additional, ctxVars, lockVars, bgVars, workVars, held>>

\* Mutant: a background connect is not waited for.
JoinedNever == TRUE

\* pthread_join: returns at once if additional_thread is still the handle of
\* an earlier thread.
Joined == ~additional_connecting \/ bg = "none"

DiscJoins ==
    /\ DiscStep("join", "close")
    /\ Joined
    /\ additional_connecting' = FALSE
    /\ UNCHANGED <<state, linkVars, num_additional, ctxVars, lockVars,
                   additional_connect_slot, bg, bgSlot, workVars, held>>

\* The primary socket is closed first, so that I/O on it returns.
DiscCloses ==
    /\ DiscStep("close", "wrlock")
    /\ socket_fd' = [socket_fd EXCEPT ![0] = 0]
    /\ UNCHANGED <<state, ssl, ssl_ctx, active, num_additional, ctxVars, lockVars,
                   bgVars, workVars, held>>

DiscWriteLocks ==
    /\ DiscStep("wrlock", "staging")
    /\ readers = {}
    /\ writer' = TRUE
    /\ UNCHANGED <<state, linkVars, num_additional, ctxVars, readers, write_mutex,
                   io_mutex, bgVars, workVars, held>>

DiscTakesWriteMutex ==
    /\ DiscStep("staging", "io")
    /\ write_mutex = Nobody
    /\ write_mutex' = "disc"
    /\ UNCHANGED <<state, linkVars, num_additional, ctxVars, readers, writer,
                   io_mutex, bgVars, workVars, held>>

\* Every link's lock, in index order.
DiscTakesIoMutex ==
    /\ disc = "io" /\ held <= NumSlots
    /\ io_mutex[held] = Nobody
    /\ io_mutex' = [io_mutex EXCEPT ![held] = "disc"]
    /\ held' = held + 1
    /\ UNCHANGED <<state, linkVars, num_additional, ctxVars, readers, writer,
                   write_mutex, bgVars, workVars, disc>>

\* softether_close_additional and the primary context; then all locks go.
DiscDestroys ==
    /\ disc = "io" /\ held > NumSlots
    /\ Joined
    /\ disc' = "finish"
    /\ additional_connecting' = FALSE
    /\ ssl' = [l \in Links |-> 0]
    /\ ssl_ctx' = [l \in Links |-> 0]
    /\ socket_fd' = [l \in Links |-> 0]
    /\ active' = [s \in Slots |-> FALSE]
    /\ destroyed' = [c \in Contexts |->
          destroyed[c] + Cardinality({l \in Links : ssl_ctx[l] = c})]
    /\ num_additional' = 0
    /\ io_mutex' = [l \in Links |-> Nobody]
    /\ write_mutex' = Nobody
    /\ writer' = FALSE
    /\ held' = 0
    /\ UNCHANGED <<state, created, readers, additional_connect_slot, bg, bgSlot, workVars>>

DiscEnds ==
    /\ DiscStep("finish", "done")
    /\ state' = "DISCONNECTED"
    /\ UNCHANGED <<linkVars, num_additional, ctxVars, lockVars, bgVars, workVars, held>>

-----------------------------------------------------------------------------
WorkerStep(t) ==
    \/ Resolve(t) \/ Lock(t) \/ Unlock(t) \/ RetireMark(t) \/ RetireFree(t)
    \/ TakeWriteMutex(t) \/ Candidate(t) \/ SendEnds(t)

SendStep == WorkerStep("send") \/ SendFails

RecvGoesOn ==
    \/ WorkerStep("recv")
    \/ KeptAlive \/ KeepAliveEnds \/ NoLaunch \/ CreateThread \/ CleanupEnds
    \/ FillStarts \/ PolledData \/ ReplyKeepAlive \/ ReadFails \/ FillEnds

BgStep == BgStarts \/ BgFails \/ BgPublishes \/ BgActivates \/ BgReturns

DiscGoesOn ==
    \/ DiscJoins \/ DiscCloses \/ DiscWriteLocks \/ DiscTakesWriteMutex
    \/ DiscTakesIoMutex \/ DiscDestroys \/ DiscEnds

Next ==
    \/ SendStarts \/ SendStep
    \/ RecvStarts \/ RecvGoesOn \/ ReadMore \/ Launch \/ Capture
    \/ \E l \in Links : KeepAlive(l)
    \/ \E s \in Slots : Cleanup(s)
    \/ BgStep
    \/ Disconnect \/ DiscGoesOn

Spec == Init /\ [][Next]_vars

\* Every thread goes on; SSL operations return once the socket is closed or
\* its timeout is over.
FairSpec ==
    /\ Spec
    /\ WF_vars(SendStep) /\ WF_vars(RecvGoesOn) /\ WF_vars(BgStep) /\ WF_vars(DiscGoesOn)

-----------------------------------------------------------------------------
\* The types.
TypeOK ==
    /\ state \in {"CONNECTED", "DISCONNECTING", "DISCONNECTED"}
    /\ {ssl, socket_fd, ssl_ctx} \subseteq [Links -> Contexts \cup {0}]
    /\ active \in [Slots -> BOOLEAN]
    /\ num_additional \in Int
    /\ created \in Contexts
    /\ destroyed \in [Contexts -> Nat]
    /\ readers \subseteq Workers /\ writer \in BOOLEAN
    /\ write_mutex \in Workers \cup {Nobody, "disc"}
    /\ io_mutex \in [Links -> Workers \cup {Nobody, "disc"}]
    /\ {link[t] : t \in Workers} \subseteq Links
    /\ \A t \in Workers : pc[t] = "retire" => link[t] # 0
    /\ held \in 0..(NumSlots + 1)

Using(t, c) == pc[t] = "busy" /\ ctx[t] = c

\* "don't touch a freed context": an SSL operation runs on a context that has
\* not been destroyed, however failover, cleanup, the receive path and the
\* teardown retire links meanwhile.
NoUseAfterFree == \A t \in Workers, c \in Contexts : Using(t, c) => destroyed[c] = 0

\* "Prevents double-destroy races".
DestroyedOnce == \A c \in Contexts : destroyed[c] <= 1

\* "BoringSSL forbids concurrent ops on one context".
OneOperationPerContext ==
    \A c \in Contexts : ~(Using("send", c) /\ Using("recv", c))

\* The contexts are safe from every interleaving of sender, receiver, background
\* connect and teardown, as long as no new link takes a slot that is being
\* retired (run link_slot_reuse).
ContextsAreSafe ==
    TypeOK /\ NoUseAfterFree /\ DestroyedOnce /\ OneOperationPerContext

\* A teardown always ends: the lock order leaves nobody waiting for ever, and
\* the receiver cannot keep the lifetime lock from it.
DisconnectCompletes == state = "DISCONNECTING" ~> state = "DISCONNECTED"

\* "number of active additional connections", when no thread is changing it.
NumAdditionalCountsActive ==
    (\A t \in Workers : pc[t] # "free") =>
        num_additional = Cardinality({s \in Slots : active[s]})

\* "The background additional-connect thread is joined above": after a teardown
\* no context of the connection is left alive.
DisconnectedIsClean ==
    state = "DISCONNECTED" => \A l \in Links : ssl_ctx[l] = 0

\* "close and deactivate a failed additional socket": the receive path closes
\* the link its read failed on.
RetiresFailedLink ==
    \A t \in Workers :
        pc[t] = "retire" /\ op[t] \in {"read", "block"} => ssl[link[t]] \in {0, ctx[t]}
=============================================================================
