---------------------------- MODULE RudpLifetime ----------------------------
(***************************************************************************)
(* The lifetime of a connection's UDP acceleration context                 *)
(* (softether_rudp.c): a reference count taken for every public call and   *)
(* dropped by rudp_destroy, and the locks under which the connection's     *)
(* threads come to read conn->rudp.  What a call does inside is            *)
(* RudpAccel.tla's; here it only touches the context.                      *)
(*                                                                         *)
(* A caller runs one path at a time:                                       *)
(*   send   softether_send                 write_mutex                     *)
(*   fill   softether_fill_recv_queue      ssl_lifetime_lock, read         *)
(*   jni    nativeGetRudpSocketFd          connect_mutex                   *)
(*   arp    softether_send_data            no lock (ARP replies, DHCP)     *)
(*   stats  rudp_get_stats                 no lock and no reference        *)
(***************************************************************************)
EXTENDS Integers, FiniteSets

CONSTANTS Callers, Destroyers, Paths

Threads == Callers \cup Destroyers
Nobody == "nobody"

VARIABLES
    state, ssl,                 \* conn->state; conn->ssl is not NULL
    rudp,                       \* conn->rudp is not NULL
    connect_mutex, write_mutex, readers, writer,
    refcount, destroying, freed,
    pc, path, old, refs         \* per thread: step, path, count read, references

connVars == <<state, ssl, rudp>>
lockVars == <<connect_mutex, write_mutex, readers, writer>>
ctxVars == <<refcount, destroying, freed>>
vars == <<connVars, lockVars, ctxVars, pc, path, old, refs>>

Init ==
    /\ state = "CONNECTED"
    /\ ssl = TRUE
    /\ rudp = TRUE
    /\ connect_mutex = Nobody
    /\ write_mutex = Nobody
    /\ readers = {}
    /\ writer = FALSE
    /\ refcount = 1
    /\ destroying = FALSE
    /\ freed = 0
    /\ pc = [t \in Threads |-> "idle"]
    /\ path = [t \in Threads |-> "none"]
    /\ old = [t \in Threads |-> 0]
    /\ refs = [t \in Threads |-> 0]

Goto(t, step) == pc' = [pc EXCEPT ![t] = step]

\* Nothing defined follows a read of a freed context: it is not followed.
Alive == freed = 0

-----------------------------------------------------------------------------
(* A caller reaches conn->rudp. *)

Call(t) ==
    /\ pc[t] = "idle"
    /\ \E p \in Paths :
         /\ p \in {"jni", "stats"} \/ state = "CONNECTED"
         /\ path' = [path EXCEPT ![t] = p]
         /\ Goto(t, IF p \in {"arp", "stats"} THEN "read" ELSE "lock")
    /\ UNCHANGED <<connVars, lockVars, ctxVars, old, refs>>

\* Mutant: the state is not looked at again under the lock.
ClosedUnchecked(t) == FALSE

Closed(t) ==
    CASE path[t] = "send" -> state = "DISCONNECTING" \/ ~ssl
      [] path[t] = "fill" -> state # "CONNECTED" \/ ~ssl
      [] OTHER -> FALSE

TakeLock(t) ==
    \/ /\ path[t] = "send" /\ write_mutex = Nobody
       /\ write_mutex' = t
       /\ UNCHANGED <<connect_mutex, readers, writer>>
    \/ /\ path[t] = "fill" /\ ~writer
       /\ readers' = readers \cup {t}
       /\ UNCHANGED <<connect_mutex, write_mutex, writer>>
    \/ /\ path[t] = "jni" /\ connect_mutex = Nobody
       /\ connect_mutex' = t
       /\ UNCHANGED <<write_mutex, readers, writer>>

\* The path's lock, and the checks made again under it.
Enter(t) ==
    /\ pc[t] = "lock"
    /\ TakeLock(t)
    /\ Goto(t, IF Closed(t) THEN "leave" ELSE "read")
    /\ UNCHANGED <<connVars, ctxVars, path, old, refs>>

\* conn->rudp is read anew for every call on the context; rudp_get_stats
\* reads its counters at once.
ReadPointer(t) ==
    /\ pc[t] = "read"
    /\ rudp
    /\ Goto(t, IF path[t] = "stats" THEN "touch" ELSE "acquire")
    /\ UNCHANGED <<connVars, lockVars, ctxVars, path, old, refs>>

\* No context any more, or the path has made its calls.
Leave(t) ==
    /\ pc[t] \in {"read", "leave"}
    /\ write_mutex' = IF write_mutex = t THEN Nobody ELSE write_mutex
    /\ readers' = readers \ {t}
    /\ connect_mutex' = IF connect_mutex = t THEN Nobody ELSE connect_mutex
    /\ Goto(t, "idle")
    /\ path' = [path EXCEPT ![t] = "none"]
    /\ UNCHANGED <<connVars, ctxVars, writer, old, refs>>

-----------------------------------------------------------------------------
(* rudp_ref_acquire, one read of the context at a time. *)

\* A call returns: to the rest of the poll it is nested in, or to its path.
Returned(t, n) == IF n > 0 THEN "release" ELSE "read"

AcquireLoad(t) ==
    /\ pc[t] = "acquire" /\ Alive
    /\ old' = [old EXCEPT ![t] = refcount]
    /\ Goto(t, IF refcount <= 0 THEN Returned(t, refs[t]) ELSE "flag")
    /\ UNCHANGED <<connVars, lockVars, ctxVars, path, refs>>

AcquireFlag(t) ==
    /\ pc[t] = "flag" /\ Alive
    /\ Goto(t, IF destroying THEN Returned(t, refs[t]) ELSE "cas")
    /\ UNCHANGED <<connVars, lockVars, ctxVars, path, old, refs>>

AcquireCas(t) ==
    /\ pc[t] = "cas" /\ Alive
    /\ IF refcount = old[t]
         THEN /\ refcount' = refcount + 1
              /\ refs' = [refs EXCEPT ![t] = @ + 1]
              /\ Goto(t, "recheck")
         ELSE Goto(t, "acquire") /\ UNCHANGED <<refcount, refs>>
    /\ UNCHANGED <<connVars, lockVars, destroying, freed, path, old>>

AcquireRecheck(t) ==
    /\ pc[t] = "recheck" /\ Alive
    /\ Goto(t, IF destroying THEN "release" ELSE "body")
    /\ UNCHANGED <<connVars, lockVars, ctxVars, path, old, refs>>

\* rudp_poll sends its keepalive through rudp_send, which takes a second
\* reference; every other call just ends.
Body(t) ==
    /\ pc[t] = "body" /\ Alive
    /\ \/ refs[t] = 1 /\ Goto(t, "acquire")
       \/ Goto(t, "release")
    /\ UNCHANGED <<connVars, lockVars, ctxVars, path, old, refs>>

StatsRead(t) ==
    /\ pc[t] = "touch" /\ Alive
    /\ Goto(t, "leave")
    /\ UNCHANGED <<connVars, lockVars, ctxVars, path, old, refs>>

\* rudp_ref_release; the owner's reference is rudp_destroy's to drop.
Release(t) ==
    /\ pc[t] = "release" /\ Alive
    /\ refcount' = refcount - 1
    /\ refs' = [refs EXCEPT ![t] = @ - 1]
    /\ Goto(t, IF refcount = 1 THEN "final" ELSE Returned(t, refs[t] - 1))
    /\ UNCHANGED <<connVars, lockVars, destroying, freed, path, old>>

DestroyFinal(t) ==
    /\ pc[t] = "final"
    /\ freed' = freed + 1
    /\ Goto(t, IF t \in Destroyers THEN "done" ELSE Returned(t, refs[t]))
    /\ UNCHANGED <<connVars, lockVars, refcount, destroying, path, old, refs>>

-----------------------------------------------------------------------------
(* softether_disconnect, which owns the context by taking it out. *)

Disconnect(t) ==
    /\ pc[t] = "idle"
    /\ connect_mutex = Nobody
    /\ state = "CONNECTED"
    /\ connect_mutex' = t
    /\ state' = "DISCONNECTING"
    /\ Goto(t, "wrlock")
    /\ UNCHANGED <<ssl, rudp, write_mutex, readers, writer, ctxVars, path, old, refs>>

WriteLock(t) ==
    /\ pc[t] = "wrlock"
    /\ ~writer /\ readers = {}
    /\ writer' = TRUE
    /\ Goto(t, "wmutex")
    /\ UNCHANGED <<connVars, connect_mutex, write_mutex, readers, ctxVars, path, old, refs>>

\* The SSL contexts are freed under all the locks, which are then released:
\* SoftEtherLinks.tla has the steps of this.
FreeLinks(t) ==
    /\ pc[t] = "wmutex"
    /\ write_mutex = Nobody
    /\ ssl' = FALSE
    /\ writer' = FALSE
    /\ Goto(t, "take")
    /\ UNCHANGED <<state, rudp, connect_mutex, write_mutex, readers, ctxVars, path, old, refs>>

TakeContext(t) ==
    /\ pc[t] = "take"
    /\ rudp' = FALSE
    /\ Goto(t, IF rudp THEN "destroy" ELSE "done")
    /\ UNCHANGED <<state, ssl, lockVars, ctxVars, path, old, refs>>

\* rudp_destroy: the flag is published first, then the owner's reference goes.
Destroy(t) ==
    /\ pc[t] = "destroy"
    /\ destroying' = TRUE
    /\ Goto(t, "drop")
    /\ UNCHANGED <<connVars, lockVars, refcount, freed, path, old, refs>>

Drop(t) ==
    /\ pc[t] = "drop"
    /\ refcount' = refcount - 1
    /\ Goto(t, IF refcount = 1 THEN "final" ELSE "done")
    /\ UNCHANGED <<connVars, lockVars, destroying, freed, path, old, refs>>

Disconnected(t) ==
    /\ pc[t] = "done"
    /\ state' = "DISCONNECTED"
    /\ connect_mutex' = Nobody
    /\ Goto(t, "idle")
    /\ UNCHANGED <<ssl, rudp, write_mutex, readers, writer, ctxVars, path, old, refs>>

-----------------------------------------------------------------------------

Step(t) ==
    \/ Enter(t) \/ ReadPointer(t) \/ Leave(t) \/ StatsRead(t)
    \/ AcquireLoad(t) \/ AcquireFlag(t) \/ AcquireCas(t) \/ AcquireRecheck(t)
    \/ Body(t) \/ Release(t) \/ DestroyFinal(t)
    \/ WriteLock(t) \/ FreeLinks(t) \/ TakeContext(t)
    \/ Destroy(t) \/ Drop(t) \/ Disconnected(t)

Next ==
    \/ \E t \in Callers : Call(t)
    \/ \E t \in Destroyers : Disconnect(t)
    \/ \E t \in Threads : Step(t)

Spec == Init /\ [][Next]_vars

\* Every thread keeps running: nothing it waits for is held while idle, and
\* every blocking call of the code returns.
FairSpec == Spec /\ \A t \in Threads : WF_vars(Step(t))

-----------------------------------------------------------------------------

\* Steps at which a thread reads or writes the context.
Touching == {"acquire", "flag", "cas", "recheck", "body", "touch", "release", "drop", "final"}

\* Every variable is of its type: the context is freed at most once, and no
\* thread ever holds more than two references.
TypeOK ==
    /\ state \in {"CONNECTED", "DISCONNECTING", "DISCONNECTED"}
    /\ ssl \in BOOLEAN /\ rudp \in BOOLEAN
    /\ connect_mutex \in Threads \cup {Nobody}
    /\ write_mutex \in Callers \cup {Nobody}
    /\ readers \subseteq Callers /\ writer \in BOOLEAN
    /\ refcount \in Int /\ destroying \in BOOLEAN /\ freed \in 0..1
    /\ pc \in [Threads -> Touching \cup {"idle", "lock", "read", "leave", "wrlock",
                                         "wmutex", "take", "destroy", "done"}]
    /\ path \in [Threads -> Paths \cup {"none"}]
    /\ old \in [Threads -> Int]
    /\ refs \in [Threads -> 0..2]

\* No call of rudp_ref_acquire, rudp_ref_release or anything between them
\* touches the context after rudp_destroy_final freed it, whatever the
\* disconnect and the callers do.
NoUseAfterFree == freed > 0 => \A t \in Threads : pc[t] \notin Touching

\* That does not hold for "arp" and "stats", which read conn->rudp under no lock.
\* It does for every other path, also while calls on those two are in progress.
LockedPathsAreSafe ==
    freed > 0 =>
        \A t \in Threads : pc[t] \in Touching => path[t] \in {"arp", "stats"}

\* rudp_destroy_final runs only once the last rudp_poll, rudp_send or
\* rudp_recv that has its reference has returned, even for callers that read
\* conn->rudp under no lock.
FreeWaitsForCalls == [][freed' # freed => \A t \in Threads : refs[t] = 0]_vars

\* The reference count is the owner's reference and those of the calls in
\* progress, nested ones included: none is lost or counted twice.
\* (Owner: rudp_destroy has not yet dropped the creator's reference.)
Owner == IF destroying /\ \A t \in Destroyers : pc[t] # "drop" THEN 0 ELSE 1
HeldBy(n) == Cardinality({t \in Callers : refs[t] >= n})
CountIsHolders == refcount = Owner + HeldBy(1) + HeldBy(2)

\* A context that is being destroyed is eventually freed, once the calls in
\* progress on it have returned.
EventuallyFreed == destroying ~> freed = 1

=============================================================================
