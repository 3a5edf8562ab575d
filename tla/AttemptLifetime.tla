--------------------------- MODULE AttemptLifetime ---------------------------
(***************************************************************************)
(* What a connection attempt promises the rest of the process about its    *)
(* native connections, without saying how: a connection is freed only      *)
(* while no flow works on it; once closed, no flow enters and, with no     *)
(* flow inside, none is created; and the process-wide slot is given back   *)
(* only when the attempt is closed, empty and has nothing allocated.       *)
(* ConnectionController.tla implements it.                                 *)
(***************************************************************************)
EXTENDS Integers

CONSTANTS Flows, Handles

VARIABLES
    closed,   \* teardown has begun
    users,    \* flows that may make native calls
    live,     \* native connections allocated
    using,    \* the connection each flow is working on, 0 = none
    lease     \* "held", "released" by the attempt, or "forced" away

vars == <<closed, users, live, using, lease>>

Init ==
    /\ closed = FALSE
    /\ users = {}
    /\ live = {}
    /\ using = [t \in Flows |-> 0]
    /\ lease = "held"

Close ==
    /\ closed' = TRUE
    /\ UNCHANGED <<users, live, using, lease>>

Enter(t) ==
    /\ ~closed
    /\ users' = users \cup {t}
    /\ UNCHANGED <<closed, live, using, lease>>

Leave(t) ==
    /\ t \in users
    /\ using[t] = 0
    /\ users' = users \ {t}
    /\ UNCHANGED <<closed, live, using, lease>>

Create(h) ==
    /\ users # {}
    /\ h \notin live
    /\ live' = live \cup {h}
    /\ UNCHANGED <<closed, users, using, lease>>

StartUse(t, h) ==
    /\ t \in users
    /\ h \in live
    /\ using' = [using EXCEPT ![t] = h]
    /\ UNCHANGED <<closed, users, live, lease>>

EndUse(t) ==
    /\ using' = [using EXCEPT ![t] = 0]
    /\ UNCHANGED <<closed, users, live, lease>>

Free(h) ==
    /\ \A t \in Flows : using[t] # h
    /\ live' = live \ {h}
    /\ UNCHANGED <<closed, users, using, lease>>

GiveBack ==
    /\ lease = "held"
    /\ closed
    /\ users = {}
    /\ live = {}
    /\ lease' = "released"
    /\ UNCHANGED <<closed, users, live, using>>

TakeAway ==
    /\ lease = "held"
    /\ lease' = "forced"
    /\ UNCHANGED <<closed, users, live, using>>

Next ==
    \/ Close
    \/ \E t \in Flows : Enter(t) \/ Leave(t) \/ EndUse(t)
    \/ \E h \in Handles : Create(h) \/ Free(h)
    \/ \E t \in Flows, h \in Handles : StartUse(t, h)
    \/ GiveBack
    \/ TakeAway

Spec == Init /\ [][Next]_vars
=============================================================================
