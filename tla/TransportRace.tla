---------------------------- MODULE TransportRace ----------------------------
(***************************************************************************)
(* The parallel transport race of softether_protocol.c: workers (direct    *)
(* R-UDP, NAT-T, DNS, ICMP) connect and handshake each on its own, and     *)
(* decide through a shared control block whose connection is kept, while   *)
(* the parent waits for a published winner or the deadline, revokes the    *)
(* right to publish, joins the workers and adopts the winner.              *)
(*                                                                         *)
(* A worker's connection (its socket or R-UDP transport and, once it       *)
(* handshakes, its TLS context) is one resource, open or not.              *)
(***************************************************************************)
EXTENDS Naturals, FiniteSets

CONSTANT NumTransports

Workers == 1..NumTransports
None == 0

VARIABLES
    cancel_flag, winner_claimed, winner_published, winner_index,  \* race_control_t
    created, exited,            \* per worker: thread exists, body has returned
    payload,                    \* per worker: its result record is written
    freed,                      \* the control block and the contexts are freed
    open,                       \* workers whose connection is open
    pc,                         \* per worker
    parent, joining, winner,    \* the parent: step, worker it joins, winner it saw
    adopted                     \* the worker whose connection conn now has

ctrlVars == <<cancel_flag, winner_claimed, winner_published, winner_index>>
parentVars == <<parent, joining, winner, adopted>>
vars == <<ctrlVars, created, exited, payload, freed, open, pc, parentVars>>

Init ==
    /\ cancel_flag = FALSE
    /\ winner_claimed = FALSE
    /\ winner_published = 0
    /\ winner_index = None
    /\ created = {}
    /\ exited = {}
    /\ payload = {}
    /\ freed = FALSE
    /\ open = {}
    /\ pc = [w \in Workers |-> "none"]
    /\ parent = "launch"
    /\ joining = 1
    /\ winner = None
    /\ adopted = None

Goto(w, step) == pc' = [pc EXCEPT ![w] = step]

-----------------------------------------------------------------------------
(* A transport thread. *)

\* No budget left, the wrong address family, or the race is over after the
\* staggered delay.
GiveUp(w) ==
    /\ pc[w] = "start"
    /\ Goto(w, "return")
    /\ UNCHANGED <<ctrlVars, created, exited, payload, freed, open, parentVars>>

Connect(w) ==
    /\ pc[w] = "start"
    /\ ~cancel_flag
    /\ \/ open' = open \cup {w} /\ Goto(w, "connected")
       \/ Goto(w, "return") /\ UNCHANGED open
    /\ UNCHANGED <<ctrlVars, created, exited, payload, freed, parentVars>>

\* The cancel flag is looked at once more before the handshake, and never
\* after it.
Handshake(w) ==
    /\ pc[w] = "connected"
    /\ \/ ~cancel_flag /\ Goto(w, "claim") /\ UNCHANGED open
       \/ open' = open \ {w} /\ Goto(w, "return")
    /\ UNCHANGED <<ctrlVars, created, exited, payload, freed, parentVars>>

\* Compare-and-swap of winner_claimed; the loser closes its connection.
Claim(w) ==
    /\ pc[w] = "claim"
    /\ \/ /\ ~winner_claimed
          /\ winner_claimed' = TRUE
          /\ Goto(w, "index")
          /\ UNCHANGED open
       \/ /\ winner_claimed
          /\ open' = open \ {w}
          /\ Goto(w, "return")
          /\ UNCHANGED winner_claimed
    /\ UNCHANGED <<cancel_flag, winner_published, winner_index, created, exited,
                   payload, freed, parentVars>>

WriteIndex(w) ==
    /\ pc[w] = "index"
    /\ winner_index' = w
    /\ Goto(w, "payload")
    /\ UNCHANGED <<cancel_flag, winner_claimed, winner_published, created, exited,
                   payload, freed, open, parentVars>>

WritePayload(w) ==
    /\ pc[w] = "payload"
    /\ payload' = payload \cup {w}
    /\ Goto(w, "publish")
    /\ UNCHANGED <<ctrlVars, created, exited, freed, open, parentVars>>

\* Compare-and-swap of winner_published from 0 to 1; too late, close.
Publish(w) ==
    /\ pc[w] = "publish"
    /\ \/ /\ winner_published = 0
          /\ winner_published' = 1
          /\ UNCHANGED open
       \/ /\ winner_published # 0
          /\ open' = open \ {w}
          /\ UNCHANGED winner_published
    /\ Goto(w, "return")
    /\ UNCHANGED <<cancel_flag, winner_claimed, winner_index, created, exited,
                   payload, freed, parentVars>>

\* race_thread_trampoline.
Return(w) ==
    /\ pc[w] = "return"
    /\ exited' = exited \cup {w}
    /\ Goto(w, "ended")
    /\ UNCHANGED <<ctrlVars, created, payload, freed, open, parentVars>>

-----------------------------------------------------------------------------
(* softether_connect_parallel_race. *)

\* pthread_create may fail for any of the transports.
Launch ==
    /\ parent = "launch"
    /\ \E ws \in SUBSET Workers :
         /\ created' = ws
         /\ pc' = [w \in Workers |-> IF w \in ws THEN "start" ELSE "none"]
    /\ parent' = "wait"
    /\ UNCHANGED <<ctrlVars, exited, payload, freed, open, joining, winner, adopted>>

\* Mutant: the claim, not the publication, is what the parent waits for.
SeeClaimed ==
    /\ parent = "wait"
    /\ winner_claimed
    /\ winner' = winner_index
    /\ parent' = "revoke"
    /\ UNCHANGED <<ctrlVars, created, exited, payload, freed, open, pc, joining, adopted>>

SeePublished ==
    /\ parent = "wait"
    /\ winner_published = 1
    /\ winner' = winner_index
    /\ parent' = "revoke"
    /\ UNCHANGED <<ctrlVars, created, exited, payload, freed, open, pc, joining, adopted>>

DeadlinePasses ==
    /\ parent = "wait"
    /\ parent' = "revoke"
    /\ UNCHANGED <<ctrlVars, created, exited, payload, freed, open, pc, joining, winner, adopted>>

\* Compare-and-swap of winner_published from 0 to -1, written 2 here.
Revoke ==
    /\ parent = "revoke"
    /\ winner_published' = IF winner_published = 0 THEN 2 ELSE winner_published
    /\ parent' = "recheck"
    /\ UNCHANGED <<cancel_flag, winner_claimed, winner_index, created, exited,
                   payload, freed, open, pc, joining, winner, adopted>>

Recheck ==
    /\ parent = "recheck"
    /\ winner' = IF winner = None /\ winner_published = 1 THEN winner_index ELSE winner
    /\ cancel_flag' = TRUE
    /\ parent' = "join"
    /\ UNCHANGED <<winner_claimed, winner_published, winner_index, created, exited,
                   payload, freed, open, pc, joining, adopted>>

MustJoin(w) == w \in created

\* The wait before the join compares trampolines[i].exited, which is a
\* pointer, with 0: it never waits, and pthread_join always follows.  The
\* branch that detaches the thread is never taken.
JoinStarts ==
    /\ parent = "join"
    /\ joining \in Workers
    /\ MustJoin(joining)
    /\ parent' = "blocked"
    /\ UNCHANGED <<ctrlVars, created, exited, payload, freed, open, pc, joining, winner, adopted>>

JoinReturns ==
    /\ parent = "blocked"
    /\ pc[joining] = "ended"
    /\ joining' = joining + 1
    /\ parent' = "join"
    /\ UNCHANGED <<ctrlVars, created, exited, payload, freed, open, pc, winner, adopted>>

JoinSkips ==
    /\ parent = "join"
    /\ joining \in Workers
    /\ ~MustJoin(joining)
    /\ joining' = joining + 1
    /\ UNCHANGED <<ctrlVars, created, exited, payload, freed, open, pc, parent, winner, adopted>>

\* The winner's fields are copied, everything is freed, the winner promoted.
Adopt ==
    /\ parent = "join"
    /\ joining > NumTransports
    /\ freed' = TRUE
    /\ adopted' = winner
    /\ parent' = "done"
    /\ UNCHANGED <<ctrlVars, created, exited, payload, open, pc, joining, winner>>

-----------------------------------------------------------------------------

Work(w) == \/ GiveUp(w) \/ Connect(w) \/ Handshake(w) \/ Claim(w)
           \/ WriteIndex(w) \/ WritePayload(w) \/ Publish(w) \/ Return(w)

Race == \/ Launch \/ SeePublished \/ DeadlinePasses \/ Revoke \/ Recheck
        \/ JoinStarts \/ JoinReturns \/ JoinSkips \/ Adopt

Next == (\E w \in Workers : Work(w)) \/ Race

Spec == Init /\ [][Next]_vars

\* Connects and handshakes have timeouts, and the deadline passes.
FairSpec == Spec /\ WF_vars(Race) /\ \A w \in Workers : WF_vars(Work(w))

-----------------------------------------------------------------------------

\* Every variable is of its type.
TypeOK ==
    /\ cancel_flag \in BOOLEAN /\ winner_claimed \in BOOLEAN
    /\ winner_published \in 0..2
    /\ winner_index \in Workers \cup {None}
    /\ created \subseteq Workers /\ exited \subseteq created
    /\ payload \subseteq created /\ open \subseteq created
    /\ freed \in BOOLEAN
    /\ pc \in [Workers -> {"none", "start", "connected", "claim", "index", "payload",
                           "publish", "return", "ended"}]
    /\ parent \in {"launch", "wait", "revoke", "recheck", "join", "blocked",
                   "done"}
    /\ joining \in 1..(NumTransports + 1)
    /\ winner \in Workers \cup {None} /\ adopted \in Workers \cup {None}

\* A race that is over has closed every connection but the one it adopted,
\* and that one is still open: nothing leaks, and no winner is closed by its
\* own worker.
OnlyWinnerStaysOpen == parent = "done" => open = {adopted} \ {None}

\* The parent never takes a winner whose result record is not yet complete.
WinnerIsComplete == winner # None => winner \in payload

\* No worker runs on a freed control block or context.
NoWorkerAfterFree == freed => \A w \in created : pc[w] = "ended"

\* The parent adopts a winner whose record is complete and whose connection is
\* still open, every other connection is closed, and no worker runs on the freed
\* control block.
OneWinnerIsAdopted ==
    /\ TypeOK
    /\ OnlyWinnerStaysOpen
    /\ WinnerIsComplete
    /\ NoWorkerAfterFree

\* The race always ends.
RaceEnds == <>(parent = "done")

\* The join waits only for workers that have already returned, so that a
\* handshake that hangs cannot hold the connect.
JoinIsBounded == parent = "blocked" => joining \in exited

=============================================================================
