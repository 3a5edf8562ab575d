----------------------- MODULE SoftEtherLinks_proofs -----------------------
(***************************************************************************)
(* Proofs about SoftEtherLinks.tla, for any number of slots, of links up   *)
(* at the start and of background connects: a context is destroyed at most *)
(* once, no two operations run on it together, and a teardown leaves none  *)
(* behind.  That no operation runs on a destroyed context is proved while  *)
(* no link takes the slot of another (MaxContexts <= 2: links were up at   *)
(* the start, or one is added); beyond that the run link_slot_reuse        *)
(* refutes it.                                                             *)
(*                                                                         *)
(* None of these is inductive.  They rest on who holds a link's lock       *)
(* (Locks), on a context being in one slot only (Distinct, Exclusive), and *)
(* on what the teardown has waited for (Teardown); safety of the contexts  *)
(* in addition on the three names of a slot's context agreeing (InUse).    *)
(***************************************************************************)
EXTENDS SoftEtherLinks, FiniteSetTheorems, TLAPS

Steps ==
    {"idle", "staging", "candidates", "resolve", "lock", "busy", "ok", "failed",
     "retire", "free", "keepalive", "launch", "create", "cleanup", "fill",
     "capture", "leave"}

Purposes ==
    {"none", "write", "keepalive", "cleanup", "pending", "read", "block", "reply"}

\* The types the argument needs; a context has a number at most `created`.
ContextTypes ==
    /\ created \in Contexts
    /\ ssl \in [Links -> 0..created]
    /\ socket_fd \in [Links -> 0..created]
    /\ ssl_ctx \in [Links -> 0..created]
    /\ destroyed \in [Contexts -> Nat]

ConnectionTypes ==
    /\ state \in {"CONNECTED", "DISCONNECTING", "DISCONNECTED"}
    /\ active \in [Slots -> BOOLEAN]
    /\ num_additional \in Int
    /\ readers \subseteq Workers /\ writer \in BOOLEAN
    /\ write_mutex \in Workers \cup {Nobody, "disc"}
    /\ io_mutex \in [Links -> Workers \cup {Nobody, "disc"}]
    /\ disc \in {"idle", "join", "close", "wrlock", "staging", "io", "finish", "done"}
    /\ held \in 0..(NumSlots + 1)
    /\ additional_connecting \in BOOLEAN
    /\ bg \in {"none", "start", "connecting", "published", "over"}
    /\ bg \in {"connecting", "published"} => bgSlot \in Slots

WorkerTypes ==
    /\ pc \in [Workers -> Steps]
    /\ op \in [Workers -> Purposes]
    /\ link \in [Workers -> Links]
    /\ ctx \in [Workers -> 0..created]
    /\ tried \in [Workers -> SUBSET Links]
    /\ \A t \in Workers : pc[t] \in {"retire", "free"} => link[t] # 0

LinkTypes ==
    /\ ContextTypes
    /\ ConnectionTypes
    /\ WorkerTypes

\* A thread holds the lock of the link it works on, a teardown those it took.
Locks ==
    /\ \A t \in Workers : pc[t] \in {"busy", "free"} => io_mutex[link[t]] = t
    /\ \A l \in Links : l < held => io_mutex[l] = "disc"

\* A context is in one slot at most, and has not been destroyed there.
Distinct ==
    /\ \A k, l \in Links : k # l /\ ssl[k] # 0 => ssl[k] # ssl[l]
    /\ \A k, l \in Links : k # l /\ ssl_ctx[k] # 0 => ssl_ctx[k] # ssl_ctx[l]
    /\ \A l \in Links : ssl_ctx[l] # 0 => destroyed[ssl_ctx[l]] = 0
    /\ \A c \in Contexts : c > created => destroyed[c] = 0
    /\ \A c \in Contexts : destroyed[c] <= 1

\* The context of an operation in progress is in no other link, and no other
\* operation in progress has it.
Exclusive ==
    \A t \in Workers : pc[t] = "busy" /\ ctx[t] # 0 =>
        /\ \A l \in Links : l # link[t] => ssl[l] # ctx[t]
        /\ \A u \in Workers : u # t /\ pc[u] = "busy" => ctx[u] # ctx[t]

\* The background connect against the teardown, which waits for it only if it
\* finds additional_connecting set.
Teardown ==
    /\ state = "CONNECTED" <=> disc = "idle"
    /\ state = "DISCONNECTED" <=> disc = "done"
    /\ disc \in {"idle", "join"} =>
         /\ bg # "none" \/ pc["recv"] = "create" => additional_connecting
         /\ pc["recv"] = "create" => bg = "none"
    /\ disc \notin {"idle", "join"} => bg \notin {"connecting", "published"}
    /\ disc \in {"finish", "done"} => \A l \in Links : ssl_ctx[l] = 0

LinkInv ==
    /\ LinkTypes
    /\ Locks
    /\ Distinct
    /\ Exclusive
    /\ Teardown

\* While no link has been added, nobody works on an additional one; what is
\* looked up again by its context is a context.
Captured ==
    \A t \in Workers :
        /\ pc[t] = "resolve" \/ op[t] = "read" => ctx[t] # 0
        /\ created < MaxContexts => link[t] = 0

\* A context can still be created only while the slots have never been used.
Fresh ==
    created < MaxContexts =>
        /\ bg # "published"
        /\ \A s \in Slots : ssl[s] = 0 /\ socket_fd[s] = 0 /\ ~active[s]

\* A link's context is what would be destroyed with the link, also while an
\* operation runs on it; a link that is being retired has none to use.
InUse ==
    /\ \A l \in Links : ssl[l] # 0 => ssl_ctx[l] = ssl[l]
    /\ \A t \in Workers :
          /\ pc[t] = "busy" /\ ctx[t] # 0 => ssl_ctx[link[t]] = ctx[t]
          /\ pc[t] = "free" => ssl[link[t]] = 0

SafeInv ==
    /\ LinkInv
    /\ Captured
    /\ Fresh
    /\ InUse

USE LinksAssumption
USE DEF Slots, Links, Workers, Nobody

\* Contexts are numbered without gaps.
LEMMA ContextsBelow ==
    ASSUME NEW n \in Contexts, NEW c \in 1..n
    PROVE  c \in Contexts
BY DEF Contexts

\* The connection has its primary context from the start.
LEMMA SomeContext ==
    ASSUME ContextTypes
    PROVE  created \in Nat /\ created > 0
BY DEF ContextTypes, Contexts

-----------------------------------------------------------------------------
(* The steps of the threads.  Most of them touch neither a context nor a     *)
(* lock: they move one worker, which may capture a link.                     *)

\* Worker t moves, and nothing else changes but what it remembers.
Frame(t) ==
    /\ pc[t] \notin {"busy", "free"}
    /\ pc'[t] \notin {"busy", "free", "create"}
    /\ \A u \in Workers \ {t} :
          pc'[u] = pc[u] /\ link'[u] = link[u] /\ ctx'[u] = ctx[u]
    /\ readers' \subseteq Workers
    /\ write_mutex' \in Workers \cup {Nobody, "disc"}
    /\ UNCHANGED <<state, linkVars, num_additional, ctxVars, writer, io_mutex,
                   bgVars, discVars>>

Moves(t) == Frame(t) /\ WorkerTypes'

\* Such a step keeps the invariant.
LEMMA MovesKeeps ==
    ASSUME LinkInv, NEW t \in Workers, Moves(t)
    PROVE  LinkInv'
<1> USE DEF LinkInv, LinkTypes, Moves, Frame, linkVars, ctxVars, bgVars, discVars
<1>1. ConnectionTypes'
    BY DEF ConnectionTypes
<1>2. ContextTypes'
    BY DEF ContextTypes
<1>3. Locks' /\ Distinct' /\ Exclusive'
    BY DEF Locks, Distinct, Exclusive
<1>4. Teardown'
    BY DEF Teardown
<1> QED BY <1>1, <1>2, <1>3, <1>4

\* Capturing a link that exists keeps the types.
LEMMA CapturesTypes ==
    ASSUME LinkTypes, NEW t \in Workers, NEW l \in Links,
           NEW purpose \in Purposes, NEW step \in Steps \ {"retire", "free"},
           Captures(t, l, purpose, step),
           tried' \in [Workers -> SUBSET Links], created' = created
    PROVE  WorkerTypes'
<1> USE DEF LinkTypes, Captures, Goto
<1>1. ssl[l] \in 0..created
    BY DEF ContextTypes
<1>2. ctx' \in [Workers -> 0..created'] /\ op' \in [Workers -> Purposes]
    BY <1>1 DEF WorkerTypes
<1>3. pc' \in [Workers -> Steps] /\ link' \in [Workers -> Links]
    BY DEF WorkerTypes
<1>4. \A u \in Workers : pc'[u] \in {"retire", "free"} => link'[u] # 0
    BY DEF WorkerTypes
<1> QED BY <1>2, <1>3, <1>4 DEF WorkerTypes

\* What a worker does between its locked operations is such a step.
LEMMA WorkerMoves ==
    ASSUME LinkTypes, NEW t \in Workers,
           \/ Resolve(t)
           \/ TakeWriteMutex(t) \/ Candidate(t) \/ SendEnds(t)
    PROVE  Moves(t)
<1> USE DEF LinkTypes, WorkerTypes, Steps, Purposes, Goto, Captures, lockVars,
            linkVars, ctxVars, bgVars, discVars
<1>1. ASSUME Resolve(t) PROVE Moves(t)
  <2>1. Frame(t)
    BY <1>1 DEF Resolve, Frame, ConnectionTypes
  <2>2. WorkerTypes'
    <3>1. CASE \E l \in Links : link' = [link EXCEPT ![t] = l] /\ Goto(t, "lock")
      BY <1>1, <3>1 DEF Resolve
    <3>2. CASE UNCHANGED link /\ Goto(t, "failed")
      BY <1>1, <3>2 DEF Resolve
    <3> QED BY <1>1, <3>1, <3>2 DEF Resolve
  <2> QED BY <2>1, <2>2 DEF Moves
<1>2. ASSUME TakeWriteMutex(t) PROVE Moves(t)
  <2>1. Frame(t)
    BY <1>2 DEF TakeWriteMutex, Frame, ConnectionTypes
  <2>2. WorkerTypes'
    <3>1. tried' \in [Workers -> SUBSET Links]
      BY <1>2 DEF TakeWriteMutex
    <3>2. pc' \in [Workers -> Steps]
      BY <1>2 DEF TakeWriteMutex
    <3>3. /\ \A u \in Workers : pc'[u] \in {"retire", "free"} => pc'[u] = pc[u]
          /\ UNCHANGED <<op, link, ctx, created>>
      BY <1>2 DEF TakeWriteMutex
    <3> QED BY <3>1, <3>2, <3>3
  <2> QED BY <2>1, <2>2 DEF Moves
<1>3. ASSUME Candidate(t) PROVE Moves(t)
  <2>1. Frame(t)
    BY <1>3 DEF Candidate, Sendable, Frame, ConnectionTypes
  <2>2. WorkerTypes'
    <3>1. PICK l \in Links, step \in {"lock", "resolve"} :
            /\ Captures(t, l, "write", step)
            /\ tried' = [tried EXCEPT ![t] = @ \cup {l}]
      BY <1>3 DEF Candidate, Sendable
    <3>2. tried' \in [Workers -> SUBSET Links] /\ created' = created
      BY <1>3, <3>1 DEF Candidate
    <3> QED BY <3>1, <3>2, CapturesTypes
  <2> QED BY <2>1, <2>2 DEF Moves
<1>4. ASSUME SendEnds(t) PROVE Moves(t)
  <2>1. Frame(t)
    BY <1>4 DEF SendEnds, Frame, ConnectionTypes
  <2>2. WorkerTypes'
    BY <1>4 DEF SendEnds, ContextTypes
  <2> QED BY <2>1, <2>2 DEF Moves
<1> QED BY <1>1, <1>2, <1>3, <1>4

\* So is what the sender and the receiver do on their own.
LEMMA LoopMoves ==
    ASSUME LinkTypes,
           \/ SendStarts \/ SendFails \/ RecvStarts \/ KeptAlive \/ KeepAliveEnds
           \/ NoLaunch \/ CleanupEnds \/ FillStarts \/ Capture \/ PolledData
           \/ ReplyKeepAlive \/ ReadMore \/ ReadFails \/ FillEnds
           \/ \E l \in Links : KeepAlive(l)
           \/ \E s \in Slots : Cleanup(s)
    PROVE  \E t \in Workers : Moves(t)
<1> USE DEF LinkTypes, WorkerTypes, Steps, Purposes, Goto, Captures, lockVars,
            linkVars, ctxVars, bgVars, discVars
<1>1. ASSUME SendStarts PROVE Moves("send")
  <2>1. Frame("send")
    BY <1>1 DEF SendStarts, Frame, ConnectionTypes
  <2>2. WorkerTypes'
    BY <1>1 DEF SendStarts, ContextTypes
  <2> QED BY <2>1, <2>2 DEF Moves
<1>2. ASSUME SendFails PROVE Moves("send")
  <2>1. Frame("send")
    BY <1>2 DEF SendFails, Frame, ConnectionTypes
  <2>2. WorkerTypes'
    BY <1>2 DEF SendFails, ContextTypes
  <2> QED BY <2>1, <2>2 DEF Moves
<1>3. ASSUME RecvStarts PROVE Moves("recv")
  <2>1. Frame("recv")
    BY <1>3 DEF RecvStarts, RecvStep, Frame, ConnectionTypes
  <2>2. WorkerTypes'
    BY <1>3 DEF RecvStarts, RecvStep, ContextTypes
  <2> QED BY <2>1, <2>2 DEF Moves
<1>4. ASSUME KeptAlive PROVE Moves("recv")
  <2>1. Frame("recv")
    BY <1>4 DEF KeptAlive, RecvStep, Frame, ConnectionTypes
  <2>2. WorkerTypes'
    BY <1>4 DEF KeptAlive, RecvStep, ContextTypes
  <2> QED BY <2>1, <2>2 DEF Moves
<1>5. ASSUME KeepAliveEnds PROVE Moves("recv")
  <2>1. Frame("recv")
    BY <1>5 DEF KeepAliveEnds, RecvStep, Frame, ConnectionTypes
  <2>2. WorkerTypes'
    BY <1>5 DEF KeepAliveEnds, RecvStep, ContextTypes
  <2> QED BY <2>1, <2>2 DEF Moves
<1>6. ASSUME NoLaunch PROVE Moves("recv")
  <2>1. Frame("recv")
    BY <1>6 DEF NoLaunch, RecvStep, Frame, ConnectionTypes
  <2>2. WorkerTypes'
    BY <1>6 DEF NoLaunch, RecvStep, ContextTypes
  <2> QED BY <2>1, <2>2 DEF Moves
<1>7. ASSUME CleanupEnds PROVE Moves("recv")
  <2>1. Frame("recv")
    BY <1>7 DEF CleanupEnds, RecvStep, Frame, ConnectionTypes
  <2>2. WorkerTypes'
    BY <1>7 DEF CleanupEnds, RecvStep, ContextTypes
  <2> QED BY <2>1, <2>2 DEF Moves
<1>8. ASSUME FillStarts PROVE Moves("recv")
  <2>1. Frame("recv")
    BY <1>8 DEF FillStarts, Frame, ConnectionTypes
  <2>2. WorkerTypes'
    BY <1>8 DEF FillStarts, ContextTypes
  <2> QED BY <2>1, <2>2 DEF Moves
<1>9. ASSUME Capture PROVE Moves("recv")
  <2>1. Frame("recv")
    BY <1>9 DEF Capture, Frame, ConnectionTypes
  <2>2. WorkerTypes'
    <3>1. PICK l \in Links : Captures("recv", l, "pending", "lock")
      BY <1>9 DEF Capture
    <3>2. tried' \in [Workers -> SUBSET Links] /\ created' = created
      BY <1>9 DEF Capture
    <3> QED BY <3>1, <3>2, CapturesTypes
  <2> QED BY <2>1, <2>2 DEF Moves
<1>10. ASSUME PolledData PROVE Moves("recv")
  <2>1. Frame("recv")
    BY <1>10 DEF PolledData, Frame, ConnectionTypes
  <2>2. WorkerTypes'
    BY <1>10 DEF PolledData, ContextTypes
  <2> QED BY <2>1, <2>2 DEF Moves
<1>11. ASSUME ReplyKeepAlive PROVE Moves("recv")
  <2>1. Frame("recv")
    BY <1>11 DEF ReplyKeepAlive, Frame, ConnectionTypes
  <2>2. WorkerTypes'
    <3>1. Captures("recv", 0, "reply", "resolve") /\ 0 \in Links
      BY <1>11 DEF ReplyKeepAlive
    <3>2. tried' \in [Workers -> SUBSET Links] /\ created' = created
      BY <1>11 DEF ReplyKeepAlive
    <3> QED BY <3>1, <3>2, CapturesTypes
  <2> QED BY <2>1, <2>2 DEF Moves
<1>12. ASSUME ReadMore PROVE Moves("recv")
  <2>1. Frame("recv")
    BY <1>12 DEF ReadMore, Frame, ConnectionTypes
  <2>2. WorkerTypes'
    BY <1>12 DEF ReadMore, ContextTypes
  <2> QED BY <2>1, <2>2 DEF Moves
<1>13. ASSUME ReadFails PROVE Moves("recv")
  <2>1. Frame("recv")
    BY <1>13 DEF ReadFails, Frame, ConnectionTypes
  <2>2. WorkerTypes'
    BY <1>13 DEF ReadFails, ContextTypes
  <2> QED BY <2>1, <2>2 DEF Moves
<1>14. ASSUME FillEnds PROVE Moves("recv")
  <2>1. Frame("recv")
    BY <1>14 DEF FillEnds, Frame, ConnectionTypes
  <2>2. WorkerTypes'
    BY <1>14 DEF FillEnds, ContextTypes
  <2> QED BY <2>1, <2>2 DEF Moves
<1>15. ASSUME NEW l \in Links, KeepAlive(l) PROVE Moves("recv")
  <2>1. Frame("recv")
    BY <1>15 DEF KeepAlive, Frame, ConnectionTypes
  <2>2. WorkerTypes'
    <3>1. Captures("recv", l, "keepalive", "resolve")
      BY <1>15 DEF KeepAlive
    <3>2. tried' \in [Workers -> SUBSET Links] /\ created' = created
      BY <1>15 DEF KeepAlive
    <3> QED BY <3>1, <3>2, CapturesTypes
  <2> QED BY <2>1, <2>2 DEF Moves
<1>16. ASSUME NEW s \in Slots, Cleanup(s) PROVE Moves("recv")
  <2>1. Frame("recv")
    BY <1>16 DEF Cleanup, Frame, ConnectionTypes
  <2>2. WorkerTypes'
    <3>0. s \in Links /\ s # 0
      OBVIOUS
    <3>1. socket_fd[s] \in 0..created
      BY <3>0 DEF ContextTypes
    <3>2. ctx' \in [Workers -> 0..created'] /\ link' \in [Workers -> Links]
      BY <1>16, <3>0, <3>1 DEF Cleanup
    <3>3. op' \in [Workers -> Purposes] /\ pc' \in [Workers -> Steps]
      BY <1>16 DEF Cleanup
    <3>4. \A u \in Workers : pc'[u] \in {"retire", "free"} => link'[u] # 0
      BY <1>16, <3>0, <3>1 DEF Cleanup
    <3>5. tried' = tried
      BY <1>16 DEF Cleanup
    <3> QED BY <3>2, <3>3, <3>4, <3>5
  <2> QED BY <2>1, <2>2 DEF Moves
<1> QED BY <1>1, <1>2, <1>3, <1>4, <1>5, <1>6, <1>7, <1>8, <1>9,
           <1>10, <1>11, <1>12, <1>13, <1>14, <1>15, <1>16

-----------------------------------------------------------------------------
(* The steps on a link's lock and on its contexts. *)

\* The lock of a link, and the look at the link under it.
LEMMA LockKeeps ==
    ASSUME LinkInv, NEW t \in Workers, Lock(t)
    PROVE  LinkInv'
<1> USE DEF LinkInv, LinkTypes, Goto, Steps
<1>1. CASE LinkIoLive(t, link[t])
  <2>1. /\ pc[t] = "lock" /\ io_mutex[link[t]] = Nobody
        /\ io_mutex' = [io_mutex EXCEPT ![link[t]] = t]
        /\ ctx' = [ctx EXCEPT ![t] = ssl[link[t]]]
        /\ pc' = [pc EXCEPT ![t] = "busy"]
        /\ UNCHANGED <<state, linkVars, num_additional, ctxVars, readers, writer,
                       write_mutex, bgVars, op, link, tried, discVars>>
    BY <1>1 DEF Lock, LinkIoLive, LinkUnlocked, WorkerTypes
  <2> USE DEF linkVars, ctxVars, bgVars, discVars
  <2>2. WorkerTypes'
    BY <2>1 DEF WorkerTypes, ContextTypes
  <2>3. ConnectionTypes' /\ ContextTypes'
    <3>1. ConnectionTypes'
      BY <2>1 DEF ConnectionTypes, WorkerTypes
    <3>2. ContextTypes'
      BY <2>1 DEF ContextTypes, WorkerTypes
    <3> QED BY <3>1, <3>2
  <2>4. Locks'
    BY <2>1 DEF Locks, WorkerTypes, ConnectionTypes
  <2>5. Distinct' /\ Teardown'
    BY <2>1 DEF Distinct, Teardown, WorkerTypes
  <2>6. Exclusive'
    <3>1. /\ pc'[t] = "busy" /\ ctx'[t] = ssl[link[t]]
          /\ \A u \in Workers \ {t} : pc'[u] = pc[u] /\ ctx'[u] = ctx[u]
      BY <2>1 DEF WorkerTypes
    <3>2. UNCHANGED <<ssl, link>> /\ link[t] \in Links
      BY <2>1 DEF WorkerTypes
    <3>3. \A u \in Workers \ {t} : pc[u] = "busy" => link[u] # link[t]
      BY <2>1 DEF Locks
    <3>4. \A u \in Workers \ {t} :
             pc[u] = "busy" /\ ctx[u] # 0 => ctx[u] # ssl[link[t]]
      BY <3>2, <3>3 DEF Exclusive
    <3>5. \A l \in Links : l # link[t] /\ ssl[link[t]] # 0 => ssl[l] # ssl[link[t]]
      BY <3>2 DEF Distinct
    <3> QED BY <3>1, <3>2, <3>4, <3>5 DEF Exclusive
  <2> QED BY <2>2, <2>3, <2>4, <2>5, <2>6
<1>2. CASE ~LinkIoLive(t, link[t])
  <2>1. Frame(t)
    BY <1>2 DEF Lock, Frame, WorkerTypes, ConnectionTypes
  <2>2. WorkerTypes'
    BY <1>2 DEF Lock, WorkerTypes, ctxVars
  <2> QED BY <2>1, <2>2, MovesKeeps DEF Moves
<1> QED BY <1>1, <1>2

\* The operation is over and the lock is given back.
LEMMA UnlockKeeps ==
    ASSUME LinkInv, NEW t \in Workers, Unlock(t)
    PROVE  LinkInv'
<1> USE DEF LinkInv, LinkTypes, Goto, Steps
<1>1. PICK to \in {"ok", "failed"} : pc' = [pc EXCEPT ![t] = to]
    BY DEF Unlock
<1>2. /\ pc[t] = "busy"
      /\ io_mutex' = [io_mutex EXCEPT ![link[t]] = Nobody]
      /\ UNCHANGED <<state, linkVars, num_additional, ctxVars, readers, writer,
                     write_mutex, bgVars, op, link, ctx, tried, discVars>>
    BY DEF Unlock
<1> USE DEF linkVars, ctxVars, bgVars, discVars
<1>3. WorkerTypes'
    BY <1>1, <1>2 DEF WorkerTypes, ContextTypes
<1>4. ConnectionTypes' /\ ContextTypes'
  <2>1. ConnectionTypes'
    BY <1>2 DEF ConnectionTypes, WorkerTypes
  <2>2. ContextTypes'
    BY <1>2 DEF ContextTypes
  <2> QED BY <2>1, <2>2
<1>5. Locks'
    BY <1>1, <1>2 DEF Locks, WorkerTypes, ConnectionTypes
<1>6. Distinct' /\ Teardown' /\ Exclusive'
    BY <1>1, <1>2 DEF Distinct, Teardown, Exclusive, WorkerTypes
<1> QED BY <1>3, <1>4, <1>5, <1>6

\* A link is marked inactive under its lock.
LEMMA RetireMarkKeeps ==
    ASSUME LinkInv, NEW t \in Workers, RetireMark(t)
    PROVE  LinkInv'
<1> USE DEF LinkInv, LinkTypes, Goto, Steps
<1>1. CASE MayRetire(t)
  <2>1. /\ pc[t] = "retire" /\ io_mutex[link[t]] = Nobody
        /\ io_mutex' = [io_mutex EXCEPT ![link[t]] = t]
        /\ active' = [active EXCEPT ![link[t]] = FALSE]
        /\ ssl' = [ssl EXCEPT ![link[t]] = 0]
        /\ socket_fd' = [socket_fd EXCEPT ![link[t]] = 0]
        /\ pc' = [pc EXCEPT ![t] = "free"]
        /\ UNCHANGED <<state, ssl_ctx, num_additional, ctxVars, readers, writer,
                       write_mutex, bgVars, op, link, ctx, tried, discVars>>
    BY <1>1 DEF RetireMark
  <2> USE DEF linkVars, ctxVars, bgVars, discVars
  <2>2. WorkerTypes'
    BY <2>1 DEF WorkerTypes, ContextTypes
  <2>3. ConnectionTypes' /\ ContextTypes'
    <3>1. ConnectionTypes'
      BY <2>1 DEF ConnectionTypes, WorkerTypes
    <3>2. 0 \in 0..created /\ link[t] \in Links
      BY SomeContext DEF WorkerTypes
    <3>3. ContextTypes'
      BY <2>1, <3>2 DEF ContextTypes
    <3> QED BY <3>1, <3>3
  <2>4. Locks'
    BY <2>1 DEF Locks, WorkerTypes, ConnectionTypes
  <2>5. Distinct' /\ Teardown'
    BY <2>1 DEF Distinct, Teardown, WorkerTypes, ContextTypes
  <2>6. Exclusive'
    BY <2>1 DEF Exclusive, WorkerTypes, ContextTypes
  <2> QED BY <2>2, <2>3, <2>4, <2>5, <2>6
<1>2. CASE ~MayRetire(t)
  <2>1. Frame(t)
    BY <1>2 DEF RetireMark, Frame, AfterRetire, linkVars, WorkerTypes,
                ConnectionTypes
  <2>2. WorkerTypes'
    BY <1>2 DEF RetireMark, AfterRetire, WorkerTypes, ctxVars
  <2> QED BY <2>1, <2>2, MovesKeeps DEF Moves
<1> QED BY <1>1, <1>2

\* take_ssl_ctx_slot and ssl_destroy: the context leaves its slot as it goes.
LEMMA RetireFreeKeeps ==
    ASSUME LinkInv, NEW t \in Workers, RetireFree(t)
    PROVE  LinkInv'
<1> USE DEF LinkInv, LinkTypes, Goto, Steps
<1> DEFINE gone == ssl_ctx[link[t]]
<1>0. gone \in 0..created /\ (gone # 0 => gone \in Contexts)
    BY ContextsBelow DEF ContextTypes, WorkerTypes
<1>1. /\ pc[t] = "free"
      /\ ssl_ctx' = [ssl_ctx EXCEPT ![link[t]] = 0]
      /\ destroyed' = IF gone = 0 THEN destroyed ELSE [destroyed EXCEPT ![gone] = @ + 1]
      /\ io_mutex' = [io_mutex EXCEPT ![link[t]] = Nobody]
      /\ num_additional' = num_additional - 1
      /\ UNCHANGED <<state, ssl, socket_fd, active, created, readers, writer,
                     write_mutex, bgVars, op, link, ctx, tried, discVars>>
    BY DEF RetireFree, Destroys
<1>2. PICK to \in {"candidates", "cleanup", "leave"} : pc' = [pc EXCEPT ![t] = to]
    BY DEF RetireFree, AfterRetire
<1> USE DEF linkVars, ctxVars, bgVars, discVars
<1>3. WorkerTypes'
    BY <1>1, <1>2 DEF WorkerTypes, ContextTypes
<1>4. ConnectionTypes' /\ ContextTypes'
  <2>1. ConnectionTypes'
    BY <1>1 DEF ConnectionTypes, WorkerTypes
  <2>2. ContextTypes'
    <3>0. 0 \in 0..created /\ link[t] \in Links
      BY SomeContext DEF WorkerTypes
    <3>1. destroyed' \in [Contexts -> Nat]
      <4>1. CASE gone = 0
        BY <1>1, <4>1 DEF ContextTypes
      <4>2. CASE gone # 0
        <5>1. destroyed' = [destroyed EXCEPT ![gone] = @ + 1]
          BY <1>1, <4>2
        <5>2. destroyed[gone] + 1 \in Nat
          BY <1>0, <4>2 DEF ContextTypes
        <5> HIDE DEF gone
        <5> QED BY <5>1, <5>2 DEF ContextTypes
      <4> QED BY <4>1, <4>2
    <3>2. ssl_ctx' \in [Links -> 0..created]
      BY <1>1, <3>0 DEF ContextTypes
    <3> QED BY <1>1, <3>1, <3>2 DEF ContextTypes
  <2> QED BY <2>1, <2>2
<1>5. Locks'
    BY <1>1, <1>2 DEF Locks, WorkerTypes, ConnectionTypes
<1>6. Distinct'
  <2>1. CASE gone = 0
    BY <1>1, <2>1 DEF Distinct, WorkerTypes, ContextTypes
  <2>2. CASE gone # 0
    <3>1. /\ destroyed[gone] = 0
          /\ \A l \in Links \ {link[t]} : ssl_ctx[l] # gone
      BY <2>2 DEF Distinct, WorkerTypes, ContextTypes
    <3>2. \A c \in Contexts : destroyed'[c] = IF c = gone THEN 1 ELSE destroyed[c]
      BY <1>0, <1>1, <2>2, <3>1 DEF ContextTypes
    <3>3. \A l \in Links : ssl_ctx'[l] = IF l = link[t] THEN 0 ELSE ssl_ctx[l]
      BY <1>1 DEF ContextTypes, WorkerTypes
    <3>4. UNCHANGED <<ssl, created>>
      BY <1>1
    <3>5. \A c \in Contexts : c > created => destroyed'[c] = 0
      BY <1>0, <3>2, SomeContext DEF Distinct
    <3>6. \A c \in Contexts : destroyed'[c] <= 1
      BY <3>2 DEF Distinct
    <3>7. \A l \in Links : ssl_ctx'[l] # 0 => destroyed'[ssl_ctx'[l]] = 0
      <4> SUFFICES ASSUME NEW l \in Links, ssl_ctx'[l] # 0
                   PROVE  destroyed'[ssl_ctx'[l]] = 0
        OBVIOUS
      <4>1. l # link[t] /\ ssl_ctx'[l] = ssl_ctx[l] /\ ssl_ctx[l] # gone
        BY <3>1, <3>3
      <4>2. ssl_ctx[l] \in Contexts
        BY <4>1, ContextsBelow DEF ContextTypes
      <4> QED BY <3>2, <4>1, <4>2 DEF Distinct
    <3>8. \A k, l \in Links : k # l /\ ssl_ctx'[k] # 0 => ssl_ctx'[k] # ssl_ctx'[l]
      BY <3>3 DEF Distinct
    <3> QED BY <3>4, <3>5, <3>6, <3>7, <3>8 DEF Distinct
  <2> QED BY <2>1, <2>2
<1>7. Teardown' /\ Exclusive'
    BY <1>1, <1>2 DEF Teardown, Exclusive, WorkerTypes, ContextTypes
<1> QED BY <1>3, <1>4, <1>5, <1>6, <1>7

-----------------------------------------------------------------------------
(* The background connect and the teardown. *)

\* A free slot is found when there is one.
LEMMA FreeSlotIsSlot ==
    ASSUME \E s \in Slots : ~active[s]
    PROVE  FreeSlot \in Slots /\ ~active[FreeSlot]
<1> DEFINE free == {s \in Slots : ~active[s]}
           less == OpToRel(<, Nat)
<1>1. PICK s \in free : \A r \in free : <<r, s>> \notin less
  <2>1. free \subseteq Nat /\ free # {}
    OBVIOUS
  <2>2. IsWellFoundedOn(less, Nat)
    BY NatLessThanWellFounded
  <2> HIDE DEF free, less
  <2> QED BY <2>1, <2>2, WFMin
<1>2. \A r \in free : s <= r
  <2> TAKE r \in free
  <2>1. ~(r < s)
    <3> SUFFICES ASSUME r < s PROVE FALSE
      OBVIOUS
    <3>1. r \in Nat /\ s \in Nat
      OBVIOUS
    <3>2. <<r, s>> \in {ss \in Nat \X Nat : ss[1] < ss[2]}
      BY <3>1
    <3> QED BY <1>1, <3>2 DEF OpToRel
  <2> QED BY <2>1
<1> QED BY <1>1, <1>2 DEF FreeSlot

\* Launching a background connect: the flag before the thread.
LEMMA LaunchKeeps ==
    ASSUME LinkInv, Launch \/ CreateThread
    PROVE  LinkInv'
<1> USE DEF LinkInv, LinkTypes, Goto, Steps, linkVars, ctxVars, lockVars, discVars
<1>1. WorkerTypes'
    BY DEF Launch, CreateThread, WorkerTypes
<1>2. ContextTypes'
    BY DEF Launch, CreateThread, ContextTypes
<1>3. ConnectionTypes'
  <2>1. CASE Launch
    BY <2>1 DEF Launch, ConnectionTypes
  <2>2. CASE CreateThread
    BY <2>2 DEF CreateThread, ConnectionTypes
  <2> QED BY <2>1, <2>2
<1>4. Locks' /\ Distinct' /\ Exclusive'
    BY DEF Launch, CreateThread, Locks, Distinct, Exclusive, WorkerTypes
<1>5. Teardown'
    BY DEF Launch, CreateThread, Teardown, WorkerTypes, ConnectionTypes
<1> QED BY <1>1, <1>2, <1>3, <1>4, <1>5

\* The background thread, but for filling the slot.
LEMMA BgKeeps ==
    ASSUME LinkInv, BgStarts \/ BgFails \/ BgActivates \/ BgReturns
    PROVE  LinkInv'
<1> USE DEF LinkInv, LinkTypes, BgVarsOnly, linkVars, ctxVars, lockVars, workVars,
            discVars
<1>1. WorkerTypes'
    BY DEF BgStarts, BgFails, BgActivates, BgReturns, WorkerTypes
<1>2. ContextTypes'
    BY DEF BgStarts, BgFails, BgActivates, BgReturns, ContextTypes
<1>3. ConnectionTypes'
  <2>1. CASE BgStarts
    BY <2>1, FreeSlotIsSlot DEF BgStarts, ConnectionTypes
  <2>2. CASE BgFails \/ BgReturns
    BY <2>2 DEF BgFails, BgReturns, ConnectionTypes
  <2>3. CASE BgActivates
    BY <2>3 DEF BgActivates, ConnectionTypes
  <2> QED BY <2>1, <2>2, <2>3
<1>4. Locks' /\ Distinct' /\ Exclusive'
    BY DEF BgStarts, BgFails, BgActivates, BgReturns, Locks, Distinct, Exclusive
<1>5. Teardown'
    BY DEF BgStarts, BgFails, BgActivates, BgReturns, Teardown, ConnectionTypes
<1> QED BY <1>1, <1>2, <1>3, <1>4, <1>5

\* The slot is filled with a context that is nowhere else.
LEMMA BgPublishesKeeps ==
    ASSUME LinkInv, BgPublishes
    PROVE  LinkInv'
<1> USE DEF LinkInv, LinkTypes, BgVarsOnly, linkVars, ctxVars, lockVars, workVars,
            discVars
<1> DEFINE new == created + 1
<1>1. /\ bg = "connecting" /\ bg' = "published"
      /\ created < MaxContexts /\ created' = new
      /\ socket_fd' = [socket_fd EXCEPT ![bgSlot] = new]
      /\ ssl_ctx' = [ssl_ctx EXCEPT ![bgSlot] = new]
      /\ ssl' = [ssl EXCEPT ![bgSlot] = new]
      /\ UNCHANGED <<state, active, num_additional, destroyed, bgSlot, lockVars,
                     additional_connecting, additional_connect_slot, workVars,
                     discVars>>
    BY DEF BgPublishes
<1>2. created \in Nat /\ new \in Nat /\ new > created /\ new \in 0..created'
    BY <1>1, SomeContext
<1>3. new \in Contexts
    BY <1>1, <1>2 DEF Contexts
<1>4. bgSlot \in Slots /\ bgSlot \in Links /\ bgSlot # 0
    BY <1>1 DEF ConnectionTypes
<1>5. \A n \in 0..created : n \in 0..created'
    BY <1>1, <1>2
<1> HIDE DEF new
<1>6. WorkerTypes'
  <2>1. ctx' \in [Workers -> 0..created']
    BY <1>1, <1>5 DEF WorkerTypes
  <2> QED BY <1>1, <2>1 DEF WorkerTypes
<1>7. ContextTypes'
  <2>1. ssl' \in [Links -> 0..created'] /\ ssl_ctx' \in [Links -> 0..created']
    BY <1>1, <1>2, <1>4, <1>5 DEF ContextTypes
  <2>2. socket_fd' \in [Links -> 0..created']
    BY <1>1, <1>2, <1>4, <1>5 DEF ContextTypes
  <2> QED BY <1>1, <1>3, <2>1, <2>2 DEF ContextTypes
<1>8. ConnectionTypes'
    BY <1>1 DEF ConnectionTypes
<1>9. Locks'
    BY <1>1 DEF Locks
<1>10. /\ \A l \in Links : ssl'[l] = IF l = bgSlot THEN new ELSE ssl[l]
       /\ \A l \in Links : ssl_ctx'[l] = IF l = bgSlot THEN new ELSE ssl_ctx[l]
       /\ \A l \in Links : ssl[l] # new /\ ssl_ctx[l] # new
    BY <1>1, <1>2, <1>4 DEF ContextTypes
<1>11. Distinct'
  <2>1. \A l \in Links : ssl_ctx'[l] # 0 => destroyed[ssl_ctx'[l]] = 0
    BY <1>2, <1>3, <1>10 DEF Distinct
  <2>2. \A k, l \in Links : k # l /\ ssl_ctx'[k] # 0 => ssl_ctx'[k] # ssl_ctx'[l]
    BY <1>10 DEF Distinct
  <2>3. \A k, l \in Links : k # l /\ ssl'[k] # 0 => ssl'[k] # ssl'[l]
    BY <1>10 DEF Distinct
  <2>4. \A c \in Contexts : c > created' => destroyed[c] = 0
    BY <1>1, <1>2 DEF Distinct, Contexts
  <2> QED BY <1>1, <2>1, <2>2, <2>3, <2>4 DEF Distinct
<1>12. Exclusive'
  <2>1. \A t \in Workers : ctx[t] # new
    BY <1>2 DEF WorkerTypes
  <2> QED BY <1>1, <1>10, <2>1 DEF Exclusive
<1>13. Teardown'
    BY <1>1, <1>4 DEF Teardown, ConnectionTypes
<1> QED BY <1>6, <1>7, <1>8, <1>9, <1>11, <1>12, <1>13

\* The teardown, but for the step that destroys the contexts.
LEMMA DiscKeeps ==
    ASSUME LinkInv,
           \/ Disconnect \/ DiscJoins \/ DiscCloses \/ DiscWriteLocks
           \/ DiscTakesWriteMutex \/ DiscTakesIoMutex \/ DiscEnds
    PROVE  LinkInv'
<1> USE DEF LinkInv, LinkTypes, DiscStep, linkVars, ctxVars, lockVars, workVars, bgVars
<1>1. CASE Disconnect \/ DiscJoins \/ DiscEnds
  <2>1. ContextTypes' /\ WorkerTypes'
    BY <1>1 DEF Disconnect, DiscJoins, DiscEnds, ContextTypes, WorkerTypes
  <2>2. ConnectionTypes'
    BY <1>1 DEF Disconnect, DiscJoins, DiscEnds, ConnectionTypes
  <2>3. Locks' /\ Distinct' /\ Exclusive'
    BY <1>1 DEF Disconnect, DiscJoins, DiscEnds, Locks, Distinct, Exclusive
  <2>4. Teardown'
    BY <1>1 DEF Disconnect, DiscJoins, DiscEnds, Joined, Teardown, ConnectionTypes
  <2> QED BY <2>1, <2>2, <2>3, <2>4
<1>2. CASE DiscCloses
  <2>1. ContextTypes'
    <3>1. 0 \in 0..created
      BY SomeContext
    <3> QED BY <1>2, <3>1 DEF DiscCloses, ContextTypes
  <2>2. ConnectionTypes' /\ WorkerTypes'
    BY <1>2 DEF DiscCloses, ConnectionTypes, WorkerTypes
  <2>3. Locks' /\ Distinct' /\ Exclusive' /\ Teardown'
    BY <1>2 DEF DiscCloses, Locks, Distinct, Exclusive, Teardown
  <2> QED BY <2>1, <2>2, <2>3
<1>3. CASE DiscWriteLocks \/ DiscTakesWriteMutex
  <2>1. ContextTypes' /\ WorkerTypes'
    BY <1>3 DEF DiscWriteLocks, DiscTakesWriteMutex, ContextTypes, WorkerTypes
  <2>2. ConnectionTypes'
    BY <1>3 DEF DiscWriteLocks, DiscTakesWriteMutex, ConnectionTypes
  <2>3. Locks' /\ Distinct' /\ Exclusive' /\ Teardown'
    BY <1>3 DEF DiscWriteLocks, DiscTakesWriteMutex, Locks, Distinct, Exclusive,
                Teardown
  <2> QED BY <2>1, <2>2, <2>3
<1>4. CASE DiscTakesIoMutex
  <2>1. ContextTypes' /\ WorkerTypes'
    BY <1>4 DEF DiscTakesIoMutex, ContextTypes, WorkerTypes
  <2>2. ConnectionTypes'
    BY <1>4 DEF DiscTakesIoMutex, ConnectionTypes
  <2>3. Locks'
    BY <1>4 DEF DiscTakesIoMutex, Locks, ConnectionTypes, WorkerTypes
  <2>4. Distinct' /\ Exclusive' /\ Teardown'
    BY <1>4 DEF DiscTakesIoMutex, Distinct, Exclusive, Teardown
  <2> QED BY <2>1, <2>2, <2>3, <2>4
<1> QED BY <1>1, <1>2, <1>3, <1>4

\* With every lock in hand no operation is in progress, and each context is in
\* one slot only: the teardown destroys it once.
LEMMA DiscDestroysKeeps ==
    ASSUME LinkInv, DiscDestroys
    PROVE  LinkInv'
<1> USE DEF LinkInv, LinkTypes
<1>1. /\ disc = "io" /\ held > NumSlots /\ disc' = "finish"
      /\ ssl' = [l \in Links |-> 0]
      /\ ssl_ctx' = [l \in Links |-> 0]
      /\ socket_fd' = [l \in Links |-> 0]
      /\ active' = [s \in Slots |-> FALSE]
      /\ io_mutex' = [l \in Links |-> Nobody]
      /\ num_additional' = 0 /\ held' = 0
      /\ UNCHANGED <<state, created, readers, bg, bgSlot, pc, op, link, ctx, tried>>
    BY DEF DiscDestroys, workVars
<1>2. write_mutex' = Nobody /\ writer' = FALSE /\ additional_connecting' = FALSE
    BY DEF DiscDestroys
<1>3. \A t \in Workers : pc[t] \notin {"busy", "free"}
    BY <1>1 DEF Locks, WorkerTypes, ConnectionTypes
<1>4. \A c \in Contexts :
          destroyed'[c] = destroyed[c] + Cardinality({l \in Links : ssl_ctx[l] = c})
    BY DEF DiscDestroys
<1>5. ASSUME NEW c \in Contexts
      PROVE  destroyed'[c] \in Nat /\ destroyed'[c] <= 1
             /\ (c > created => destroyed'[c] = 0)
  <2>1. CASE \E l \in Links : ssl_ctx[l] = c
    <3>1. PICK l \in Links : ssl_ctx[l] = c
      BY <2>1
    <3>2. c \in Nat /\ c # 0 /\ c <= created
      BY <3>1, SomeContext DEF ContextTypes, Contexts
    <3>3. {k \in Links : ssl_ctx[k] = c} = {l}
      BY <3>1, <3>2 DEF Distinct
    <3>4. destroyed[c] = 0
      BY <3>1, <3>2 DEF Distinct
    <3>5. Cardinality({l}) = 1
      BY FS_Singleton
    <3>6. destroyed'[c] = 1
      BY <1>4, <3>3, <3>4, <3>5
    <3> QED BY <3>2, <3>6, SomeContext
  <2>2. CASE ~\E l \in Links : ssl_ctx[l] = c
    <3>1. {k \in Links : ssl_ctx[k] = c} = {}
      BY <2>2
    <3>2. destroyed[c] \in Nat
      BY DEF ContextTypes
    <3> QED BY <1>4, <3>1, <3>2, FS_EmptySet DEF Distinct
  <2> QED BY <2>1, <2>2
<1>6. ContextTypes'
  <2>1. destroyed' \in [Contexts -> Nat]
    BY <1>5 DEF DiscDestroys
  <2>2. 0 \in 0..created
    BY SomeContext
  <2> QED BY <1>1, <2>1, <2>2 DEF ContextTypes
<1>7. ConnectionTypes'
  <2>1. /\ active' \in [Slots -> BOOLEAN] /\ writer' \in BOOLEAN
        /\ additional_connecting' \in BOOLEAN
    BY <1>1, <1>2
  <2>2. /\ io_mutex' \in [Links -> Workers \cup {Nobody, "disc"}]
        /\ write_mutex' \in Workers \cup {Nobody, "disc"}
        /\ held' \in 0..(NumSlots + 1) /\ num_additional' \in Int
    BY <1>1, <1>2
  <2> QED BY <1>1, <2>1, <2>2 DEF ConnectionTypes
<1>8. WorkerTypes'
    BY <1>1 DEF WorkerTypes
<1>9. Locks' /\ Exclusive'
    BY <1>1, <1>3 DEF Locks, Exclusive
<1>10. Distinct'
    BY <1>1, <1>5 DEF Distinct
<1>11. Teardown'
    BY <1>1 DEF Teardown
<1> QED BY <1>6, <1>7, <1>8, <1>9, <1>10, <1>11

-----------------------------------------------------------------------------
(* The invariant, and what follows from it for every value of the constants. *)

\* Links up in the order of their slots, each with a context of its own.
LEMMA LinkInit == Init => LinkInv
<1> SUFFICES ASSUME Init PROVE LinkInv
  OBVIOUS
<1> USE DEF Init, Up, LinkInv, LinkTypes
<1>1. /\ num_additional \in 0..NumSlots
      /\ created = num_additional + 1
  OBVIOUS
<1>2. ContextTypes
  <2>1. created \in Contexts
    BY <1>1 DEF Contexts
  <2>2. ssl \in [Links -> 0..created]
    BY <1>1
  <2>3. destroyed \in [Contexts -> Nat]
    OBVIOUS
  <2> QED BY <2>1, <2>2, <2>3 DEF ContextTypes
<1>3. ConnectionTypes
  <2>1. active \in [Slots -> BOOLEAN]
    <3>1. \A s \in Slots : (s <= num_additional) \in BOOLEAN
      OBVIOUS
    <3>2. active = [s \in Slots |-> s <= num_additional]
      OBVIOUS
    <3> HIDE DEF Init, Slots
    <3> QED BY <3>1, <3>2
  <2>2. writer \in BOOLEAN /\ additional_connecting \in BOOLEAN
    OBVIOUS
  <2>3. io_mutex \in [Links -> Workers \cup {Nobody, "disc"}]
    OBVIOUS
  <2> QED BY <1>1, <2>1, <2>2, <2>3 DEF ConnectionTypes
<1>4. WorkerTypes
  BY <1>1 DEF WorkerTypes, Steps, Purposes
<1>5. Locks /\ Exclusive /\ Teardown
  BY DEF Locks, Exclusive, Teardown
<1>6. Distinct
  <2>1. \A l \in Links : ssl[l] = IF l <= num_additional THEN l + 1 ELSE 0
    OBVIOUS
  <2>2. ssl_ctx = ssl /\ \A c \in Contexts : destroyed[c] = 0
    OBVIOUS
  <2>3. \A l \in Links : ssl[l] # 0 => ssl[l] \in Contexts
    BY <1>1, <2>1 DEF Contexts
  <2> HIDE DEF Init
  <2>4. \A k, l \in Links : k # l /\ ssl[k] # 0 => ssl[k] # ssl[l]
    BY <1>1, <2>1
  <2>5. \A l \in Links : ssl_ctx[l] # 0 => destroyed[ssl_ctx[l]] = 0
    BY <2>2, <2>3
  <2> QED BY <2>2, <2>4, <2>5 DEF Distinct
<1> QED BY <1>2, <1>3, <1>4, <1>5, <1>6

\* Every step of every thread keeps the invariant.
LEMMA LinkNext == LinkInv /\ [Next]_vars => LinkInv'
<1> SUFFICES ASSUME LinkInv, [Next]_vars PROVE LinkInv'
  OBVIOUS
<1>1. ASSUME NEW t \in Workers, WorkerStep(t) PROVE LinkInv'
  <2>1. LinkTypes
    BY DEF LinkInv
  <2> QED BY <1>1, <2>1, WorkerMoves, MovesKeeps, LockKeeps, UnlockKeeps,
             RetireMarkKeeps, RetireFreeKeeps DEF WorkerStep
<1>2. ASSUME \/ SendStarts \/ SendFails \/ RecvStarts \/ KeptAlive \/ KeepAliveEnds
             \/ NoLaunch \/ CleanupEnds \/ FillStarts \/ Capture \/ PolledData
             \/ ReplyKeepAlive \/ ReadMore \/ ReadFails \/ FillEnds
             \/ \E l \in Links : KeepAlive(l)
             \/ \E s \in Slots : Cleanup(s)
      PROVE  LinkInv'
  <2>1. LinkTypes
    BY DEF LinkInv
  <2>2. \E t \in Workers : Moves(t)
    BY <1>2, <2>1, LoopMoves
  <2> QED BY <2>2, MovesKeeps
<1>3. CASE BgStep
  BY <1>3, BgKeeps, BgPublishesKeeps DEF BgStep
<1>4. CASE Disconnect \/ DiscGoesOn
  BY <1>4, DiscKeeps, DiscDestroysKeeps DEF DiscGoesOn
<1>5. CASE UNCHANGED vars
  <2>1. ContextTypes'
    BY <1>5 DEF LinkInv, LinkTypes, ContextTypes, vars, linkVars, ctxVars
  <2>2. ConnectionTypes'
    BY <1>5 DEF LinkInv, LinkTypes, ConnectionTypes, vars, linkVars, lockVars,
                bgVars, discVars
  <2>3. WorkerTypes'
    BY <1>5 DEF LinkInv, LinkTypes, WorkerTypes, vars, ctxVars, workVars
  <2>4. Locks' /\ Distinct' /\ Exclusive' /\ Teardown'
    BY <1>5 DEF LinkInv, Locks, Distinct, Exclusive, Teardown, vars, linkVars,
                ctxVars, lockVars, bgVars, workVars, discVars
  <2> QED BY <2>1, <2>2, <2>3, <2>4 DEF LinkInv, LinkTypes
<1>6. CASE Launch \/ CreateThread
  BY <1>6, LaunchKeeps
<1> QED BY <1>1, <1>2, <1>3, <1>4, <1>5, <1>6 DEF Next, SendStep, RecvGoesOn

\* The invariant of the links holds throughout.
THEOREM LinkInvariant == Spec => []LinkInv
BY LinkInit, LinkNext, PTL DEF Spec

\* Every variable keeps its type; in particular the primary link is never the
\* one that failover, cleanup or the receive path retire.
THEOREM LinksTypes == Spec => []TypeOK
<1>1. LinkInv => TypeOK
  <2> SUFFICES ASSUME LinkInv PROVE TypeOK
    OBVIOUS
  <2> USE DEF LinkInv, LinkTypes
  <2>1. \A n \in 0..created : n \in Contexts \cup {0}
    BY ContextsBelow DEF ContextTypes
  <2>2. /\ ssl \in [Links -> Contexts \cup {0}]
        /\ socket_fd \in [Links -> Contexts \cup {0}]
        /\ ssl_ctx \in [Links -> Contexts \cup {0}]
    BY <2>1 DEF ContextTypes
  <2>3. {ssl, socket_fd, ssl_ctx} \subseteq [Links -> Contexts \cup {0}]
    BY <2>2
  <2>4. {link[t] : t \in Workers} \subseteq Links
    BY DEF WorkerTypes
  <2>5. \A t \in Workers : pc[t] = "retire" => link[t] # 0
    BY DEF WorkerTypes
  <2>6. created \in Contexts /\ destroyed \in [Contexts -> Nat]
    BY DEF ContextTypes
  <2> HIDE DEF LinkInv, LinkTypes
  <2>7. ConnectionTypes
    BY DEF LinkInv, LinkTypes
  <2> QED BY <2>3, <2>4, <2>5, <2>6, <2>7 DEF TypeOK, ConnectionTypes
<1> QED BY <1>1, LinkInvariant, PTL

\* take_ssl_ctx_slot's promise ("prevents double-destroy races"): no context is
\* destroyed twice, also when a slot is filled while it is being retired.
THEOREM NoDoubleDestroy == Spec => []DestroyedOnce
<1>1. LinkInv => DestroyedOnce
  BY DEF LinkInv, Distinct, DestroyedOnce
<1> QED BY <1>1, LinkInvariant, PTL

\* The per-link lock is enough: sender and receiver never run an operation on
\* the same context at the same time.
THEOREM NoConcurrentOperation == Spec => []OneOperationPerContext
<1>1. LinkInv => OneOperationPerContext
  <2> SUFFICES ASSUME LinkInv, NEW c \in Contexts,
                      Using("send", c), Using("recv", c)
               PROVE  FALSE
    BY DEF OneOperationPerContext
  <2>1. c # 0
    BY DEF Contexts
  <2> QED BY <2>1 DEF LinkInv, Exclusive, Using
<1> QED BY <1>1, LinkInvariant, PTL

\* A teardown that has ended leaves no context alive: the background connect
\* was waited for, or has found the connection closing (softether_disconnect).
THEOREM TeardownLeavesNothing == Spec => []DisconnectedIsClean
<1>1. LinkInv => DisconnectedIsClean
  BY DEF LinkInv, Teardown, DisconnectedIsClean
<1> QED BY <1>1, LinkInvariant, PTL

-----------------------------------------------------------------------------
(* Safety of the contexts while no link takes the slot of another. *)

\* A step that moves one worker needs to be looked at only for what the worker
\* remembers.
LEMMA MovesSafe ==
    ASSUME SafeInv, NEW t \in Workers, Frame(t), Captured'
    PROVE  (Captured /\ Fresh /\ InUse)'
<1> USE DEF SafeInv, Frame, linkVars, ctxVars, bgVars
<1>1. Fresh'
    BY DEF Fresh
<1>2. InUse'
    BY DEF InUse
<1> QED BY <1>1, <1>2

\* The steps of a worker between its locked operations.
LEMMA WorkerCaptures ==
    ASSUME SafeInv, NEW t \in Workers,
           \/ Resolve(t)
           \/ TakeWriteMutex(t) \/ Candidate(t) \/ SendEnds(t)
    PROVE  Captured'
<1> USE DEF SafeInv, LinkInv, LinkTypes, WorkerTypes, Captured, Goto, ctxVars
<1>1. CASE Resolve(t)
  <2>1. UNCHANGED <<op, ctx, created>> /\ ctx[t] # 0
    BY <1>1 DEF Resolve
  <2>2. \A u \in Workers : pc'[u] = "resolve" => pc[u] = "resolve"
    BY <1>1 DEF Resolve
  <2>3. CASE UNCHANGED link
    BY <2>1, <2>2, <2>3
  <2>4. CASE ~UNCHANGED link
    <3>1. PICK l \in Links : ssl[l] = ctx[t] /\ link' = [link EXCEPT ![t] = l]
      BY <1>1, <2>4 DEF Resolve
    <3>2. created < MaxContexts => l = 0
      BY <2>1, <3>1 DEF Fresh
    <3> QED BY <2>1, <2>2, <3>1, <3>2
  <2> QED BY <2>3, <2>4
<1>2. CASE TakeWriteMutex(t)
    BY <1>2 DEF TakeWriteMutex
<1>3. CASE Candidate(t)
  <2>1. PICK l \in Links :
          /\ ssl[l] # 0
          /\ \E step \in {"lock", "resolve"} : Captures(t, l, "write", step)
    BY <1>3 DEF Candidate, Sendable
  <2>2. (created < MaxContexts => l = 0) /\ created' = created
    BY <1>3, <2>1 DEF Candidate, Fresh
  <2> QED BY <2>1, <2>2 DEF Captures
<1>4. CASE SendEnds(t)
    BY <1>4 DEF SendEnds
<1> QED BY <1>1, <1>2, <1>3, <1>4

\* The steps of the sender and of the receiver on their own.
LEMMA LoopCaptures ==
    ASSUME SafeInv,
           \/ SendStarts \/ SendFails \/ RecvStarts \/ KeptAlive \/ KeepAliveEnds
           \/ NoLaunch \/ CleanupEnds \/ FillStarts \/ Capture \/ PolledData
           \/ ReplyKeepAlive \/ ReadMore \/ ReadFails \/ FillEnds
           \/ \E l \in Links : KeepAlive(l)
           \/ \E s \in Slots : Cleanup(s)
    PROVE  Captured'
<1> USE DEF SafeInv, LinkInv, LinkTypes, WorkerTypes, Captured, Goto, ctxVars
<1>1. CASE SendStarts \/ SendFails
    BY <1>1 DEF SendStarts, SendFails
<1>2. CASE \/ RecvStarts \/ KeptAlive \/ KeepAliveEnds \/ NoLaunch \/ CleanupEnds
    BY <1>2 DEF RecvStarts, KeptAlive, KeepAliveEnds, NoLaunch, CleanupEnds, RecvStep
<1>3. CASE FillStarts \/ ReadFails
    BY <1>3 DEF FillStarts, ReadFails
<1>4. CASE FillEnds
    BY <1>4 DEF FillEnds
<1>5. CASE PolledData
    BY <1>5 DEF PolledData
<1>6. CASE ReadMore
    BY <1>6 DEF ReadMore
<1>7. CASE Capture
  <2>1. PICK l \in Links :
          /\ socket_fd[l] # 0
          /\ Captures("recv", l, "pending", "lock")
    BY <1>7 DEF Capture
  <2>2. (created < MaxContexts => l = 0) /\ created' = created
    BY <1>7, <2>1 DEF Capture, Fresh
  <2> QED BY <2>1, <2>2 DEF Captures
<1>8. CASE ReplyKeepAlive
    BY <1>8 DEF ReplyKeepAlive, Captures
<1>9. CASE \E l \in Links : KeepAlive(l)
  <2>1. PICK l \in Links : KeepAlive(l)
    BY <1>9
  <2>2. (created < MaxContexts => l = 0) /\ created' = created /\ ssl[l] # 0
    BY <2>1 DEF KeepAlive, Fresh
  <2> QED BY <2>1, <2>2 DEF KeepAlive, Captures
<1>10. CASE \E s \in Slots : Cleanup(s)
  <2>1. PICK s \in Slots : Cleanup(s)
    BY <1>10
  <2>2. ~(created < MaxContexts) /\ created' = created
    BY <2>1 DEF Cleanup, Fresh
  <2> QED BY <2>1, <2>2 DEF Cleanup
<1> QED BY <1>1, <1>2, <1>3, <1>4, <1>5, <1>6, <1>7, <1>8, <1>9, <1>10

\* The locked operations: what is destroyed is what the link's lock protects.
LEMMA LockedSafe ==
    ASSUME SafeInv, NEW t \in Workers,
           Lock(t) \/ Unlock(t) \/ RetireMark(t) \/ RetireFree(t)
    PROVE  (Captured /\ Fresh /\ InUse)'
<1> USE DEF SafeInv, LinkInv, LinkTypes, Goto, linkVars, ctxVars, bgVars
<1>0. link[t] \in Links
    BY DEF WorkerTypes
<1>1. CASE Lock(t)
  <2>1. CASE LinkIoLive(t, link[t])
    <3>1. /\ ctx' = [ctx EXCEPT ![t] = ssl[link[t]]]
          /\ (op[t] = "read" => ctx'[t] = ctx[t])
          /\ pc' = [pc EXCEPT ![t] = "busy"]
          /\ UNCHANGED <<linkVars, ctxVars, bgVars, op, link>>
      BY <1>1, <2>1 DEF Lock, LinkIoLive, WorkerTypes
    <3>2. Captured'
      BY <3>1 DEF Captured, WorkerTypes
    <3>3. InUse'
      BY <1>0, <3>1 DEF InUse, WorkerTypes
    <3> QED BY <3>1, <3>2, <3>3 DEF Fresh
  <2>2. CASE ~LinkIoLive(t, link[t])
    <3>1. pc' = [pc EXCEPT ![t] = "failed"]
          /\ UNCHANGED <<linkVars, ctxVars, bgVars, op, link, ctx>>
      BY <1>1, <2>2 DEF Lock
    <3> QED BY <3>1 DEF Captured, Fresh, InUse, WorkerTypes
  <2> QED BY <2>1, <2>2
<1>2. CASE Unlock(t)
  <2>1. PICK to \in {"ok", "failed"} : pc' = [pc EXCEPT ![t] = to]
    BY <1>2 DEF Unlock
  <2>2. UNCHANGED <<linkVars, ctxVars, bgVars, op, link, ctx>>
    BY <1>2 DEF Unlock
  <2> QED BY <2>1, <2>2 DEF Captured, Fresh, InUse, WorkerTypes
<1>3. CASE RetireMark(t)
  <2>1. UNCHANGED <<ssl_ctx, ctxVars, bgVars, op, link, ctx>>
    BY <1>3 DEF RetireMark
  <2>2. pc[t] = "retire" /\ link[t] # 0 /\ link[t] \in Slots
    BY <1>0, <1>3 DEF RetireMark, WorkerTypes
  <2>3. CASE MayRetire(t)
    <3>1. /\ ssl' = [ssl EXCEPT ![link[t]] = 0]
          /\ pc' = [pc EXCEPT ![t] = "free"]
      BY <1>3, <2>3 DEF RetireMark
    <3>2. ~(created < MaxContexts)
      BY <2>2 DEF Captured
    <3>3. Captured' /\ Fresh'
      BY <2>1, <3>1, <3>2 DEF Captured, Fresh, WorkerTypes
    <3>4. \A l \in Links : ssl'[l] = IF l = link[t] THEN 0 ELSE ssl[l]
      BY <3>1 DEF ContextTypes
    <3>5. InUse'
      BY <1>0, <2>1, <2>2, <3>1, <3>4 DEF InUse, WorkerTypes
    <3> QED BY <3>3, <3>5
  <2>4. CASE ~MayRetire(t)
    <3>1. PICK to \in {"candidates", "cleanup", "leave"} : pc' = [pc EXCEPT ![t] = to]
      BY <1>3, <2>4 DEF RetireMark, AfterRetire
    <3>2. UNCHANGED linkVars
      BY <1>3, <2>4 DEF RetireMark
    <3> QED BY <2>1, <3>1, <3>2 DEF Captured, Fresh, InUse, WorkerTypes
  <2> QED BY <2>3, <2>4
<1>4. CASE RetireFree(t)
  <2>1. /\ pc[t] = "free"
        /\ ssl_ctx' = [ssl_ctx EXCEPT ![link[t]] = 0]
        /\ UNCHANGED <<ssl, socket_fd, active, created, bgVars, op, link, ctx>>
    BY <1>4 DEF RetireFree
  <2>2. PICK to \in {"candidates", "cleanup", "leave"} : pc' = [pc EXCEPT ![t] = to]
    BY <1>4 DEF RetireFree, AfterRetire
  <2>3. Captured' /\ Fresh'
    BY <2>1, <2>2 DEF Captured, Fresh, WorkerTypes
  <2>4. \A l \in Links : ssl_ctx'[l] = IF l = link[t] THEN 0 ELSE ssl_ctx[l]
    BY <2>1 DEF ContextTypes
  <2>5. \A u \in Workers \ {t} : pc[u] = "busy" => link[u] # link[t] /\ link[u] \in Links
    BY <2>1 DEF Locks, WorkerTypes
  <2>6. ssl[link[t]] = 0
    BY <2>1 DEF InUse
  <2>7. pc'[t] \notin {"busy", "free"} /\ \A u \in Workers \ {t} : pc'[u] = pc[u]
    BY <2>2 DEF WorkerTypes
  <2>8. UNCHANGED <<ssl, link, ctx>>
    BY <2>1
  <2>9. InUse'
    BY <2>4, <2>5, <2>6, <2>7, <2>8 DEF InUse
  <2> QED BY <2>3, <2>9
<1> QED BY <1>1, <1>2, <1>3, <1>4

\* The background connect: the one context it may create goes to a slot that
\* nobody has worked on yet.
LEMMA BackgroundSafe ==
    ASSUME MaxContexts <= 2, SafeInv, Launch \/ CreateThread \/ BgStep
    PROVE  (Captured /\ Fresh /\ InUse)'
<1> USE DEF SafeInv, LinkInv, LinkTypes, Goto, BgVarsOnly, linkVars, ctxVars, workVars
<1>1. CASE Launch \/ CreateThread
  <2>1. UNCHANGED <<linkVars, ctxVars, op, link, ctx>>
    BY <1>1 DEF Launch, CreateThread
  <2>2. bg' # "published" \/ bg' = bg
    BY <1>1 DEF Launch, CreateThread
  <2>3. PICK to \in {"create", "cleanup"} : pc' = [pc EXCEPT !["recv"] = to]
    BY <1>1 DEF Launch, CreateThread
  <2> QED BY <2>1, <2>2, <2>3 DEF Captured, Fresh, InUse, WorkerTypes
<1>2. CASE BgStarts \/ BgFails \/ BgReturns
  <2>1. UNCHANGED <<linkVars, ctxVars, workVars>> /\ bg' # "published"
    BY <1>2 DEF BgStarts, BgFails, BgReturns
  <2> QED BY <2>1 DEF Captured, Fresh, InUse
<1>3. CASE BgActivates
  <2>1. UNCHANGED <<ssl, socket_fd, ssl_ctx, ctxVars, workVars>>
    BY <1>3 DEF BgActivates
  <2>2. ~(created < MaxContexts)
    BY <1>3 DEF BgActivates, Fresh
  <2> QED BY <2>1, <2>2 DEF Captured, Fresh, InUse
<1>4. CASE BgPublishes
  <2>1. /\ created < MaxContexts /\ created' = created + 1
        /\ ssl_ctx' = [ssl_ctx EXCEPT ![bgSlot] = created + 1]
        /\ ssl' = [ssl EXCEPT ![bgSlot] = created + 1]
        /\ UNCHANGED workVars
    BY <1>4 DEF BgPublishes
  <2>2. bgSlot \in Links /\ bgSlot # 0
    BY <1>4 DEF BgPublishes, ConnectionTypes
  <2>3. ~(created' < MaxContexts)
    BY <2>1, SomeContext
  <2>4. \A t \in Workers : link[t] = 0 /\ pc[t] # "free"
    BY <2>1 DEF Captured, WorkerTypes
  <2>5. \A l \in Links :
          /\ ssl'[l] = IF l = bgSlot THEN created + 1 ELSE ssl[l]
          /\ ssl_ctx'[l] = IF l = bgSlot THEN created + 1 ELSE ssl_ctx[l]
    BY <2>1, <2>2 DEF ContextTypes
  <2>6. Captured' /\ Fresh'
    BY <2>1, <2>3 DEF Captured, Fresh
  <2>7. InUse'
    BY <2>1, <2>2, <2>4, <2>5 DEF InUse
  <2> QED BY <2>6, <2>7
<1> QED BY <1>1, <1>2, <1>3, <1>4 DEF BgStep

\* The teardown.
LEMMA TeardownSafe ==
    ASSUME SafeInv, Disconnect \/ DiscGoesOn
    PROVE  (Captured /\ Fresh /\ InUse)'
<1> USE DEF SafeInv, LinkInv, LinkTypes, DiscStep, linkVars, ctxVars, workVars, bgVars
<1>1. CASE \/ Disconnect \/ DiscJoins \/ DiscWriteLocks \/ DiscTakesWriteMutex
           \/ DiscTakesIoMutex \/ DiscEnds
  <2>1. UNCHANGED <<linkVars, ctxVars, workVars, bg>>
    BY <1>1 DEF Disconnect, DiscJoins, DiscWriteLocks, DiscTakesWriteMutex,
                DiscTakesIoMutex, DiscEnds
  <2> QED BY <2>1 DEF Captured, Fresh, InUse
<1>2. CASE DiscCloses
  <2>1. /\ socket_fd' = [socket_fd EXCEPT ![0] = 0]
        /\ UNCHANGED <<ssl, ssl_ctx, active, ctxVars, workVars, bg>>
    BY <1>2 DEF DiscCloses
  <2>2. \A s \in Slots : socket_fd'[s] = socket_fd[s]
    BY <2>1 DEF ContextTypes
  <2> QED BY <2>1, <2>2 DEF Captured, Fresh, InUse
<1>3. CASE DiscDestroys
  <2>1. /\ ssl' = [l \in Links |-> 0] /\ socket_fd' = [l \in Links |-> 0]
        /\ active' = [s \in Slots |-> FALSE]
        /\ UNCHANGED <<created, bg, workVars>>
    BY <1>3 DEF DiscDestroys
  <2>2. \A t \in Workers : pc[t] \notin {"busy", "free"}
    BY <1>3 DEF DiscDestroys, Locks, WorkerTypes, ConnectionTypes
  <2>3. Captured' /\ Fresh'
    BY <2>1 DEF Captured, Fresh
  <2>4. InUse'
    BY <2>1, <2>2 DEF InUse
  <2> QED BY <2>3, <2>4
<1> QED BY <1>1, <1>2, <1>3 DEF DiscGoesOn

\* Every step keeps the contexts safe.
LEMMA SafeNext ==
    ASSUME MaxContexts <= 2
    PROVE  SafeInv /\ [Next]_vars => SafeInv'
<1> SUFFICES ASSUME SafeInv, [Next]_vars PROVE SafeInv'
  OBVIOUS
<1>1. LinkInv' /\ LinkTypes
  BY LinkNext DEF SafeInv, LinkInv
<1>2. ASSUME NEW t \in Workers, WorkerStep(t) PROVE (Captured /\ Fresh /\ InUse)'
  <2>1. CASE Lock(t) \/ Unlock(t) \/ RetireMark(t) \/ RetireFree(t)
    BY <2>1, LockedSafe
  <2>2. CASE Resolve(t) \/ TakeWriteMutex(t) \/ Candidate(t) \/ SendEnds(t)
    BY <1>1, <2>2, WorkerMoves, WorkerCaptures, MovesSafe DEF Moves
  <2> QED BY <1>2, <2>1, <2>2 DEF WorkerStep
<1>3. ASSUME \/ SendStarts \/ SendFails \/ RecvStarts \/ KeptAlive \/ KeepAliveEnds
             \/ NoLaunch \/ CleanupEnds \/ FillStarts \/ Capture \/ PolledData
             \/ ReplyKeepAlive \/ ReadMore \/ ReadFails \/ FillEnds
             \/ \E l \in Links : KeepAlive(l)
             \/ \E s \in Slots : Cleanup(s)
      PROVE  (Captured /\ Fresh /\ InUse)'
  <2>1. \E t \in Workers : Moves(t)
    BY <1>1, <1>3, LoopMoves
  <2>2. Captured'
    BY <1>3, LoopCaptures
  <2> QED BY <2>1, <2>2, MovesSafe DEF Moves
<1>4. ASSUME Launch \/ CreateThread \/ BgStep PROVE (Captured /\ Fresh /\ InUse)'
  BY <1>4, BackgroundSafe
<1>5. ASSUME Disconnect \/ DiscGoesOn PROVE (Captured /\ Fresh /\ InUse)'
  BY <1>5, TeardownSafe
<1>6. ASSUME UNCHANGED vars PROVE (Captured /\ Fresh /\ InUse)'
  BY <1>6 DEF SafeInv, Captured, Fresh, InUse, vars, linkVars, ctxVars, bgVars, workVars
<1>7. (Captured /\ Fresh /\ InUse)'
  BY <1>2, <1>3, <1>4, <1>5, <1>6 DEF Next, SendStep, RecvGoesOn
<1> QED BY <1>1, <1>7 DEF SafeInv

\* At the start the contexts are safe: a context can be created only if no
\* additional link is up.
LEMMA SafeInit ==
    ASSUME MaxContexts <= 2
    PROVE  Init => SafeInv
<1> SUFFICES ASSUME Init PROVE SafeInv
  OBVIOUS
<1> USE DEF Init, Up
<1>1. num_additional \in 0..NumSlots /\ created = num_additional + 1
  OBVIOUS
<1>2. Captured
  BY DEF Captured
<1>3. Fresh
  <2> SUFFICES ASSUME created < MaxContexts, NEW s \in Slots
               PROVE  ssl[s] = 0 /\ socket_fd[s] = 0 /\ ~active[s]
    BY DEF Fresh
  <2>1. num_additional = 0
    BY <1>1
  <2>2. ssl[s] = 0 /\ socket_fd = ssl
    BY <2>1
  <2>3. ~active[s]
    <3>1. active[s] = (s <= num_additional)
      OBVIOUS
    <3>2. ~(s <= num_additional)
      BY <2>1
    <3> QED BY <3>1, <3>2
  <2> QED BY <2>2, <2>3
<1>4. InUse
  BY DEF InUse
<1> QED BY <1>2, <1>3, <1>4, LinkInit DEF SafeInv

\* As long as no link takes the slot of another one that was retired, no SSL
\* operation runs on a destroyed context, none is destroyed twice and no two
\* operations share one, whatever the interleaving of sender, receiver,
\* background connect and teardown.  MaxContexts <= 2 says just that: links
\* that are up at the start are only retired, or one link is added once; with
\* one more context the run link_slot_reuse refutes it.
THEOREM ContextsStaySafe ==
    ASSUME MaxContexts <= 2
    PROVE  Spec => []ContextsAreSafe
<1>1. Init => SafeInv
  BY SafeInit
<1>2. SafeInv /\ [Next]_vars => SafeInv'
  BY SafeNext
<1>3. SafeInv => NoUseAfterFree
  <2> SUFFICES ASSUME SafeInv, NEW t \in Workers, NEW c \in Contexts, Using(t, c)
               PROVE  destroyed[c] = 0
    BY DEF NoUseAfterFree
  <2>1. c # 0 /\ link[t] \in Links
    BY DEF Contexts, SafeInv, LinkInv, LinkTypes, WorkerTypes
  <2>2. ssl_ctx[link[t]] = c
    BY <2>1 DEF SafeInv, InUse, Using
  <2> QED BY <2>1, <2>2 DEF SafeInv, LinkInv, Distinct
<1>4. Spec => []NoUseAfterFree
  <2> HIDE DEF SafeInv
  <2> QED BY <1>1, <1>2, <1>3, PTL DEF Spec
<1> QED BY <1>4, LinksTypes, NoDoubleDestroy, NoConcurrentOperation, PTL DEF ContextsAreSafe

=============================================================================
