# TLA+ specifications of the SoftEther client

This directory models how the VPN Gate Android client brings a SoftEther tunnel up,
shares it between threads and takes it down. In Kotlin: the service, its connection
controller, and the classes that arbitrate native memory, the process-wide native slot
and the TUN descriptor. In C: the stages of connect, the transport race, the links of
a connection, the reliable UDP transport, UDP acceleration, NAT traversal, the receive
queue and DHCP. TLC checks the modules on small instances. TLAPS proves the safety
properties the runs check for every value of the constants, under the assumptions
section 4 names. `PROJECT.json` links every definition to the source lines it models.

Kotlin paths below are relative to
`src/SoftEtherClient/src/main/java/vn/unlimit/softether/`, C paths to
`src/SoftEtherClient/src/main/cpp/softether-core/src/`, unless they start with `src/`.

## 1. Inventory

| Component | State it keeps | Operations | What makes it hard |
|---|---|---|---|
| `NativeLifetimeRegistry` | owner of the one native slot, its phase, two time stamps | tryAcquire, mark*, confirmTeardown, forced releases | old leases keep calling; soft bounds measured from stamps that survive a release |
| `controller/NativeHandleSlot` | published handle, destroy in flight, loss | publish, claimHandle, settle* | two families of destroyers; bounded wait on the other one |
| `controller/NativeAttemptCoordinator` | terminal flag, active flow, cleanup owner | beginFlow, Flow.exit, requestTeardown | a teardown that times out must hand the cleanup to a flow that is exiting |
| `controller/ConnectionController` | state, cancel flag, retry counter, jobs | connect, automatic reconnect, destroyResources | native calls that block for minutes and cannot be interrupted reliably |
| `TunOwnershipCoordinator` | installer, descriptor owner, descriptor | claim, invalidate, install, release, releaseAll | late installers, stale stops |
| `SoftEtherSessionPolicy` | generation, running, stopping | session start, start and teardown decisions | no lock; called from several threads |
| `SoftEtherVpnService` | `connectionJob`, `controller`, connecting stamp | startVpn, stopVpn, onDestroy, connect coroutine, error callbacks | fields cleared synchronously, native side destroyed asynchronously |
| connect (`proto/softether_protocol.c`) | socket, TLS context, transport, state, abort flag | TCP, TLS, race, NAT-T, login, setup, disconnect, destroy, force close | stages fall back on one another; cancel from another thread |
| transport race (same file) | control block shared by the workers | claim, publish, revoke, join, adopt | lock-free publication against a deadline |
| links (same file, `packet/packet_handler.c`) | primary and additional TLS links | send, receive, failover, clean-up, background connect, teardown | pointers captured under one lock and used under another |
| R-UDP transport (`proto/rudp_transport.c`) | windows, queues, worker thread, socket pair | connect, send, receive, acknowledge, retransmit, destroy | loss, duplication, reordering; worker against owner |
| UDP acceleration (`proto/softether_rudp.c`) | reference count, send window, suspension, path ticks | poll, send, recv, destroy | calls against the free; stale judgement of the path |
| DHCP (`net/dhcp_client.c`) | attempt, lease under construction | discover, request, resolve gateway | one transaction id for all attempts, several servers, cancel |
| receive queue (`packet/packet_handler.c`) | ring of frames, position in a link's stream | fill, raw read, batched read | messages longer than the ring, reads failing inside a message |
| NAT-T client (`proto/softether_nat_t.c`) | requests sent, cookie, deadline | rendezvous with a relay | cookie learned late, doubling interval, cancel |
| PACK, serializer, crypto, sockets | none between calls | | encodings and system calls |
| Auto mode (`src/app/.../automode`) | candidate list, attempt in progress, teardown waiter | engine and adapter steps, watcher, watchdog | callbacks of earlier attempts, timeouts |
| Server list (`src/app/.../repository`) | datasets, persisted snapshots | refresh, import, purge | concurrent refreshes, crash between write and rename |
| Pin store, parsers, merger, ranking, UI, scripts | files or none | see `PROJECT.json` | mostly pure functions or I/O |

How they interact: Android calls `startVpn`, `stopVpn` (through `onStartCommand`) and
`onDestroy` on the main thread. `startVpn` asks the policy and the registry, claims the
TUN coordinator for the new session and launches the connect coroutine, which
constructs a `ConnectionController` and calls `connect()`. The controller runs native
calls inside *flows* registered with its `NativeAttemptCoordinator`, keeps its handle in
a `NativeHandleSlot`, installs the TUN through the service, and reports errors by a
callback that may call `stopVpn` from a background thread. `stopVpn` clears the fields
at once and leaves `destroyResources` to a coroutine, whose result is broadcast to
whoever waits for the teardown. The registry is the only state that outlives a service.

Below JNI, `nativeConnect` runs `softether_connect` under `connect_mutex`: TCP and TLS, or
for a server without a TCP port at once, the race of the UDP transports, each of which may be an R-UDP
transport with its own worker thread; a failed login may fall back to NAT-T. The
winner's descriptor becomes the primary link. `nativeDoDhcp` then runs over that link.
During the session a sender and a receiver thread use the links, open additional ones in
the background and may move data to UDP acceleration, while `nativeForceClose`,
`nativeDisconnect` and `nativeDestroy` arrive from other threads.

## 2. Modules

| Module | Models | State and actions |
|---|---|---|
| `NativeLifetimeRegistry` | the registry | one action per locked method, a clock, ghost variables for the properties |
| `NativeLifetimeRegistry_proofs` | | theorems |
| `NativeHandleSlot`, `NativeAttemptCoordinator` | the two classes | action fragments, one per lock section |
| `ConnectionController` | one attempt | EXTENDS both; processes: connect, reconnect, any set of destroyResources callers |
| `AttemptLifetime` | abstract promise of an attempt | what the controller is shown to implement |
| `ConnectionController_proofs` | | theorems: ownership of handles, types, cleanup, the refinement |
| `MCConnectionController` | | symmetry of the callers |
| `TunOwnershipCoordinator` | the TUN arbiter and its most general client | one action per locked method |
| `TunOwnershipCoordinator_proofs` | | theorems |
| `SoftEtherSessionPolicy` | the policy | action fragments and decisions |
| `SoftEtherVpnService` | the service | EXTENDS the policy, INSTANCEs the TUN coordinator; main thread, connect and reconnect coroutine per session, teardown coroutines |
| `SoftEtherVpnService_proofs` | | theorems; INSTANCEs `TunOwnershipCoordinator_proofs` |
| `SoftEtherConnect` | `softether_connect` and who may interfere | one action per stage of the connect thread, plus force close, disconnect, reconnect, destroy |
| `TransportRace` | the parallel race | worker: connect, claim, index, payload, publish; parent: launch, wait, revoke, recheck, join, adopt |
| `SoftEtherLinks` | links of a connected session | sender, receiver, background connect, teardown; lifetime, write and per-link I/O locks |
| `SoftEtherLinks_proofs` | | theorems |
| `RudpSession` | one worker pass as operators | FIFOs, send window, acks, receive buffer |
| `RudpStream` | a session and a lossy network | EXTENDS `RudpSession`; worker, application, server, network |
| `RudpStream_proofs` | | theorems about `RudpStream` and `ReceiveQueue` |
| `RudpTransport` | how a session begins and ends | owner, worker, application, a cancelling competitor |
| `RudpLifetime` | reference count of the UDP acceleration context | calls by path (send, fill, jni, arp, stats) against disconnects |
| `RudpSendBudget` | send window, suspension, backoff | sender and receive thread, a clock in ticks |
| `RudpReception` | keepalive and judgement of the path | poll, send, a peer and a network that loses, delays and repeats |
| `DhcpClient` | one `nativeDoDhcp` call | client, DHCP servers, other traffic, cancel |
| `NatTraversal` | one rendezvous with a NAT-T relay | client loop, relay, network, cancelling race |
| `ReceiveQueue` | the ring between links and TUN | fill (UDP, one message of one link), raw and batched reads, server |
| `MCRudpStream` | | loads of the stream; sum of `RudpStream` and `ReceiveQueue` |
| `MCNativeConnect` | | sum of `SoftEtherConnect`, `TransportRace`, `RudpTransport`, `NatTraversal` and `DhcpClient` |
| `MCNativeConnect_proofs` | | theorems about the five |
| `MCUdpAcceleration` | | sum of `RudpLifetime`, `RudpSendBudget`, `RudpReception` |
| `MCUdpAcceleration_proofs` | | theorems about the three |

Names are the source's where TLA+ allows. Operators marked "Mutant" are plausible bugs;
nothing in `Next` uses them. They exist so that each property can be seen to fail.

### Granularity

A step is a lock section, a native call entered or left, or a run of statements between
which no other thread looks. Reads that are separated from the write they guard
stay separate: the session check of `onError` and `stopVpn`, `isCurrentSession` and
`onRunning`, the four parts of `stopVpn` (invalidate, decide, take the controller,
release the TUN). Clearing the wedged attempt is one step: every field it clears is only
read as a group by the same thread.

### The controller

`using[t]` is the handle a native call of thread `t` works on, so "freed while in use" is a
state. A handle value is never reused. `destroyed` stands for `isDestroyed` and
`teardownRequested`, which are set together. `inFlow` is the set of open exit latches.
The registry appears as this attempt's lease: held, released by the attempt, or forced
away when a soft bound applies. A destroy that throws may or may not have freed.
`currentState` values between DISCONNECTED and CONNECTED are one value, since no
decision distinguishes them. The "max reconnection attempts reached" branch of
`attemptReconnect` has no action: with `MAX_RECONNECT_ATTEMPTS = 2` and the counter
reset by every success and every failure it starts from 0 each time, so the branch
cannot be reached. `disconnect()` and `reconnect()` have no caller and no action.

`TailOutlastsDelay = FALSE` assumes that the few statements between
`startDataForwarding` and the exit of the connect flow finish within the reconnect's
`RECONNECT_DELAY_MS`. The assumption is needed: with `TRUE` two flows are registered at
once, `activeFlow` remembers the second only, and TLC violates `FlowsUseLiveHandles`.

### The native core

*Sums.* `MCRudpStream`, `MCNativeConnect` and `MCUdpAcceleration` put components that share no
state in one run: a variable `part` chooses one, the others keep their initial state, so
the state spaces add up. They say nothing about the components together. Where
one calls another (connect runs the race, the race connects an R-UDP transport) the
caller's module has the outcome as a choice. The constants of the parts are those of the sum,
so that its theorems are about every value of them; what is fixed in an INSTANCE is a limit
of the code (three doublings of a suspension) or the kind of environment.

*Connect.* Every stage may fail; a force close sets `abort_connect` at any moment. `lost`
collects what a new pointer overwrote. `OwnerWaits = TRUE` is what the Kotlin layer
guarantees (run `controller`): a handle is not destroyed under a running connect.
`udp_only` is set before connect and not changed afterwards.

*Race.* The claim is one atomic exchange, the three stores of a publication are three steps.
The parent's wait ends at a publication or at the deadline, whenever that is.

*Links.* A context is a number; `ssl`, `socket_fd` and `ssl_ctx` name it per link, as the code
does. Reading a pointer, locking and using are separate steps. One step is a call of the TLS library.

*R-UDP.* A unit stands for a run of bytes, a FIFO for the sequence of its units. One datagram
handled and one `rt_interrupt` pass are one step each, since the session belongs to the
worker. Retransmission and keepalive timers may fire at any pass. A load bounds one
direction: three segments of the server against a receive FIFO of one, or three units
of the application through a window of two.

*UDP acceleration.* `RudpLifetime` keeps every atomic load, store and compare-and-swap of
`rudp_ref_acquire` and `rudp_ref_release` a step. The clocks of the two other modules are ages,
so that time is unbounded in `RudpSendBudget`; `RudpReception` bounds its clock.

*NAT-T.* Time is counted in the first retry interval. A reply is the class the parser puts it
in, a request is the cookie it carries; the relay hands out its cookie before it answers. The
prompt instance loses nothing and shows that the backoff leaves room for the request with
the cookie; in the other one replies are lost, repeated and late.

*Receive queue.* One thread fills and reads, so the hazards are in the sequence of calls: a
message longer than the queue, a batch shorter than it, a read that fails inside a message.
The model tells each block's fate. A primary stream out of step yields any
frame or an error. `NoGarbage` excepts a read that failed during DHCP or gateway resolution, because
both ignore -1 and go on reading the same stream.

*DHCP.* Two of the three environments, `quiet` and `busy`, share an instance: in the former no
traffic but DHCP and ARP arrives (`Quiet`). An address is represented by the server that handed it out, so that a mixed
configuration is a state. A wait counts idle polls, as the code does, not time.

### The service

A session's controller is reduced to what `ConnectionController` establishes: native
side none, in native code, or up; destroyed; confirmed. A destroy that throws is not
modelled here: what it does to handle and lease is in `ConnectionController`. Sessions and leases share numbers because the
slot is acquired immediately before the session starts. Assumptions, all about time:
a launched coroutine reaches `connect()` within the 30 s bound of the wedged-attempt
check, and no soft bound elapses between two statements of `startVpn`. One service
instance is modelled; after `onDestroy` its coroutines run on and nothing starts.

## 3. Runs

| Run | Instance | Shows |
|---|---|---|
| `registry` | 3 attempts, clock to 9, bounds 3 and 2 | exactly-once release, stamps, soft bounds |
| `controller` | 2 callers, 3 handles | memory safety of the native handle, truth of outcomes, refinement of `AttemptLifetime` |
| `controller_live` | 1 caller, 2 handles, fairness | callers return, teardowns are decided |
| `tun` | 3 sessions, 4 descriptors | no leak, no stranded descriptor, no late establishment |
| `service` | 2 sessions, 2 descriptors, 2 stops | the composition |
| `links` | 2 slots; none established and one background connect, or both established | contexts are used, one operation at a time, only while alive; teardown completes and leaves nothing |
| `rudp_stream` | window 2, FIFO 1, 3 units each way; a queue of 2, batches of 1, messages up to 3 blocks of every kind, one additional link and UDP | streams intact, acknowledgements true, frames delivered in order or counted as dropped |
| `native_connect` | 2 connects per object; 4 transports; a relay with and without losses; 2 DHCP servers, 3 attempts | complete or released, one adopted winner, true results, one server's lease, every wait ends |
| `udp_acceleration` | 2 callers, 2 disconnects; backoff to factor 8; clock to 5, 2 datagrams | reference count, send budget, judgement of the path |
| `stale_error` | as `service` | a comment of the service the code contradicts |
| `link_slot_reuse` | 2 slots, 1 established, 3 contexts | a slot is filled while it is being retired |
| `rudp_reorder` | as `rudp_stream` | reordered segments are acknowledged and never delivered |

Why the bounds are enough. Registry: three attempts are an owner, its displaced
predecessor and a successor; the clock passes both bounds more than once. Controller:
a teardown caller is the cleanup owner, waits for another owner, or times out, and two
callers hold any two of these roles; three handles cover a failed attempt, its retry and
a reconnect. TUN: three sessions give a current, a revoked and a forgotten one; the
theorems remove the bound. Service: every property relates a session to its successor;
a stop for each, plus the teardown of `onDestroy`, may be in progress together.
Links: sender and receiver meet on the same link, on different ones, and with failover
from one to another. Stream: the window and both FIFOs are full at times, and
a segment may arrive after its successor and after its own copy. Connect: what a failed connect
leaves is met by a second one. Race: four is the number of transports the code has.
NAT-T: three requests fit before the deadline, and a reply may come after any of them.
Queue: a message is longer than the ring, the indexes wrap, and a batch leaves frames behind.
Reference count: the acquire of one call interleaves with the last release of another
and with a second disconnect. Budget: the suspension reaches its limit and stays there.
Reception: the clock exceeds timeout plus window, so a path can go silent, or one-way, and recover.

Deadlock checking is off in every run: a session that ended, a clock at its bound or an
attempt that is torn down have nothing left to do, as in the program.

### Disagreements between code and comments

Three have a run, quoted with the comment they contradict in `PROJECT.json`:

- `stale_error`: a new session that starts between the error callback's check and
  `stopVpn` is stopped by the old session's error.
- `link_slot_reuse`: `softether_additional_connect` fills the slot it found inactive without
  its I/O lock, while clean-up or failover has not yet taken the old context out; the new
  context is destroyed and stays in use.
- `rudp_reorder`: the drain loop looks only at the first entry of the reorder buffer, which is
  in order of arrival. Segments that arrive as 2, 1 are both acknowledged and never drained.

The others have a configuration which TLC refutes in seconds. Where a configuration
lists several properties TLC stops at the first it refutes: keep only the line of the one to see.

| Configuration, module | Property | What happens |
|---|---|---|
| `ControllerDisagreements`, `MCConnectionController` | `InterruptsReachLiveHandles` | teardown interrupts a handle the flow's own failure path has freed ("safe to call while a connect is executing", `NativeAttemptCoordinator.kt:81`) |
| `ControllerDisagreements`, `MCConnectionController` | `NothingCreatedAfterLoss` | connect's retry creates a connection after a loss on record ("checks isLost before creating one", `ConnectionController.kt:195`) |
| `ControllerDisagreements`, `MCConnectionController` | `LossKeepsLease` | a soft bound hands on the slot of an attempt whose handle is lost ("stays held for the rest of the process", `NativeAttemptCoordinator.kt:375`) |
| `ServiceDisagreements`, `SoftEtherVpnService` | `SlotHasReleaser` | a connect job cancelled before its dispatch never releases the slot (`SoftEtherVpnService.kt:1002`) |
| `ServiceDisagreements`, `SoftEtherVpnService` | `CancelClearsOwnController` | the cancellation path clears a newer session's controller (`SoftEtherVpnService.kt:958`) |
| `LinkDisagreements`, `SoftEtherLinks` | `NumAdditionalCountsActive` | a link that fails for sender and receiver is counted off twice (`softether_protocol.h:255`) |
| `LinkDisagreements`, `SoftEtherLinks` | `RetiresFailedLink` | the receive path closes the link that replaced the failed one (`packet_handler.c:1119`) |
| `ConnectDisagreements`, `SoftEtherConnect` | `FailedConnectIsClean` | the race wins in state DISCONNECTED, in which the later disconnect does nothing (`softether_protocol.c:1171`) |
| `ConnectDisagreements`, `SoftEtherConnect` | `NoStageAfterCancel` | a cancelled login begins the NAT-T stage (`softether_protocol.c:1159`) |
| `ConnectDestroy`, `SoftEtherConnect` | `DestroyWaitsForConnect` | without the Kotlin layer's order, destroy does not wait for a connect in its fallback stage (`softether_protocol.c:1153`) |
| `RaceJoin`, `TransportRace` | `JoinIsBounded` | the poll tests a pointer, not the flag: the "BOUNDED join" blocks (`softether_protocol.c:2705`) |
| `RudpFifoLoss`, `MCRudpStream` | `UpstreamIsPrefix` | a read that does not fit the send FIFO is dropped (`rudp_transport.h:20`) |
| `RudpSmallPacket`, `RudpTransport` | `LearnsPortFromSmallPackets` | the branch for short datagrams is dead (`rudp_transport.c:560`) |
| `RudpCancel`, `RudpTransport` | `CancelReturnsEarly` | a blocked connect does not notice the cancel flag (`rudp_transport.h:76`) |
| `RudpArpReply`, `RudpLifetime` | `NoUseAfterFree` | `softether_send_data` uses `conn->rudp` under no lock (`softether_rudp.c:113`); with `Paths = {"stats"}` the same for `rudp_get_stats` |
| `RudpLossWindow`, `RudpSendBudget` | `LossShrinksWindow` | a loss raises a drained window to its floor (`softether_rudp.c:583`) |
| `RudpTickGap`, `RudpReception` | `GapMeansUnseen` | a late datagram makes the next one look like a loss (`softether_rudp.c:747`) |
| `DhcpTwoServers`, `DhcpClient` | `PromptServerLeases` | a second server's replies use up the attempts (`dhcp_client.c:4`) |
| `DhcpBusyTunnel`, `DhcpClient` | `WaitHasTimeout` | other traffic stops the wait's clock (`dhcp_client.c:329`) |

### Fairness

`FairSpec` of the controller gives weak fairness to each thread's own steps: a
runnable coroutine or thread is scheduled, bounded waits (`awaitExit`, `cleanupDone`,
`claimHandle`) expire. `nativeDestroy` is assumed to return or throw. Native
connect and DHCP get no fairness: they may block for ever, which is exactly the device
behaviour the soft bounds were written for, so `TeardownIsDecided` excepts a flow that
never leaves them. Nothing forces a teardown, a reconnect or a forced release.

Native threads likewise take the steps they can take. Each wait of the connect thread has a
timeout of its own (poll, `SO_RCVTIMEO`, the R-UDP session timer), which justifies weak
fairness of `ConnectStep`, of the race's workers and parent, and of the R-UDP timer; a
worker whose handshake hangs beyond its timeouts is outside `EveryWaitEnds` (see `RaceJoin`).
Links: the threads and the teardown are weakly fair; the write side of the lifetime lock is
not starved by readers for ever, since readers stop once the state is DISCONNECTING. DHCP: only the client
is fair, nothing is assumed of servers and network. Backoff: time passes and the tunnel keeps sending.
NAT-T: the steps that take the loop on are fair; its inner drain loop looks at neither clock nor
flag, so the assumption is that the network does not copy replies for ever.

## 4. Proofs

Every proof module has the same plan: an inductive invariant, one lemma per action or
group of actions, `[Next]_vars` assembled from them, then `PTL`. The invariants are
conjunctions of named parts.

| Module | For every | Assumption | Theorems |
|---|---|---|---|
| `NativeLifetimeRegistry_proofs` | attempts, clock, bounds | `BoundsAssumption` (bounds are positive) | `TypeCorrect`, `ExactlyOnceRelease`, `OwnersHaveOwnStamps`, `TeardownBoundIsReached`, `FailClosedAdmission` |
| `TunOwnershipCoordinator_proofs` | sessions, descriptors | `TunAssumption` | `TypeCorrect`, `DescriptorsNeverLeak`, `DescriptorsStayReleasable`, `EstablishmentIsPermitted` |
| `ConnectionController_proofs` | callers, handles, `TailOutlastsDelay` | `ControllerAssumption` | `SingleDestroyer`, `SlotHoldsLiveHandle`, `ControllerTypes` |
| the same | callers, handles | the same, and `~TailOutlastsDelay` | `FlowsStaySafe`, `ReleaseIsFinal`, `ConfirmationIsTrue`, `NothingForgotten`, `ControllerImplementsLifetime` |
| `SoftEtherVpnService_proofs` | sessions, descriptors, stops | `ServiceAssumption` | `ServiceTypes`, `NativeAttemptsAreExclusive`, `ConfirmationsAreTrue`, `StartsOrphanNobody`, `StaleStopsKeepTun`, `StoppedStaysDown`, `ServiceUsesTunCoordinator` |
| `MCNativeConnect_proofs` | connects, transports, servers, waits, retries, sockets | `NativeConnectAssumption` (a rendezvous lasts for two requests, a DHCP call waits and tries at least once) | `ConnectCompletesOrReleases`, `AdoptionIsSafe`, `TransportResultsAreTrue`, `LeasesAreConsistent` |
| `SoftEtherLinks_proofs` | slots, links up at the start, contexts | `LinksAssumption`; for `ContextsStaySafe` also `MaxContexts <= 2` | `TeardownLeavesNothing`, `ContextsStaySafe` |
| `RudpStream_proofs` | windows, FIFOs, segment sizes, loads | `SessionAssumption`, `LoadAssumption`; for `BothStreamsAreIntact` also `SegmentUnits = 1` | `DownstreamIsIntact`, `AcknowledgementsAreTrue`, `BothStreamsAreIntact` |
| the same | queue and batch sizes, links, blocks | `QueueAssumption` (the sizes are positive, the sources of frames are told apart) | `FramesReachTheTun` |
| `MCUdpAcceleration_proofs` | threads, windows, timeouts, limits, clock | `UdpAccelerationAssumption` (limits are positive, window limits are in order) | `ContextOutlivesItsCalls`, `UdpIsProvenFirst` |

*Registry.* The invariant is `TypeOK`, `ReleasedExactlyOnce` and `StampsAreOwners`. The
last is needed because the code keeps both stamps when the slot is released normally, and
only a grant clears them: the soft-bound properties hold since an *owner's* stamps are
its own.

*TUN coordinator.* The invariant relates the two owner fields: whoever may install is the
current session and owns the descriptor, and a revoked session is never the installer again.

*Ownership of handles.* `OneDestroyerPerHandle` is not inductive: a claim keeps it only
if the slot holds an allocated handle (`HandleIsLive`), and a publish only if a
created, not yet published handle is known to its flow alone (`PendingOwned`). Most
actions move one thread and leave every connection where it is (`LeavesOwners`); create,
the two publishes, claim and destroy have a lemma each. The types need two facts more:
the retry counter reaches its bound only as connect gives up (`BudgetSpent`), and
teardown interrupts a flow only if it saw one (`SnapshotTaken`).

*Cleanup.* None of the four cleanup properties is inductive. Where a thread is says whether
its flow is registered, whether it owns the cleanup and whether it holds a claim
(`Places`, `SlotTruth`). The reconnect exists only once the connect coroutine is on its
way out (`Turns`), so a flow finds the slot empty when it publishes (`EmptySlot`). At
most one flow is registered and whoever cleans up does so when none is (`Alone`): nobody
takes the handle a flow is using (`UsesSlot`), and a proven cleanup leaves nothing
behind (`Gone`). `Alone` is where `~TailOutlastsDelay` is used, and why it is needed:
without it two flows are registered, as section 2 says. The run has the same
configuration. The refinement theorem maps each action of the controller to a
step of `AttemptLifetime` or to a stutter, from the same invariants.

*Service.* Two parts of `ServiceInv` carry the argument. `Leases`: every session started
holds the slot, or lost it in one of three ways (displaced, confirmed, never had a
controller). `Admission`: from its start to its controller a session holds the slot in a
phase no soft bound reclaims; that, and no lock, keeps a second start out. The TUN
coordinator's invariant is not proved again: each step of the service is shown to be one the
coordinator's specification allows, and the theorems of
`TunOwnershipCoordinator_proofs` are cited through an INSTANCE. `StoppedStaysDown` adds
`StopsStand`: a session stopped by the user or by its own error can no longer get
the permission to establish. The theorems about the TUN also need that two `stopVpn`
calls in progress never share a record (`StopCalls`).

*Connect.* What a failing stage releases depends on `conn->state`, because
`softether_disconnect` does nothing in DISCONNECTED. So the invariant says which states
each stage runs in (`Stages`) and that a stage that runs in DISCONNECTED without a transport
holds nothing (`Released`). The instance has `OwnerWaits`, the order the Kotlin layer keeps,
which `FlowsStaySafe` proves of it.

*Race.* The properties speak of the end of the race, the argument is about the two
compare-and-swaps before it: at most one worker is past the first (`Claims`), and the
second, against the parent's revocation, decides who closes the connection
(`Connections`, `ParentSaw`). Joins proceed in order (`Joined`).

*Links.* `LinkInv` says who holds a link's lock (`Locks`), that a context is in one slot only
(`Distinct`, `Exclusive`), and what the teardown has waited for (`Teardown`). It gives
`NoDoubleDestroy`, `NoConcurrentOperation` and `TeardownLeavesNothing` for any number of
contexts. That no operation runs on a destroyed context needs in addition that the three
names of a slot's context agree (`InUse`), which is true only while no link takes a slot that
another one is being retired from. `MaxContexts <= 2` says just that, and the run
`link_slot_reuse` refutes the property with one context more.

*R-UDP stream.* `StreamInv` describes the session from both ends: what the worker has sent and
the window it sent it in (`Sending`), what either end has received (`Receiving`), and that
acknowledgements under way are only for segments the server has (`Acking`). It is inductive by
itself and gives the types, the downstream order and `AcksAreTrue`. The upstream order needs in
addition which unit each segment carries (`UpstreamInv`: some count of units has left the FIFO,
and the segments hold them in order). It is true only if a read of the application's end fits
the FIFO whole, hence `SegmentUnits = 1`, which the run has too; with more,
`RudpFifoLoss` refutes it. The loops of a worker pass are recursive functions; what they return
is proved by induction from the well-foundedness of the naturals, which the library states for
a set and not for an operator (`SetInduction`).

*Receive queue.* What the properties say of the ring and of the order is not inductive: that a
frame read next is the next one of its source depends on what is still on the wire. `QueueInv`
places every block. Those of a source that were sent and not read are the last ones of the
source, and lie, in order, where they are read next: on the link's wire, in the rest of
the message being read, or with UDP acceleration (`Waiting`). The frames whose fate is
"queued" are the ring's, oldest at the head, and the frames of
a source that were delivered come before them (`Ring`). A block leaves what waits at its front
only (`WaitsLess`) and joins it at its end (`WaitsMore`), whatever the action. A primary stream that is out of step has
nothing waiting, which is only after a failed raw read or when the receive loop has stopped
(`Control`); that is why garbage implies `setupFailed`. The bound on what the server
sends is a fold, about which nothing is proved; no step of the proof uses it, so the theorem
holds for a server that sends for ever.

*R-UDP transport.* A caller that is told "connected" reads a result written earlier, so the
invariant says what that result means from the moment it is written, and that the
worker ends before its descriptors are closed.

*NAT-T.* A reply at the socket is one the relay said (so a report is true) and the socket
holds no more than it can. With the prompt relay the rendezvous goes through three
phases (nothing asked, asked for the cookie, asked for the answer), and time passes only when the
relay owes nothing; `Deadline >= 2` leaves time for the request with the cookie.

*DHCP.* Replies of all attempts and servers reach the same wait, so the queue of replies has to
be trusted: an ACK in it comes from a server that committed the lease (`Waits`), and the gateway's
MAC address is set only from an answer for the gateway of the lease reported (`Gateway`). With
the prompt server there is one request or its reply on the way, and one only (`PromptExchange`).

*Life of the context.* The count is the references held (`Count`, by cardinalities), and a thread
at a given step holds a known number of them (`References`): whoever takes the count to 0 is
the last, and there is one such thread (`Freeing`). A compare-and-swap that saw a positive count
cannot revive a context. A caller on a locked path is never where the context is gone: its
lock holds up the disconnect before the context is taken out, and behind the disconnect it finds the
connection closed (`Locks`, `Teardown`).

*Send budget and reception.* That a suspension is twice the last one needs the count of suspensions
and the last length to agree (`Lengths`). That a path was steady needs the tick of stable
reception to be there as long as the path is alive, and the last silence to lie before it (`Stable`);
that the peer hears us needs what it echoes to be what it received (`Echoes`).

Only model-checked. Liveness (`TeardownIsDecided`, `CallersReturn`, `DisconnectCompletes`,
`CancelledConnectFails`, `EveryWaitEnds`, `NothingIsStuck`): TLAPS has no reasoning about
fairness or ENABLED here.

## 5. Not modelled

Kotlin: state broadcasts and notifications; the data path (`TunTerminal`, packet loops),
except that it can trigger a reconnect at any time while the tunnel is up; the native state
monitor and statistics; the VPN builder; the wall clock going backwards; a second
service instance in the same process; the app above the service.

C: the login exchange (its outcome is a choice), PACK and message layouts, compression, key
derivation and encryption, the DNS and ICMP framings, the wrappers of sockets and
TLS. They are encodings or single calls; the modules that use
them have their outcomes. About three quarters of the C files in the repository are the
vendored OpenSSL headers, which declare a library and have no behaviour to model.
`softether_receive`, `receive_packet`, `receive_data`, `check_connection` and
`process_keepalive` have no caller in the app and no action.

Each part has its entry under `components` or `hazards` in `PROJECT.json` with the reason.

## 6. Plan

1. Auto mode on top of an abstract service: attempts, teardown waiters, watcher and
   watchdog; a late completion must never settle a newer attempt.
2. A liveness run of the service (after a teardown a start is eventually admitted),
   with the hazards about the wedged attempt and the phase going back to CONNECTED.
3. Pin store and server-list snapshots: crash between write and rename, concurrent
   refreshes; the merger and the ranking as pure operators against a reference definition.
