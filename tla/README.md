# EasyNet sessions and hosted agents in TLA+

EasyNet's daemon runs in two roles. A *hub* accepts one long-lived bidirectional
stream (`session.open`) from every device and forwards other callers' invocations
down that stream; a *device* answers them. Which device is reachable, which call
waits for which answer, and what happens to both when a stream breaks, is
concurrent state shared by many tokio tasks. Over the same sessions a device also
registers the agents it hosts with the hub, publishes their abilities and retires
them, a protocol of durable records on both sides that has to survive crashes of
either. This project models both, checks them with TLC and proves their main
invariants with TLAPS.

Paths below are relative to `src/src/daemon/` unless they start with `src/`.

## Inventory

| Component | State | Operations | Hard behaviour |
|---|---|---|---|
| Presence registry, `invocation/bidi/state/presence.rs` | URA to session slot (DashMap), id allocator, broadcast of Online and Offline | insert (negotiated, resolve-only), remove, remove_if_session, force_revoke, force_revoke_if_admitted_key, lookups, snapshot, subscribe | map writes and the events that announce them are not atomic; generations displace each other |
| Directory subscription, `invocation/streams/stream_dispatcher.rs` | a consumer's view of who is online | snapshot, subscribe, apply, re-snapshot after a lag | snapshot and subscription are two steps; the ring overwrites |
| Hub session provider, `invocation/bidi/bidi_dispatcher.rs` | presence lease, down channel and its held-back frames, up pump | open, emit, heartbeat and ack, close by either side, abort | a provider ends only when the last clone of its sender is dropped and its device reads; a lease must not evict its successor |
| Unary dispatch, `invocation/dispatch/unary_dispatcher.rs`, `bidi/state/pending_dispatch.rs` | PendingDispatchMap, one oneshot per call | look up, register, push, await with deadline, complete, cancel_for | reply, cancellation, deadline and abandonment race for one entry |
| Presence watcher, `invocation/dispatch/daemon_invocation_service.rs` | a broadcast receiver | cancel_for on every Offline | lags; matches URAs, not generations |
| Streamed dispatch, `pending_dispatch.rs`, `bidi_dispatcher.rs`, `stream_dispatcher.rs` | PendingStreamDispatchMap, one bounded channel per call, the relay's verifier | register, deliver admission/chunk/terminal, evict, cancel, finish, relay, deadline, remote cancel | one drain per device serves every call; two delivery policies |
| Device session supervisor, `invocation/bidi/session_initiator*` | phase, backoff, up-sequence gate, sticky fault, connection projection | connect, live loop, heartbeat, reconnect | sequence gate shared by tasks; a projection with two writers |
| Device down-frame scheduler, `session_initiator/frame_scheduler.rs` | permits, per-call lanes, in-flight set | route, dispatch, complete, saturate | a stalled call must leave the others their share; a call's own budget, once spent, ends the session |
| Device carrier registry, `invocation/dispatch/local_session_dispatcher.rs` | Opening/Active bidi calls and stream tokens per carrier scope | open, promote, input, EOF, cancel, retire scope | cancel before registration; exits that keep an entry; errors of the runtime's own cancel and finalization |
| Session escalation, `invocation/bidi/session_escalation.rs` | correlation table, outbox of the current carrier | request, reply, stream, cancel, ready hooks | replies of an older carrier |
| Hosted-agent inventory and revocation (hub), `persistence/federation_revoke.rs`, `federation/read_model/` | one durable file of records, revoke transactions and projection deliveries; advertised rows and ability catalog in memory | register, publish a projection, prepare and apply a revoke, recover, hydrate | crash between persisted steps; requests that run late or twice; generation and delivery fences |
| Hosted-agent lifecycle (device), `ability/builtins/agents/lifecycle.rs`, `persistence/agent_lifecycle.rs`, `persistence/hosted_agent_publications.rs`, `federation/hosted_agent_publication.rs` | publication record per agent, one retraction journal, publication outbox | start, register, activate, publish, stop, purge, roll back or forward, replay an assignment, drain, reconcile | five files and a remote hub change in separate writes; the drain and the publication worker run outside the lifecycle guard |
| Admission and quota, routing, boot, plugins, missions, loops, schedules, permissions, keyring, catalog, EAL, CLI, FFI | see `PROJECT.json` | | |

Interactions. A device's `session.open` inserts a slot in the registry, whose sender
end is cloned by every dispatcher that looks the device up. The dispatcher registers
a call, pushes a frame into the session's down channel and waits on its table entry.
The session's up pump (the *drain*) is the only reader of the device's frames and
completes table entries. Removing or displacing a slot broadcasts Offline; the
watchers turn it into cancelled entries, the directory pumps into view changes.

What makes each part correct: the registry announces every generation exactly once
and lists no ended provider; a settled directory view equals the map; each call
settles exactly once, its entry never outlives its handle, and its waiter can always
be woken; a client of a streamed call sees a gapless prefix of what the device sent
and learns how it ended; one call's consumer does not hold up the others. On the
device, the inputs of a call reach its handler once and in order, the end of a session
leaves no entry and no running stream behind, and an invocation always has a task that
will finalize it. Hub and device agree on which incarnation of an agent lives; a purge ends
exactly the incarnation it was for, whatever is lost, late or repeated.

## Modules

| Module | Models | Lines up with the code as |
|---|---|---|
| `PresenceRegistry` | the registry and the broadcast ring | state and sub-actions for the modules that extend it: `Allocate` (fetch_add), `Install` (map insert), `Remove*`, `Emit` (one event of the list an operation owes) |
| `DirectorySubscription` | registry and one `subscribe_directory_v2` pump | one action per registry operation, `SendEvent`, `PumpSnapshot`, `PumpSubscribe`, `PumpEvent`, `PumpLagged`, `PumpResnapshot` |
| `DispatchContract` | what unary dispatch promises a caller | a call is invoked, may be executed, returns once; a result only if it was executed |
| `SessionDispatch` | providers, pumps, dispatchers, watcher and registry together | per session `provider`, `lease`, `chan`, `held`, `pump`, `lent` (a streamed call holds a clone of its sender); per call the steps of `dispatch_frame_to_presence` |
| `PendingStreams` | the stream table, one device session's drain, both relays, the caller task, cancel_for | per call `chan`, `relay`, `caller`, `out`; `drain` is the delivery under way |
| `StreamContract` | what streamed dispatch promises a client | a call begins, its device produces frames, the client is shown the next one, the call fails, closes, or its client leaves |
| `DownFrameScheduler` | the device's scheduler of bidi input | state and sub-actions: `RouteInput`, `RouteSaturated`, `Recv`, `HandlerReturned`, `Completed`, `Abort` |
| `CarrierCalls` | the scheduler, the carrier registry, the openers, forwarders and input pumps of one device, the lifecycle registry | extends `DownFrameScheduler`; per call `entry`, `token`, `task` (opener, then forwarder), `pump`, `runtime`, `lifecycle` |
| `HostedAgentInventory` | the hub's side of hosted agents, and the wire | `record`, `txns`, `deliveries` are the durable file, `advertised` and `catalog` the rows; one action per handler and per way it stops halfway |
| `HostedAgentLifecycle` | the device's side, composed with the hub | extends `HostedAgentInventory`; `pub`, `journal`, `outbox`, `local` are files, `guard` the lifecycle mutation guard, `drain` the batch under way |
| `AgentContract` | what hub and device may rely on for a hosted agent | the hub assigns, retires and routes; the device starts, binds, asks, confirms, finishes |
| `DirectoryProofs` | theorems about `DirectorySubscription` | |
| `SessionDispatchProofs`, `SessionPresenceProofs`, `SessionContractProofs` | theorems about `SessionDispatch`: the table; presence and its announcements; the refinement of `DispatchContract` | |
| `PendingStreamsProofs` | theorems about `PendingStreams` | |
| `SchedulerProofs`, `CarrierProofs` | theorems about `DownFrameScheduler` alone, and about `CarrierCalls`, which implements it | |
| `HostedAgentProofs` | theorems about `HostedAgentLifecycle` | |

Steps are cut where the code lets another task in: at awaits, between two DashMap
calls, between a map write and a broadcast, between a lookup and the use of what it
returned. What happens under one shard lock or between two awaits without shared
state is one step.

### Abstractions

- A call, URA, key or session is a model value or a number; payloads, envelopes,
  receipts, reasons, op-events and metrics are left out. Whether a receipt verifies
  is a free choice in `PendingStreams`.
- `snapshot` iterates a DashMap shard by shard, so the directory properties are
  stated per URA. The broadcast from a pump to its consumers is taken to be kept up
  with.
- The offline watcher holds an `Arc` of the registry, so its receiver never reads
  Closed: the only error in the model is a lag. It is subscribed before the first
  session is opened.
- `StartPumps` stands for lease creation, the SessionEstablished frame and the spawn
  of the pump; refusing the daemon's own URA is part of `Lookup`. The owner-projection
  lease a heartbeat also refreshes is left out.
- A remover's thread may go on before its Offline is sent, and a waiting sender may
  overtake another in an mpsc channel: both allow more than the code does.
- `PendingStreams` has one device session. Its `cancel_for` removes an entry and
  offers the Terminal in one step (they commute with everything in between). The
  down channel that carries cancel frames is outside: sending one succeeds, fails or
  never returns. A gRPC response ends at its first error status (`Shown`). Odd stream
  ids never match a unary entry, so the fall-through to `PendingDispatchMap` is
  dropped.
- Devices send anything, in any order, and go on after a terminal.
- `SessionDispatch` has the streamed calls only as users of the session: one of them
  may hold a clone of a session's sender (the InvokeBidi task that reads the client's up
  stream, or the `PresenceStreamCancellation` of an InvokeStream), push frames with it,
  and drop it when its client ends the call, which may be never. What its client is
  told is `PendingStreams`.
- `CarrierCalls`: the hub counts call ids up, so an id is used in one scope. The
  ability runtime is external: it admits or refuses, ends when it likes, and every
  `cancel()` and `finalized()` may report an error (`Stray`; `erred` remembers the
  call), after which the code goes on as it does: a control failure, a log line or
  nothing. Whether a receipt can be projected onto the wire is a free choice at every
  place that projects one. A send asks only the up sender of the call's session, so a
  frame may leave after the scope's end. The many refusals before the runtime is asked
  are one action each for the ways they treat the registry entry and the hub
  (`OpenRejected`, `OpenRefused`, `OpenUnreported`, `OpenUnsupported`). Bidi and stream
  openers share the actions their code repeats (registration, admission, forwarding);
  `PROJECT.json` maps each to one of the two places. `up` is the set of kinds of
  `DispatchResult` a call's tasks have sent, control failures included.
- Hosted agents: one device hosts them all, so the host, key and authority facts of a
  command agree with the record. The owner binding is part of the row; a live
  projection has revision 1 and its tombstone 2; digests and catalog epochs are left
  out, with them the staging of a proof (`Publishing`). `Ready` and `BackingOff` are
  one retry state, the journal's stages before the commit point are one, `Finalized`
  belongs to `committed` and `OutboxEnqueued` to the cleared journal, since recovery
  treats them alike. Tokens and transaction ids are drawn at random: the model draws a
  fixed one of those not used yet (`FreshToken`, `FreshTxn`), since which one it is makes
  no difference. The publication worker reads the live agents and then begins a
  registration for each under no guard (`PlanCaptured`); how old its reading is, is left
  open, so it may revive any retired record at any time, more than the code can. A
  catalog commit (`FenceCatalogCommit`) creates a missing record and takes a published
  one back to assigned; `mark_published` may then find its projection overtaken. Presence removal by a revoke is `PresenceRegistry`'s subject. A
  request still awaited is lost by its caller giving up first. The trust invalidator,
  which also removes advertised rows, is left out.

## Runs

| Run | Instance | Shows |
|---|---|---|
| `directory` | 2 URAs (one the daemon's own), 3 generations, ring of 1 | every map write is owed exactly the events that announce it; a settled view is exact unless one of the two races below happened; no generation returns |
| `dispatch_reconnect` | 2 generations of one device, 1 call, heartbeats on the first, 1-slot channel | waiters can be woken, Offline is on its way to those that need it, replies are not replaced, leases are fenced, the registry lists no ended provider; `SessionDispatch` implements `DispatchContract` |
| `dispatch_live` | 1 generation, the device's or the daemon's resolve-only row, 1 unary call, 1 streamed call with a clone of the sender, heartbeats, 1-slot channel, fairness | capacities; no table entry without its handle; every dispatch returns; a retired provider ends, unless a streamed call keeps its sender or its device does not read |
| `streams_bounded` | 1 InvokeStream, any 4 frames | capacity; a connected client is told how it ended; its client never holds up the drain; `PendingStreams` implements `StreamContract` |
| `streams_lossless` | 1 InvokeBidi, any 4 frames | gapless prefix in canonical order; no stream entry without its relay; the drain is stuck only while that client is connected and not reading |
| `carrier` | 1 bidi call with 3 inputs, 1 stream, 3 permits of which a call may have 2, 1-slot ingress, a lifecycle registry of 1, one session, errors of every cancel, finalization and projection | permits match frames; order per call; a stalled call leaves the others room; inputs reach the handler faithfully and after the admission; nothing outlives its scope; invocations have an owner; an entry an opener leaves behind is of a call the hub was answered |
| `carrier_live` | 1 stream, 1 unary call, 2 sessions, fairness | the end of a session stops its streams |
| `purge` | 1 agent, 2 incarnations, 2 purge transactions, 3 generations, 2 fences, 2 requests in flight, a worker that mints under no guard | prepared revokes recover; a bound assignment is the active one; retirement on either side implies the other's part; rows are backed by the record or by a queued purge; revokes are exact; `HostedAgentLifecycle` implements `AgentContract` |

Runs that end in a violation, each a disagreement between the code and what it says
of itself (quoted in `PROJECT.json`, `findings`):

| Run | What TLC finds |
|---|---|
| `streams_cut` | the device goes offline while an InvokeBidi's queue is full: its Terminal is dropped and its client is told nothing |
| `streams_wait` | the drain, the only reader of a device's session, waits for room in the queue of an InvokeBidi while it delivers that call's terminal, for as long as its client does not read |
| `carrier_cancel` | a StreamCancel that arrives while the stream's opener is still at work finds no token; the hub is told the stream is not open, and the stream then runs uncancelled |
| `purge_wedge` | a crash between binding a replayed assignment and promoting the journal leaves the journal waiting for a registration that is no longer pending; session-ready recovery fails from then on and the agent's URA stays fenced |

Several passing properties name the one case in which they do not hold, and so delimit
what the code leaves open:

- `SettledViewIsExact` excludes a URA for which a removal's Offline was overtaken by a
  later insert's Online (`remove` sends it outside the shard lock), and one whose event
  was sent between the pump's snapshot and its subscription.
- `OfflineReachesWaiters` needs the call to have registered while its session was in
  the registry, and the watcher to run: it ends for good when it lags. A call outside
  these conditions waits for its deadline, which `DispatchReturns` covers. The Offline
  of a displaced generation may also fail a call that waits on its successor, since
  `cancel_for` matches URAs; the contract allows that answer.
- `RetiredProviderEnds` excludes a provider of whose sender a streamed call keeps a
  clone for ever, and one whose device never takes the frame that is being emitted
  (`emit_progress` waits for it). The first contradicts, for sessions with such a call,
  the comment on `SessionProviderDownStream` that "dropping the displaced sender still
  closes the old response stream immediately" (`bidi_dispatcher.rs:2131-2134`): the
  wrapper owns no sender, but a call may.
- `RuntimeIsOwned` excludes a bidi call whose scope ended between its admission frame
  and its promotion, whose invocation is neither cancelled nor finalized, and a call to
  whose cancel or finalization the runtime reported an error: nobody retries either.
- That the hub hears how a call ended is not a property of the device: an unnegotiated
  carrier, a missing runtime, a failed admission commit, a receipt that cannot be
  projected and a failed cancel are returned or logged without a frame, and a control
  failure may reach the hub before the admission or after the terminal. The hub's own
  deadlines answer for it (`DispatchReturns`), and its relays for the order
  (`CanonicalOrder`). `LeftEntryIsAnswered` is what does hold: a silent return of a bidi
  opener takes its registry entry along, and the returns that leave it there, where it
  goes on accepting input until the scope ends, have answered the hub.
- `StallLeavesRoom` is about other calls' frames. A hub that goes on sending to a
  stalled call exhausts that call's own budget, and the frame loop then ends the session
  (`frame_loop.rs:158-163`), as it is meant to.
- `PublishedIsActive` and `RetirementIsAsked` say nothing of an agent the hub holds
  active and the device does not. There is one way to it: the record remembers only its
  last incarnation, so a registration delayed on the wire past the retirement of a
  *later* incarnation is taken for a new one and gets a generation nobody will retire.
- `ImplementsContract` of the agents lets a new registration start while the end of an
  earlier generation is still asked for, since the worker may mint between the local
  retirement (`lifecycle.rs:2454`) and the completion of the outbox entry (2468). It
  does not say that the entry ends: after a crash at that point `retire_generation`
  fails on the pending record at every retry, the entry ends up waiting for an operator,
  and the agent stays fenced.
- `DirectoryIsBacked` excludes rows left by a revoke that took effect and reported an
  error, as long as the outbox still holds the purge that will remove them.

`DrainStallsOnlyOnLossless` is what holds of the sentence "it must never wait on one
call's consumer" in `settle_terminal_result`'s comment: it is true where every call is an
InvokeStream (`streams_bounded`) and false of an InvokeBidi (`streams_wait`), whose
stall the property delimits (`streams_lossless`).

Two disagreements have no run of their own. The header of `presence.rs` says "Removal MUST
emit an `Offline` event before the entry is gone from the map; the method order in `remove`
enforces this" (lines 47-51), and `remove` takes the entry out first and sends afterwards,
outside the shard lock: that is the first race of `SettledViewIsExact`. And a device
keeps one retraction journal, so the stop of a second agent while the first waits for its
assignment overwrites it and the first retraction is lost: the agreement properties hold
all the same (they are proved for any number of agents), but none of them asks that a
retraction, once begun, is carried out.

### Bounds

Capacities (1024 events, 256 frames, 32 events, 16 items) become 1 or 2: what matters
is empty, full and one short of full. Two generations of one URA show every
displacement race of a call. The liveness run has one: a displacement takes the
provider's sender out of the registry exactly as a revocation does, and two generations
with a streamed call exceed what TLC checks in minutes. The directory needs a third so that a stale remover, a
newcomer and its displacer coexist. One call suffices where calls do not share state,
two where they share a down channel. Streams are checked one at a time, each kind
against every order of four frames: entries and channels are keyed by call, and the
drain they share never leaves one call's delivery for another's. `MaxFrames` 4 admits admission, two chunks
and a terminal against a one-slot channel, a one-slot client and a relay holding one:
the fourth frame finds everything full. `MaxSession`, `MaxFrames`, `Sends` and
`Beating` (which generations send heartbeats, one in transit at a time) are bounds of
the instance only. Deadlock is not checked where an instance may run out of sessions,
calls or frames: an idle hub stops there. The largest runs have 2.8 million distinct states
(`carrier`, `purge`) and take three to four minutes with two workers.

For `carrier`, one bidi call and one stream share the scheduler, the up sender and a
lifecycle registry of one entry, so that its full, evicting and refusing cases occur;
three inputs against two permits of the call and one ingress slot reach saturation with a
frame in the queue, in a lane and in flight, and a third permit is what a stalled call
must leave (as 64 of 256 are in the code). One session suffices there because a call id never returns;
`carrier_live` has a second session start while tasks of the first still run. For
`purge`, two incarnations of one agent let every late request of the first meet the
second; the third generation is for a registration of the first that runs after the
second was retired; two fences of a transaction give one retry. The run has a single agent, so one agent's
steps never meet another's in the journal they share; every property of `purge` is proved
for any number of agents.

### Fairness

Weak fairness of the hub's own tasks: tokio polls every woken task, so a task whose
next step stays possible takes it; a reply deadline is reached. Nothing is assumed of
devices, callers, clients, operators, or of the session's down channel in
`PendingStreams`. In `SessionDispatch` that leaves the dispatchers, the push of an ack
and the end of a drained provider: a device that does not read holds `emit_progress`, so
neither `StartPumps` nor `EmitDownFrame` is fair, and neither is the return of a sender
that a streamed call holds. In that module the invocation deadline is not fair either: a call
may have none. In `CarrierCalls` the spawned openers and forwarders go on (a runtime
asked to open answers, and a forwarder reacts to its token and to the end of the
runtime's frames), but the runtime itself may produce nothing for ever.

## Proofs

TLAPS proves, for any number of URAs, generations, calls, sessions, inputs, agents and
any capacities (the second column is the property of a run that the theorem states):

| Theorem | Property | Statement |
|---|---|---|
| `DirectoryTypes` | `TypeOK` | registry, ring and pump stay well typed, every inbox within the ring's capacity |
| `EventsAccount` | `EventsAccountForMap` | every write of the map is owed exactly the events that announce it |
| `SettledDirectoryIsExact` | `SettledViewIsExact` | a view with nothing left to hear equals the map, outside the two races |
| `GenerationsStayRetired` | `NoResurrection` | a generation that left the map never returns |
| `TypeCorrect` | `TypeOK` | `SessionDispatch` stays well typed, ring and channels within capacity |
| `TableDoesNotLeak` | `EntryHasHandle` | an entry of PendingDispatchMap exists only while its handle does |
| `WaiterIsNeverOrphaned` | `NoOrphanWaiter` | a waiting dispatcher is in the table or has its reply |
| `CompletionIsUnique` | `SettlesOnce` | no step replaces a reply |
| `PresenceIsLiveness` | `NoGhostPresence` | a dispatchable slot belongs to a provider that has not started to end |
| `LeaseNeverEvictsSuccessor` | `LeaseIsFenced` | closing a lease changes no slot of another session |
| `OfflineWarnsWaiters` | `OfflineReachesWaiters` | the Offline that cancels a deserted call is on its way, while the watcher runs |
| `DispatchImplementsContract` | `ImplementsContract` | `SessionDispatch` implements `DispatchContract` |
| `StreamTypeCorrect` | `TypeOK` | `PendingStreams` stays well typed, channels within capacity |
| `StreamTableDoesNotLeak` | `EntryHasHandle` | a stream entry exists only while its relay runs |
| `BoundedStreamsAreConcluded` | `BoundedIsConcluded` | an InvokeStream relay never stops on a connected client that was given neither a terminal nor an error |
| `StreamsAreCanonical` | `CanonicalOrder` | a client is shown an admission first, then data, then at most one terminal, last |
| `StreamsAreFaithful` | `StreamIsFaithful` | a client is shown a gapless prefix of what its device sent |
| `StreamsImplementContract` | `ImplementsContract` | `PendingStreams` implements `StreamContract` |
| `SchedulerTypes`, `PermitsMatch`, `LanesAreOrdered`, `RoomForOthers` | | of `DownFrameScheduler` alone what the next ones say of the device |
| `CarrierImplementsScheduler` | | every step of the device is a step of `DownFrameScheduler` or leaves it alone |
| `CarrierTypes` | `TypeOK` | the device's state is well typed, ingress queues and lifecycle registry within capacity |
| `CarrierPermits` | `PermitsMatchFrames` | permits and held frames are the same, per call and in all |
| `CarrierLaneOrder` | `LaneOrder` | inputs of a call are dispatched in order, none skipped |
| `CarrierRoom` | `StallLeavesRoom` | while one call alone holds frames, the session has a permit and a queue slot for the others |
| `InputFaithful` | `InputIsFaithful` | the handler of a bidi call is given what the hub sent it |
| `AdmissionBarrier` | `AdmissionIsBarrier` | no input is handled before the admission was sent |
| `NoStale` | `NoStaleRegistration` | no entry or token outlives its scope or enters a later one |
| `RuntimeOwned` | `RuntimeIsOwned` | a running or registered invocation has a task that will finalize it, with the two exceptions |
| `LeftEntryAnswered` | `LeftEntryIsAnswered` | an entry a bidi opener leaves behind is of a call the hub was answered |
| `HostedAgentTypeCorrect` | `TypeOK` | hub and device stay well typed |
| `PreparedRevokesRecover` | `RecoveryNeverWedges` | a prepared revoke can always be applied, so the hub's recovery at boot never fails on one |
| `RevokeExact` | `RevokeIsExact` | generations never fall; an active agent is retired only by a transaction bound to that generation and incarnation; transactions keep what they are bound to |
| `BoundAssignmentIsActive` | `PublishedIsActive` | an assignment the device has bound is the active one, unless its retraction is pending |
| `RetiredWasRevoked` | `RetiredIsRevoked` | the device retires only what the hub durably gave up |
| `RetirementWasAsked` | `RetirementIsAsked` | the hub retires only what the device asked for |
| `RowsAreBacked` | `DirectoryIsBacked` | a routing row is the active record's, or a queued purge will remove it |
| `HostedAgentsKeepContract` | `ImplementsContract` | `HostedAgentLifecycle` implements `AgentContract` |

The assumptions are those of the modules: capacities and budgets are positive naturals,
a call's budget is below the session's, the bounds are naturals, the names used as markers are not calls, URAs or agents, the
three call modes and the device's callers are disjoint, the watcher and the pump are
subscribers.

### Arguments

None of the safety properties is inductive as it stands. What each proof adds, and why:

- *Registry and directory.* `DirectoryInv`. Counting events needs to know what an
  operation can still owe (`OwesRightly`) and that the occupant of a slot has not been
  removed (`SlotsNotRemoved`). Exactness of a settled view speaks of states with
  nothing in flight, which a step reaches from states with something in flight:
  `DeliveryOK` says there that, for a URA whose operations did not overlap, one
  operation at most still owes (`OneOwer`), and otherwise the last queued event about
  it says what the map says (`LastIsRight`). Events about one URA are told apart from
  the rest of the inbox by their positions (`About`).
- *Unary dispatch.* `TypeInv` adds to `TypeOK` what typing itself needs: allocated ids
  are below the allocator, a pump that pushes an ack pushes it to an installed
  generation. `TableInv` joins the two halves of the handle's life, an entry needs a
  handle and a waiting handle needs an entry or a reply: either alone is not preserved
  by the steps that move a call from one to the other. `PresenceInv` says that a slot
  holding a dispatchable session finds its lease active and its provider running;
  `NoGhostPresence` alone does not survive a provider that ends. `WarningInv` extends
  `OfflineReachesWaiters` to calls registered and not yet pushed, and says that what an
  operation owes is about its own session's URA, so no other operation's events
  overwrite it.
- *The refinement.* `ContractInv` says where a call's frame can be: over all sessions it
  is in at most one place, held back or in a down channel, and only while the contract
  still allows the call to be executed (`QueuedOnce`, `QueuedIsOpen`); a frame of a
  call comes back up only if the call was handed on (`AnsweredWasHanded`). Each step
  then maps to a step of `DispatchContract` or to a stutter.
- *Streams.* `ConclusionInv` says that a relay about to stop after the item it holds
  holds a concluding one, and that a relay that gave up on its client either saw it
  leave or already told it the deadline passed; without the second part the early exits
  would break the theorem. `OrderInv` ties the verifier's `admitted` to what was sent
  as long as the client can be shown more. `TapeInv` lays a call's frames on one tape:
  sent, in the relay's hand, in the channel, in the drain's hand, on the wire. Two
  witnesses place the frames, `R` counting what the drain has read of a call and `P`
  giving each frame on the wire its place in the script; the channel continues the tape
  only up to a synthesized failure, and the drain's part holds only while the call has
  its entry, which is why an evicted or cancelled stream is cut and never resumes.
  Every step does one of five things to a relay (`StreamMoves`), one lemma each.
- *The stream contract.* A client's view is what its relay sent it up to the first
  error (`Visible`), a set comprehension over positions that the provers cannot compare
  across a step. `ViewInv` names the place where the view ends (`EndsAt`): everything
  sent, or the first error, and `VisibleIs` gives the view from it; `ViewExtends` and
  `ErrorHides` then say that a step appends to a view or, after an error, leaves it
  alone, and `ConclusionIsLast` that nothing follows a terminal or an error.
  `ContractInv` joins it with the three invariants above: the tape makes the frame a
  relay forwards the next one of its device, the order makes an admission the first
  and only the first, the conclusion is what allows a relay to stop on a client that is
  still there. What a step does to its call is one of a few things, each with its
  lemma: nothing a client or device could see, an error, an exit, or a frame
  (`SilentStep`, `ErrorStep`, `QuitsStep`, `TurnsStep`, `FrameStep`, `GivesStep`); a
  step that is not about a relay is `ElsewhereStep`.
- *Device.* `SchedulerInv` restates `LaneOrder` by positions (`Ordered`), adds that a
  lane has a dispatch to wait for (`Attended`), and counts permits against the interval
  of numbers a call has outstanding (`PermitsOK`); since a call's budget is the smaller,
  a session without a free permit has frames of two calls. `CarrierInv` contains it, since every
  step of `CarrierCalls` is one of the scheduler's or leaves it alone, and adds per call
  how the task's position determines its mode, what may be registered and in which
  scope, what runs, what the hub was sent, and that handled, queued and dispatched
  inputs are contiguous as long as more can come (`ModeOK`, `ScopeOK`, `LifeOK`, `UpOK`,
  `InputOK`). Nearly every exit of an opener ends the call in one of these respects and
  not the others, which is why they are proved together.
- *Hosted agents.* `Inv` joins typing with four facts: a request on the wire, or in a
  caller's hands, names an agent and what its kind needs (`RequestsOK`); a drain with a
  call under way holds the claim of its outbox entry, and no entry that may still be
  claimed has spent its attempts (`DrainOK`); a journal that is not empty names its
  agent and transaction, and is at the stage the guard's holder works on (`JournalOK`);
  and a prepared transaction names an agent whose record has not fallen behind it and,
  at the same generation, still has its incarnation (`PreparedOK`). The last is what
  recovery needs; it survives registration because a new incarnation always gets a
  higher generation. `LifeInv` relates the files of both sides. The messages between
  them are what makes the four agreement properties hard: a late revoke or one still
  prepared (`Source`) is of a generation already given up or still in the outbox
  (`RevokesAreAsked`); an answer to a registration that the device can still use is of
  the active record (`AnswerIsActive`); an acknowledged revoke has removed record and
  rows and its generation is no longer bound (`DrainIsSettled`, `Released`); tokens are
  fresh (`TokensMinted`). Because the worker revives retired records under no guard, a
  retraction need not find its generation bound: it is of the bound generation, or of one
  given up with a pending or later record in its place (`Retracts`). `HubMoves` and
  `DeviceMoves` classify what a step of either side may change, so that each part of
  `LifeInv` is shown once per kind of change and not once per action.
- *The agent contract.* The mapping forgets messages, journal, transactions, crashes and
  the two halves of publication: a retraction counts as asked for while it is in the
  outbox, a row as routed while it is in either store. The refinement needs no stronger
  invariant than `LifeInv`, but all of it: that a late revoke is of a generation asked
  for makes the hub's retirement a `Retire`, `AnswerIsActive` makes a bound answer a
  `Bind`, `Retracts` makes an enqueued retraction an `Ask`, `DrainIsSettled` makes the
  completion of an entry a `Finish`, `TokensMinted` makes a registration an `Assign` and
  the worker's minting a `Start`, whatever is asked for at the time. The contract is what holds of registrations: a
  token is never assigned twice in a row. That a retired one never comes back does not
  hold, for the reason given above under `PublishedIsActive`.

Each step lemma has a case per action; frame lemmas dispose of the actions that leave
the state of interest alone.

Only model-checked: liveness (`DispatchReturns`, `RetiredProviderEnds`,
`DrainStallsOnlyOnLossless`, `ScopeEndStopsStreams`), which is out of the prover's reach.
Every other property of a passing run is proved.

## Plan

Done: `PresenceRegistry`, `DirectorySubscription`, `SessionDispatch`, `PendingStreams`,
`DownFrameScheduler`, `CarrierCalls`, `HostedAgentInventory`, `HostedAgentLifecycle`.

1. Proofs: every safety property a passing run checks is a theorem; the next ones are
   those of the modules below.
2. `DeviceSession`: supervisor phases and backoff, the up-sequence gate, the outbox
   and the connection projection with its two writers.
3. `Escalation`: correlation of device-to-hub requests across carriers, and
   `ReverseDispatch` on the hub side (cancellation tokens, ingress table).
4. Composition of `CarrierCalls` with `PendingStreams`: a streamed call end to end.
5. Smaller state machines: usage quota, permission prompts, loop instances, schedules,
   plugin install.

## Not modelled

Cryptography, key storage and receipt verification; ability implementations and
host I/O (files, PTY, MCP, media, child processes); the external axon_sdk runtime;
the CLI, FFI and SDK front ends; generated routes and catalogs; the plugin programs.
They either hold no concurrent state of their own or are outside the repository. The
parts planned above are listed in `PROJECT.json` with their hazards.
