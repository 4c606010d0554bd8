-------------------------- MODULE SessionDispatch --------------------------
(***************************************************************************)
(* Unary cross-device dispatch over the hub's reverse sessions: the        *)
(* session.open provider and its input pump                                *)
(* (src/daemon/invocation/bidi/bidi_dispatcher.rs), the presence registry, *)
(* the correlation table PendingDispatchMap (bidi/state/                   *)
(* pending_dispatch.rs), the dispatcher that waits for a reply             *)
(* (dispatch/unary_dispatcher.rs) and the watcher that fails calls whose   *)
(* target went offline (dispatch/daemon_invocation_service.rs).            *)
(*                                                                         *)
(* A call is named by its member of Call, which stands for the unique      *)
(* call_id it is registered under.  Request and result bytes, receipts and *)
(* envelopes are left out; a well-formed and a malformed DispatchResult    *)
(* settle a unary call alike.                                              *)
(***************************************************************************)
EXTENDS PresenceRegistry

CONSTANTS
    Call,           \* unary dispatches the hub performs
    DownCapacity,   \* DISPATCH_CHANNEL_CAPACITY
    Beating,        \* bound: the sessions whose device sends heartbeats
    Streamed,       \* bound: the sessions a streamed call may be using
    Watcher         \* the presence watcher's broadcast receiver

ASSUME DispatchAssumption ==
    /\ DownCapacity \in Nat \ {0}
    /\ Watcher \in Subscriber
    /\ Streamed \subseteq Session
    /\ Call \cap {"ack", "input", "heartbeat", "end"} = {}

VARIABLES
    provider,   \* per session: state of the session.open provider
    lease,      \* per session: SessionPresenceLease, active or closed
    chan,       \* per session: the bounded mpsc of down frames
    held,       \* per session: SessionProviderDownStream.pending_normal_frames
    pump,       \* per session: state of the input pump draining the up stream
    pushTo,     \* per session: generation a heartbeat ack is being pushed to
    linked,     \* per session: is the device still connected to it
    device,     \* per session: calls the device holds and has not answered
    up,         \* per session: frames the device sent and the pump has not read
    lent,       \* sessions whose sender a streamed call holds a clone of
    call,       \* per call: the dispatcher's progress and what it learned
    pending,    \* calls with an entry in PendingDispatchMap
    watcher,    \* state of the offline watcher task
    cancelling, \* calls the watcher's current cancel_for collected
    executed    \* history: calls that were handed to a device

sessionVars == <<provider, lease, chan, held, pump, pushTo, linked, device, up, lent>>
callVars == <<call, pending>>
watcherVars == <<watcher, cancelling>>
vars == <<byUra, nextSessionId, session, emitting, inbox, lagged,
          provider, lease, chan, held, pump, pushTo, linked, device, up, lent,
          call, pending, watcher, cancelling, executed>>

Ack == "ack"
Input == "input"    \* a frame of a streamed call
NormalFrame == Call \cup {Input}
Frame == NormalFrame \cup {Ack}
UpFrame == Call \cup {"heartbeat", "end"}

NoReply == "none"
Outcome == {"none", "result", "target_offline", "resolve_unavailable", "self_target",
            "build_failed", "busy", "closed", "deadline", "abandoned"}

CallRecord == [pc      : {"idle", "looked", "registered", "waiting", "timedout", "done"},
               target  : Ura \cup {NoUra},
               via     : Session \cup {NoSession},
               reply   : {NoReply, "result", "target_offline"},
               outcome : Outcome,
               regLive : BOOLEAN]

NewCall == [pc |-> "idle", target |-> NoUra, via |-> NoSession,
            reply |-> NoReply, outcome |-> "none", regLive |-> FALSE]

SessionsTypeOK ==
    /\ provider \in [Session -> {"absent", "announcing", "running", "draining", "ended"}]
    /\ lease \in [Session -> {"none", "active", "closed"}]
    /\ chan \in [Session -> Seq(Frame)]
    /\ \A s \in Session : Len(chan[s]) <= DownCapacity
    /\ held \in [Session -> Seq(NormalFrame)]
    /\ pump \in [Session -> {"absent", "running", "pushing", "ended"}]
    /\ pushTo \in [Session -> Session \cup {NoSession}]
    /\ linked \in [Session -> BOOLEAN]
    /\ device \in [Session -> SUBSET Call]
    /\ up \in [Session -> Seq(UpFrame)]
    /\ lent \subseteq Session

CallsTypeOK ==
    /\ call \in [Call -> CallRecord]
    /\ pending \subseteq Call
    /\ executed \subseteq Call

WatcherTypeOK ==
    /\ watcher \in {"running", "exited"}
    /\ cancelling \subseteq Call

TypeOK == RegistryTypeOK /\ SessionsTypeOK /\ CallsTypeOK /\ WatcherTypeOK

Init ==
    /\ RegistryInit
    /\ provider = [s \in Session |-> "absent"]
    /\ lease = [s \in Session |-> "none"]
    /\ chan = [s \in Session |-> << >>]
    /\ held = [s \in Session |-> << >>]
    /\ pump = [s \in Session |-> "absent"]
    /\ pushTo = [s \in Session |-> NoSession]
    /\ linked = [s \in Session |-> FALSE]
    /\ device = [s \in Session |-> {}]
    /\ up = [s \in Session |-> << >>]
    /\ lent = {}
    /\ call = [c \in Call |-> NewCall]
    /\ pending = {}
    /\ watcher = "running"
    /\ cancelling = {}
    /\ executed = {}

-----------------------------------------------------------------------------
(***************************************************************************)
(* The session.open provider.                                              *)
(***************************************************************************)

\* The mpsc receiver lives as long as the provider.
ReceiverOpen(s) == provider[s] \in {"announcing", "running", "draining"}

\* Mutant: one frame too many fits.
FullLate(s) == Len(chan[s]) > DownCapacity

Full(s) == Len(chan[s]) = DownCapacity

\* Mutant: the provider keeps the sender it created.
SenderKept(s) == session[s].stage = "installed"

(***************************************************************************)
(* Clones of a session's DispatchSender: in its registry slot, in a        *)
(* dispatcher (a local of dispatch_frame_to_presence, dropped only when    *)
(* the call returns), in a streamed call and in a pump pushing an ack.     *)
(***************************************************************************)
SenderAlive(s) ==
    \/ byUra[session[s].ura] = s
    \/ \E c \in Call : /\ call[c].via = s
                       /\ call[c].pc \in {"looked", "registered", "waiting", "timedout"}
    \/ s \in lent
    \/ \E t \in Session : pump[t] = "pushing" /\ pushTo[t] = s

\* SessionOpenProvider::invoke admits a caller and allocates its session id ...
OpenSession(u) ==
    /\ Allocate(u, "dispatch", NoKey)
    /\ UNCHANGED <<byUra, emitting, inbox, lagged, sessionVars, callVars, watcherVars, executed>>

\* ... installs it, displacing any prior session of the caller ...
InsertSession(s) ==
    /\ session[s].kind = "dispatch"
    /\ Install(s)
    /\ provider' = [provider EXCEPT ![s] = "announcing"]
    /\ linked' = [linked EXCEPT ![s] = TRUE]
    /\ UNCHANGED <<nextSessionId, inbox, lagged, lease, chan, held, pump, pushTo,
                   device, up, callVars, lent, watcherVars, executed>>

\* ... and, its events sent, takes the lease, emits SessionEstablished and
\* spawns the input pump.
StartPumps(s) ==
    /\ provider[s] = "announcing"
    /\ emitting[<<"insert", s>>] = << >>
    /\ provider' = [provider EXCEPT ![s] = "running"]
    /\ lease' = [lease EXCEPT ![s] = "active"]
    /\ pump' = [pump EXCEPT ![s] = "running"]
    /\ UNCHANGED <<registryVars, chan, held, pushTo, linked, device, up,
                   callVars, lent, watcherVars, executed>>

\* A device-mode daemon lists itself at boot, without a channel to dispatch on.
SeedSelfPresence(u) ==
    /\ u \in SelfUra
    /\ Allocate(u, "resolveOnly", NoKey)
    /\ UNCHANGED <<byUra, emitting, inbox, lagged, sessionVars, callVars, watcherVars, executed>>

InsertSelfPresence(s) ==
    /\ session[s].kind = "resolveOnly"
    /\ Install(s)
    /\ UNCHANGED <<nextSessionId, inbox, lagged, sessionVars, callVars, watcherVars, executed>>

SendEvent(op) ==
    /\ Emit(op, {Watcher})
    /\ UNCHANGED <<byUra, nextSessionId, session,
                   sessionVars, callVars, watcherVars, executed>>

\* Mutant: a lease without the removal.
CloseLeaseOnly(s) ==
    /\ lease' = [lease EXCEPT ![s] = "closed"]
    /\ UNCHANGED <<byUra, emitting>>

\* SessionPresenceLease::close, also run by Drop: at most once, own generation only.
CloseLease(s) ==
    /\ lease' = [lease EXCEPT ![s] = "closed"]
    /\ IF lease[s] = "closed"
       THEN UNCHANGED <<byUra, emitting>>
       ELSE RemoveIfSession(session[s].ura, s)

IsFirstControl(q, i) == q[i] = Ack /\ \A j \in 1 .. i - 1 : q[j] # Ack

(***************************************************************************)
(* SessionProviderDownStream::poll_dispatch_frame and the emission of what *)
(* it yields: a control frame overtakes normal ones, which are moved out   *)
(* of the channel into an unbounded local queue ...                        *)
(***************************************************************************)
EmitControlFrame(s) ==
    /\ provider[s] \in {"running", "draining"}
    /\ \E i \in DOMAIN chan[s] :
          /\ IsFirstControl(chan[s], i)
          /\ held' = [held EXCEPT ![s] = @ \o SubSeq(chan[s], 1, i - 1)]
          /\ chan' = [chan EXCEPT ![s] = SubSeq(@, i + 1, Len(@))]
    /\ UNCHANGED <<registryVars, provider, lease, pump, pushTo, linked, device, up,
                   callVars, lent, watcherVars, executed>>

\* ... and without one the oldest normal frame goes to the device.
EmitNormalFrame(s) ==
    LET queue == held[s] \o chan[s] IN
    /\ provider[s] \in {"running", "draining"}
    /\ \A i \in DOMAIN chan[s] : chan[s][i] # Ack
    /\ queue # << >>
    /\ held' = [held EXCEPT ![s] = Tail(queue)]
    /\ chan' = [chan EXCEPT ![s] = << >>]
    /\ IF linked[s] /\ Head(queue) \in Call
       THEN /\ device' = [device EXCEPT ![s] = @ \cup {Head(queue)}]
            /\ executed' = executed \cup {Head(queue)}
       ELSE UNCHANGED <<device, executed>>
    /\ UNCHANGED <<registryVars, provider, lease, pump, pushTo, linked, up,
                   callVars, lent, watcherVars>>

EmitDownFrame(s) == EmitControlFrame(s) \/ EmitNormalFrame(s)

\* The input pump finished: the lease closes and the provider drains `down`.
InputEnded(s) ==
    /\ provider[s] = "running"
    /\ pump[s] = "ended"
    /\ CloseLease(s)
    /\ provider' = [provider EXCEPT ![s] = "draining"]
    /\ UNCHANGED <<nextSessionId, session, inbox, lagged, chan, held, pump, pushTo,
                   linked, device, up, callVars, lent, watcherVars, executed>>

\* What dropping the provider's receiver, input pump and stream does.  The
\* pump is aborted at its next await, so a push under way completes.
TearDown(s) ==
    /\ provider' = [provider EXCEPT ![s] = "ended"]
    /\ chan' = [chan EXCEPT ![s] = << >>]
    /\ held' = [held EXCEPT ![s] = << >>]
    /\ pump' = [pump EXCEPT ![s] = IF @ = "pushing" THEN @ ELSE "ended"]
    /\ linked' = [linked EXCEPT ![s] = FALSE]
    /\ device' = [device EXCEPT ![s] = {}]
    /\ up' = [up EXCEPT ![s] = << >>]

\* down.next() yields None once every sender clone is gone.
DownClosed(s) ==
    /\ provider[s] \in {"running", "draining"}
    /\ chan[s] = << >> /\ held[s] = << >>
    /\ ~SenderAlive(s)
    /\ CloseLease(s)
    /\ TearDown(s)
    /\ UNCHANGED <<nextSessionId, session, inbox, lagged, pushTo, callVars, lent, watcherVars, executed>>

\* Axon cancels the invocation, or emitting a frame fails: everything is dropped.
AbortProvider(s) ==
    /\ provider[s] \in {"running", "draining"}
    /\ CloseLease(s)
    /\ TearDown(s)
    /\ UNCHANGED <<nextSessionId, session, inbox, lagged, pushTo, callVars, lent, watcherVars, executed>>

\* federation.revoke and the trust invalidator.
ForceRevoke(u) ==
    /\ byUra[u] # NoSession
    /\ Remove(u)
    /\ UNCHANGED <<nextSessionId, session, inbox, lagged, sessionVars, callVars, watcherVars, executed>>

-----------------------------------------------------------------------------
(***************************************************************************)
(* The device end of a session (external: the peer's session initiator).   *)
(***************************************************************************)
Sends(s, f) == up' = [up EXCEPT ![s] = Append(@, f)]

DeviceReply(s, c) ==
    /\ linked[s] /\ c \in device[s]
    /\ device' = [device EXCEPT ![s] = @ \ {c}]
    /\ Sends(s, c)
    /\ UNCHANGED <<registryVars, provider, lease, chan, held, pump, pushTo, linked,
                   callVars, lent, watcherVars, executed>>

DeviceHeartbeat(s) ==
    /\ linked[s] /\ s \in Beating
    /\ "heartbeat" \notin {up[s][i] : i \in DOMAIN up[s]}   \* bound: one in transit
    /\ Sends(s, "heartbeat")
    /\ UNCHANGED <<registryVars, provider, lease, chan, held, pump, pushTo, linked,
                   device, callVars, lent, watcherVars, executed>>

\* A clean close follows what was sent; a reset may lose it.
DeviceLeaves(s) ==
    /\ linked[s]
    /\ linked' = [linked EXCEPT ![s] = FALSE]
    /\ device' = [device EXCEPT ![s] = {}]
    /\ \/ Sends(s, "end")
       \/ up' = [up EXCEPT ![s] = <<"end">>]
    /\ UNCHANGED <<registryVars, provider, lease, chan, held, pump, pushTo,
                   callVars, lent, watcherVars, executed>>

-----------------------------------------------------------------------------
(***************************************************************************)
(* The input pump: drain_session_runtime_up_stream.                        *)
(***************************************************************************)
PumpReads(s, f) ==
    /\ pump[s] = "running"
    /\ up[s] # << >>
    /\ Head(up[s]) = f
    /\ up' = [up EXCEPT ![s] = Tail(@)]

\* Mutant: completion without looking for the entry.
CompleteBlindly(c) ==
    /\ pending' = pending \ {c}
    /\ call' = [call EXCEPT ![c].reply = "result"]

\* PendingDispatchMap::complete: a no-op when the entry is gone.
Complete(c) ==
    IF c \in pending
    THEN /\ pending' = pending \ {c}
         /\ call' = [call EXCEPT ![c].reply = "result"]
    ELSE UNCHANGED <<pending, call>>

PumpResult(s, c) ==
    /\ PumpReads(s, c)
    /\ Complete(c)
    /\ UNCHANGED <<registryVars, provider, lease, chan, held, pump, pushTo, linked,
                   device, lent, watcherVars, executed>>

PumpEnd(s) ==
    /\ PumpReads(s, "end")
    /\ pump' = [pump EXCEPT ![s] = "ended"]
    /\ UNCHANGED <<registryVars, provider, lease, chan, held, pushTo, linked, device,
                   callVars, lent, watcherVars, executed>>

(***************************************************************************)
(* A heartbeat is acknowledged on whichever session the caller's URA has   *)
(* now, not on the session it arrived on (push_session_down_frame).        *)
(***************************************************************************)
PumpHeartbeat(s) ==
    LET t == LookupDispatch(session[s].ura) IN
    /\ PumpReads(s, "heartbeat")
    /\ pump' = [pump EXCEPT ![s] = IF t = NoSession THEN "ended" ELSE "pushing"]
    /\ pushTo' = [pushTo EXCEPT ![s] = t]
    /\ UNCHANGED <<registryVars, provider, lease, chan, held, linked, device,
                   callVars, lent, watcherVars, executed>>

PushAck(s) ==
    LET t == pushTo[s] IN
    /\ pump[s] = "pushing"
    /\ IF ReceiverOpen(t) /\ ~Full(t)
       THEN /\ chan' = [chan EXCEPT ![t] = Append(@, Ack)]
            /\ pump' = [pump EXCEPT ![s] =
                           IF provider[s] = "ended" THEN "ended" ELSE "running"]
            /\ UNCHANGED <<byUra, emitting>>
       ELSE /\ RemoveIfSession(session[t].ura, t)
            /\ pump' = [pump EXCEPT ![s] = "ended"]
            /\ UNCHANGED chan
    /\ pushTo' = [pushTo EXCEPT ![s] = NoSession]
    /\ UNCHANGED <<nextSessionId, session, inbox, lagged, provider, lease, held, linked,
                   device, up, callVars, lent, watcherVars, executed>>

-----------------------------------------------------------------------------
(***************************************************************************)
(* The dispatcher: dispatch_frame_to_presence, one action per step at      *)
(* which another task can intervene.                                       *)
(***************************************************************************)
Return(c, o) ==
    call' = [call EXCEPT ![c] = [NewCall EXCEPT !.pc = "done", !.outcome = o]]

\* Mutant: a handle without cleanup-on-drop.
KeepEntry(c) == UNCHANGED pending

\* PendingHandle::drop
DropHandle(c) == pending' = pending \ {c}

\* reject_self_presence_host: the daemon itself is never reached over a session.
SelfTarget(u) == u \in SelfUra \/ IsResolveOnly(u)

\* require_canonical_dispatch_session: one atomic snapshot of the target's slot.
Lookup(c, u) ==
    LET s == LookupDispatch(u) IN
    /\ call[c].pc = "idle"
    /\ IF SelfTarget(u) \/ s = NoSession
       THEN Return(c, IF SelfTarget(u) THEN "self_target" ELSE "resolve_unavailable")
       ELSE call' = [call EXCEPT ![c].pc = "looked", ![c].target = u, ![c].via = s]
    /\ UNCHANGED <<registryVars, sessionVars, pending, watcherVars, executed>>

\* register_pending_for; regLive records whether the session was still current.
Register(c) ==
    /\ call[c].pc = "looked"
    /\ pending' = pending \cup {c}
    /\ call' = [call EXCEPT ![c].pc = "registered",
                            ![c].regLive = byUra[call[c].target] = call[c].via]
    /\ UNCHANGED <<registryVars, sessionVars, watcherVars, executed>>

BuildFrameFails(c) ==
    /\ call[c].pc = "registered"
    /\ DropHandle(c)
    /\ Return(c, "build_failed")
    /\ UNCHANGED <<registryVars, sessionVars, watcherVars, executed>>

\* Mutant: a full channel is reported busy although the frame got in.
PushCallReportsBusy(c) ==
    LET s == call[c].via IN
    /\ call[c].pc = "registered"
    /\ ReceiverOpen(s)
    /\ chan' = [chan EXCEPT ![s] = Append(@, c)]
    /\ DropHandle(c)
    /\ Return(c, "busy")
    /\ UNCHANGED <<registryVars, provider, lease, held, pump, pushTo, linked, device, up,
                   lent, watcherVars, executed>>

\* try_send on the snapshot's sender: queued, full (session kept), or closed.
PushCall(c) ==
    LET s == call[c].via IN
    /\ call[c].pc = "registered"
    /\ \/ /\ ReceiverOpen(s) /\ ~Full(s)
          /\ chan' = [chan EXCEPT ![s] = Append(@, c)]
          /\ call' = [call EXCEPT ![c].pc = "waiting"]
          /\ UNCHANGED <<byUra, emitting, pending>>
       \/ /\ ReceiverOpen(s) /\ Full(s)
          /\ DropHandle(c)
          /\ Return(c, "busy")
          /\ UNCHANGED <<byUra, emitting, chan>>
       \/ /\ ~ReceiverOpen(s)
          /\ RemoveIfSession(call[c].target, s)
          /\ DropHandle(c)
          /\ Return(c, "closed")
          /\ UNCHANGED chan
    /\ UNCHANGED <<nextSessionId, session, inbox, lagged, provider, lease, held, pump,
                   pushTo, linked, device, up, lent, watcherVars, executed>>

\* await_reply resolves; the handle is dropped with the future.
AwaitReply(c) ==
    /\ call[c].pc = "waiting"
    /\ call[c].reply # NoReply
    /\ DropHandle(c)
    /\ Return(c, call[c].reply)
    /\ UNCHANGED <<registryVars, sessionVars, watcherVars, executed>>

\* Mutant: a reply wait without a deadline.
NoReplyTimeout(c) == FALSE

\* PRESENCE_DISPATCH_REPLY_TIMEOUT elapses with no reply ready ...
ReplyTimeout(c) ==
    /\ call[c].pc = "waiting"
    /\ call[c].reply = NoReply
    /\ call' = [call EXCEPT ![c].pc = "timedout", ![c].outcome = "deadline"]
    /\ UNCHANGED <<registryVars, sessionVars, pending, watcherVars, executed>>

\* ... and dropping the timed-out future evicts the entry.
EvictTimedOut(c) ==
    /\ call[c].pc = "timedout"
    /\ DropHandle(c)
    /\ Return(c, "deadline")
    /\ UNCHANGED <<registryVars, sessionVars, watcherVars, executed>>

\* The caller goes away and its future is dropped at the await.
AbandonCall(c) ==
    /\ call[c].pc = "waiting"
    /\ DropHandle(c)
    /\ Return(c, "abandoned")
    /\ UNCHANGED <<registryVars, sessionVars, watcherVars, executed>>

-----------------------------------------------------------------------------
(***************************************************************************)
(* A streamed call's use of the session it was routed to: the task reading *)
(* an InvokeBidi client's up stream, and PresenceStreamCancellation for an *)
(* InvokeStream.  What its client is told is PendingStreams.               *)
(***************************************************************************)
\* require_canonical_dispatch_session, with the clone the call keeps.
LendSender(u) ==
    LET s == LookupDispatch(u) IN
    /\ s \in Streamed \ lent   \* bound: one such call per session
    /\ lent' = lent \cup {s}
    /\ UNCHANGED <<registryVars, provider, lease, chan, held, pump, pushTo, linked,
                   device, up, callVars, watcherVars, executed>>

\* try_send of the open frame or of an input: a full channel fails the call
\* only, a closed one retires the session, and either drops the clone.
PushInput(s) ==
    /\ s \in lent
    /\ \/ /\ ReceiverOpen(s) /\ ~Full(s)
          /\ chan' = [chan EXCEPT ![s] = Append(@, Input)]
          /\ UNCHANGED <<byUra, emitting, lent>>
       \/ /\ ReceiverOpen(s) /\ Full(s)
          /\ lent' = lent \ {s}
          /\ UNCHANGED <<byUra, emitting, chan>>
       \/ /\ ~ReceiverOpen(s)
          /\ RemoveIfSession(session[s].ura, s)
          /\ lent' = lent \ {s}
          /\ UNCHANGED chan
    /\ UNCHANGED <<nextSessionId, session, inbox, lagged, provider, lease, held, pump,
                   pushTo, linked, device, up, callVars, watcherVars, executed>>

\* The client ends the call, or it is over: an EOF or a StreamCancel may still
\* go out, and the clone is dropped.  A client may also never do so.
ReturnSender(s) ==
    /\ s \in lent
    /\ lent' = lent \ {s}
    /\ \/ UNCHANGED chan
       \/ /\ ReceiverOpen(s) /\ ~Full(s)
          /\ chan' = [chan EXCEPT ![s] = Append(@, Input)]
    /\ UNCHANGED <<registryVars, provider, lease, held, pump, pushTo, linked, device,
                   up, callVars, watcherVars, executed>>

-----------------------------------------------------------------------------
(***************************************************************************)
(* The offline watcher spawned by with_pending.                            *)
(***************************************************************************)
\* An Offline makes cancel_for collect every entry of that target.
WatcherEvent ==
    /\ watcher = "running" /\ cancelling = {}
    /\ ReadEvent(Watcher)
    /\ cancelling' = {c \in pending : Head(inbox[Watcher]) = Offline(call[c].target)}
    /\ UNCHANGED <<byUra, nextSessionId, session, emitting, lagged, sessionVars,
                   callVars, watcher, executed>>

\* Mutant: entries are dropped without a word to their waiters.
CancelSilently(c) ==
    /\ c \in cancelling
    /\ cancelling' = cancelling \ {c}
    /\ pending' = pending \ {c}
    /\ UNCHANGED <<registryVars, sessionVars, call, watcher, executed>>

\* cancel_for removes the collected entries one by one, skipping settled ones.
CancelOne(c) ==
    /\ c \in cancelling
    /\ cancelling' = cancelling \ {c}
    /\ pending' = pending \ {c}
    /\ call' = IF c \in pending
               THEN [call EXCEPT ![c].reply = "target_offline"] ELSE call
    /\ UNCHANGED <<registryVars, sessionVars, watcher, executed>>

\* Err(_) covers Lagged as well as Closed: the watcher returns.
WatcherLagged ==
    /\ watcher = "running" /\ cancelling = {}
    /\ ReadLagged(Watcher)
    /\ watcher' = "exited"
    /\ UNCHANGED <<byUra, nextSessionId, session, emitting, inbox, sessionVars,
                   callVars, cancelling, executed>>

-----------------------------------------------------------------------------
ProviderNext(s) == \/ InsertSession(s) \/ InsertSelfPresence(s) \/ StartPumps(s)
                   \/ EmitDownFrame(s) \/ InputEnded(s) \/ DownClosed(s) \/ AbortProvider(s)

PumpNext(s) == \/ \E c \in Call : PumpResult(s, c)
               \/ PumpEnd(s) \/ PumpHeartbeat(s) \/ PushAck(s)

DeviceNext(s) == \/ \E c \in Call : DeviceReply(s, c)
                 \/ DeviceHeartbeat(s) \/ DeviceLeaves(s)

DispatcherNext(c) == \/ \E u \in Ura : Lookup(c, u)
                     \/ Register(c) \/ BuildFrameFails(c) \/ PushCall(c)
                     \/ AwaitReply(c) \/ ReplyTimeout(c) \/ EvictTimedOut(c)
                     \/ AbandonCall(c)

StreamedNext == \/ \E u \in Ura : LendSender(u)
                \/ \E s \in Session : PushInput(s) \/ ReturnSender(s)

WatcherNext == \/ WatcherEvent \/ WatcherLagged
               \/ \E c \in Call : CancelOne(c)

Next == \/ \E u \in Ura : OpenSession(u) \/ SeedSelfPresence(u) \/ ForceRevoke(u)
        \/ \E op \in Op : SendEvent(op)
        \/ \E s \in Session : ProviderNext(s) \/ PumpNext(s) \/ DeviceNext(s)
        \/ \E c \in Call : DispatcherNext(c)
        \/ StreamedNext
        \/ WatcherNext

Spec == Init /\ [][Next]_vars

(***************************************************************************)
(* The steps of the hub's tasks that wait for nobody: Tokio runs them, and *)
(* a deadline is eventually reached.  Nothing is assumed of devices,       *)
(* callers and operators: they may stay silent, connected, for ever, and a *)
(* device that does not read holds emit_progress, so StartPumps and        *)
(* EmitDownFrame may never happen.                                         *)
(***************************************************************************)
DispatcherStep(c) == \/ Register(c) \/ PushCall(c) \/ AwaitReply(c)
                     \/ ReplyTimeout(c) \/ EvictTimedOut(c)

Fairness ==
    /\ \A s \in Session : WF_vars(DownClosed(s)) /\ WF_vars(PushAck(s))
    /\ \A c \in Call : WF_vars(DispatcherStep(c))

FairSpec == Spec /\ Fairness

-----------------------------------------------------------------------------
(***************************************************************************)
(* A waiting dispatcher can always still be woken: its entry is in the     *)
(* table or its oneshot already holds a reply.  The RecvError arm of       *)
(* dispatch_frame_to_presence ("session disconnected before reply") is     *)
(* therefore never taken, however results, cancellations and evictions     *)
(* interleave.                                                             *)
(***************************************************************************)
NoOrphanWaiter ==
    \A c \in Call : call[c].pc = "waiting" => c \in pending \/ call[c].reply # NoReply

(***************************************************************************)
(* The table does not leak: an entry exists only while a PendingHandle     *)
(* does, on every return path of the dispatcher (pending_dispatch.rs,      *)
(* "Lifetime + bounded growth").                                           *)
(***************************************************************************)
EntryHasHandle ==
    \A c \in pending : call[c].pc \in {"registered", "waiting", "timedout"}

(***************************************************************************)
(* A registry slot never outlives the provider that owns it: on every exit *)
(* path (input end, down close, abort) the lease took the slot out, so     *)
(* "online" means a provider is serving (presence.rs, Lifecycle =          *)
(* liveness).                                                              *)
(***************************************************************************)
NoGhostPresence ==
    \A u \in Ura : LookupDispatch(u) # NoSession =>
        provider[byUra[u]] \in {"announcing", "running"}

\* An Offline of u that the watcher has not read yet.
OfflineComing(u) ==
    \/ \E op \in Op : \E i \in DOMAIN emitting[op] : emitting[op][i] = Offline(u)
    \/ \E i \in DOMAIN inbox[Watcher] : inbox[Watcher][i] = Offline(u)
    \/ Watcher \in lagged

\* The call waits on a generation that is no longer in the registry.
Stranded(c) ==
    /\ call[c].pc = "waiting"
    /\ call[c].reply = NoReply
    /\ byUra[call[c].target] # call[c].via

(***************************************************************************)
(* Fail-fast: once the session a call waits on is gone, the Offline that   *)
(* cancels the call is on its way or being applied, if the session was     *)
(* still registered when the call was and the watcher has not exited.      *)
(***************************************************************************)
OfflineReachesWaiters ==
    \A c \in Call :
        Stranded(c) /\ call[c].regLive /\ watcher = "running"
            => OfflineComing(call[c].target) \/ c \in cancelling

(***************************************************************************)
(* At-most-once completion: a result, a cancellation and a late duplicate  *)
(* racing for one entry never replace the reply the waiter was given.      *)
(***************************************************************************)
SettlesOnce ==
    [][\A c \in Call : call[c].reply # NoReply
                        => call'[c].reply = call[c].reply \/ call'[c].pc = "done"]_vars

(***************************************************************************)
(* A provider that ends, for whatever reason and however late, takes no    *)
(* session but its own out of the registry (SessionPresenceLease).         *)
(***************************************************************************)
LeaseIsFenced ==
    [][\A s \in Session :
          lease[s] # "closed" /\ lease'[s] = "closed"
              => \A u \in Ura : byUra[u] # s => byUra'[u] = byUra[u]]_vars

(***************************************************************************)
(* The dispatcher keeps the contract of DispatchContract: the mapping      *)
(* reads a call's verdict off the dispatcher's program counter.            *)
(***************************************************************************)
StatusOf(c) ==
    CASE call[c].outcome = "none" -> IF call[c].pc = "idle" THEN "idle" ELSE "open"
      [] call[c].outcome = "result" -> "answered"
      [] call[c].outcome \in {"target_offline", "deadline", "abandoned"} -> "failed"
      [] OTHER -> "rejected"

Contract == INSTANCE DispatchContract WITH
                status <- [c \in Call |-> StatusOf(c)], executed <- executed

ImplementsContract == Contract!Spec

(***************************************************************************)
(* Every dispatch returns, whatever its device, its session and the        *)
(* watcher do: the reply deadline backstops the fail-fast path.            *)
(***************************************************************************)
DispatchReturns == \A c \in Call : call[c].pc = "looked" ~> call[c].pc = "done"

\* The session was installed and is no longer in the registry.
Retired(s) == /\ session[s].stage = "installed" /\ session[s].kind = "dispatch"
              /\ byUra[session[s].ura] # s

\* The provider has a frame to emit, its first one included, and waits for its
\* device to take it.
Unread(s) == provider[s] = "announcing" \/ held[s] \o chan[s] # << >>

(***************************************************************************)
(* A provider whose session is displaced, revoked or retired ends: the     *)
(* clones of its sender that the registry, dispatchers and pumps hold are  *)
(* all dropped.  Two parties can keep it: a streamed call whose client     *)
(* never ends it, and a device that never reads the frames it is sent.     *)
(***************************************************************************)
RetiredProviderEnds ==
    \A s \in Session :
        <>Retired(s) => \/ <>(provider[s] = "ended")
                        \/ <>[](s \in lent)
                        \/ <>[]Unread(s)

=============================================================================
