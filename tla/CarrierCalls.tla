---------------------------- MODULE CarrierCalls ----------------------------
(***************************************************************************)
(* The calls a hub runs on a device over its session                       *)
(* (dispatch/local_session_dispatcher.rs), from the frame that opens one   *)
(* to its last frame up: the carrier registry, the task that opens a call, *)
(* the forwarder of its output, the pump of its input, and the daemon-wide *)
(* registry of invocation lifecycles (dispatch/cancellation.rs).  Bidi     *)
(* input comes through DownFrameScheduler; every other frame is handled by *)
(* the frame loop itself.                                                  *)
(*                                                                         *)
(* A call id is used in one carrier scope (the hub counts them up), so a   *)
(* call stands for its registry key.  The ability runtime is external: it  *)
(* admits or refuses, produces frames, ends when it likes, and may report  *)
(* an error to every cancel() and finalized().  So may the projection of   *)
(* every receipt onto the wire.  The many refusals before the runtime is   *)
(* asked (key sync, ability lookup, descriptor binding) are one.           *)
(***************************************************************************)
EXTENDS DownFrameScheduler

CONSTANTS
    BidiCall, StreamCall, UnaryCall,    \* the calls, by call mode
    IngressCapacity,    \* REMOTE_BIDI_INPUT_CAPACITY
    MaxTracked,         \* MAX_TRACKED_INVOCATIONS
    MaxScopes,          \* bound: sessions the device opens
    EofAt               \* bound: which of its inputs to a bidi call the hub may end with eof

ASSUME CarrierAssumption ==
    /\ Call = BidiCall \cup StreamCall \cup UnaryCall
    /\ BidiCall \cap StreamCall = {} /\ BidiCall \cap UnaryCall = {}
    /\ StreamCall \cap UnaryCall = {}
    /\ IngressCapacity \in Nat \ {0}
    /\ MaxTracked \in Nat \ {0}
    /\ MaxScopes \in Nat
    /\ EofAt \subseteq Nat

VARIABLES
    scope,      \* scope_id of the latest session
    live,       \* is that session's frame loop running
    faulted,    \* the sessions whose up sender fails: closed, or a fault recorded
    home,       \* per call: the scope it was opened in, 0 before
    entry,      \* per call: its RemoteBidiSession in the registry, with half_closed
    token,      \* per call: the CancellationToken of a registered stream
    task,       \* per call: where its opener or its output forwarder is
    runtime,    \* per call: its invocation in the ability runtime (external)
    lifecycle,  \* per call: its entry in InvocationCancellationRegistry
    expiry,     \* that registry's terminal_order
    ingress,    \* per call: input queued for the handler
    pump,       \* per call: the task that reads ingress
    handing,    \* per call: a dispatched input holds an ingress sender
    handled,    \* history, per call: inputs given to the handler
    up,         \* history, per call: the kinds of DispatchResult sent to the hub
    erred,      \* history: calls whose cancel() or finalized() reported an error
    asked       \* history: streams whose StreamCancel was handled

carrierVars == <<scope, live, faulted, home, entry, token, task, runtime,
                 lifecycle, expiry, ingress, pump, handing, handled, up, erred, asked>>
vars == <<schedulerVars, carrierVars>>

Opening == {"opening", "registering", "inserting", "admitting", "promoting"}
Forwarding == {"forwarding", "closing", "retiring"}
Phase == {"absent", "executing", "done"} \cup Opening \cup Forwarding
\* The DispatchResult frames of a call; those with its output are not kept.  A
\* control failure and an invocation failure are not terminal.
Result == {"admission", "failure", "terminal"}
NoEntry == [phase |-> "none", halfClosed |-> FALSE]

TypeOK ==
    /\ SchedulerTypeOK
    /\ scope \in 0..MaxScopes /\ live \in BOOLEAN /\ faulted \subseteq 1..MaxScopes
    /\ home \in [Call -> 0..MaxScopes]
    /\ entry \in [Call -> [phase : {"none", "opening", "active"}, halfClosed : BOOLEAN]]
    /\ token \in [Call -> {"none", "armed", "cancelled"}]
    /\ task \in [Call -> Phase]
    /\ runtime \in [Call -> {"none", "running", "ended"}]
    /\ lifecycle \in [Call -> {"none", "active", "terminal"}]
    /\ expiry \in Seq(Call)
    /\ Cardinality({c \in Call : lifecycle[c] # "none"}) <= MaxTracked
    /\ \A c \in Call : lifecycle[c] = "terminal" <=> c \in Range(expiry)
    /\ ingress \in [Call -> Seq([n : 1..MaxInputs, eof : BOOLEAN])]
    /\ \A c \in Call : Len(ingress[c]) <= IngressCapacity
    /\ pump \in [Call -> {"none", "running", "stopped"}]
    /\ handing \in [Call -> BOOLEAN]
    /\ handled \in [Call -> Seq(1..MaxInputs)]
    /\ up \in [Call -> SUBSET Result]
    /\ erred \subseteq Call
    /\ asked \subseteq StreamCall

Init ==
    /\ SchedulerInit
    /\ scope = 0 /\ live = FALSE /\ faulted = {}
    /\ home = [c \in Call |-> 0]
    /\ entry = [c \in Call |-> NoEntry]
    /\ token = [c \in Call |-> "none"]
    /\ task = [c \in Call |-> "absent"]
    /\ runtime = [c \in Call |-> "none"]
    /\ lifecycle = [c \in Call |-> "none"]
    /\ expiry = <<>>
    /\ ingress = [c \in Call |-> <<>>]
    /\ pump = [c \in Call |-> "none"]
    /\ handing = [c \in Call |-> FALSE]
    /\ handled = [c \in Call |-> <<>>]
    /\ up = [c \in Call |-> {}]
    /\ erred = {}
    /\ asked = {}

-----------------------------------------------------------------------------
\* The registry still has the scope of call c.
InScope(c) == live /\ home[c] = scope

\* SessionUpSender::send_payload succeeds: it asks the sender of the call's
\* session and no registry, so a frame may still leave after the scope's end.
CanSend(c) == home[c] \notin faulted
Send(c, k) == up' = IF CanSend(c) THEN [up EXCEPT ![c] = @ \cup {k}] ELSE up

\* The receiver of call c's ingress: the opener keeps it for the pump.
ReceiverAlive(c) == task[c] \in Opening \/ pump[c] = "running"

\* The opener or pump of call c is gone and with it the queued input.
DropReceiver(c) == ingress' = [ingress EXCEPT ![c] = <<>>]

RemoveEntry(c) == entry' = [entry EXCEPT ![c] = NoEntry]

\* Mutant: the error of the opener is logged and its entry forgotten.
OpenerAnswersOnly(c, k) ==
    /\ Send(c, k) \/ (k = "terminal" /\ UNCHANGED up)
    /\ UNCHANGED entry

\* schedule_canonical_carrier_bidi_open: an opener whose last frame was sent
\* returns Ok and leaves its entry; if the link is down or a terminal receipt
\* cannot be projected it returns an error, which takes the entry along.
OpenerAnswers(c, k) ==
    \/ /\ CanSend(c)
       /\ Send(c, k)
       /\ UNCHANGED entry
    \/ /\ k = "terminal" \/ ~CanSend(c)
       /\ RemoveEntry(c)
       /\ UNCHANGED up

\* send_bidi_terminal, and the stream's way of sending it: a receipt that
\* cannot be projected is a failure for a stream and nothing for a bidi call.
SendTerminal(c) ==
    \/ Send(c, "terminal")
    \/ IF c \in StreamCall THEN Send(c, "failure") ELSE UNCHANGED up

\* Mutant: the registry is not told.
FinalizeRuntimeOnly(c) ==
    /\ runtime' = [runtime EXCEPT ![c] = "ended"]
    /\ UNCHANGED <<lifecycle, expiry, erred>>

\* RegisteredInvocationLifecycle::finalized returns Ok, with or without cancel
\* before: the runtime is done and the registry keeps the entry as terminal.
Finalize(c) ==
    /\ runtime' = [runtime EXCEPT ![c] = "ended"]
    /\ lifecycle' = [lifecycle EXCEPT ![c] = "terminal"]
    /\ expiry' = Append(expiry, c)
    /\ UNCHANGED erred

\* cancel and finalized of an invocation that is in no registry return Ok.
Stop(c) ==
    /\ runtime' = [runtime EXCEPT ![c] = "ended"]
    /\ UNCHANGED <<lifecycle, expiry, erred>>

\* cancel or finalized returns an error: nothing is recorded, and what the
\* runtime does with the invocation is its own affair.
Stray(c) ==
    /\ erred' = erred \cup {c}
    /\ UNCHANGED <<runtime, lifecycle, expiry>>

-----------------------------------------------------------------------------
(* The session: frame_loop.rs around the dispatcher.                       *)

BeginSession ==
    /\ ~live /\ scope < MaxScopes
    /\ scope' = scope + 1
    /\ live' = TRUE
    /\ UNCHANGED <<schedulerVars, faulted, home, entry, token, task, runtime, lifecycle,
                   expiry, ingress, pump, handing, handled, up, erred, asked>>

\* SessionUpSender::record_fault: the up channel of a session, the latest or
\* one that ended, has closed or stalled.
LinkFails ==
    /\ \E s \in (1..scope) \ faulted : faulted' = faulted \cup {s}
    /\ UNCHANGED <<schedulerVars, scope, live, home, entry, token, task, runtime,
                   lifecycle, expiry, ingress, pump, handing, handled, up, erred, asked>>

\* Mutant: bidi entries stay behind.
RetireStreams ==
    /\ UNCHANGED entry
    /\ token' = [c \in Call |-> IF token[c] = "armed" THEN "cancelled" ELSE token[c]]

\* Mutant: the tokens are dropped with the scope, not cancelled.
RetireQuietly ==
    /\ entry' = [c \in Call |-> NoEntry]
    /\ token' = [c \in Call |-> "none"]

\* end_carrier_scope: every entry of the scope is dropped, and every stream
\* still registered is cancelled.
RetireScope ==
    /\ entry' = [c \in Call |-> NoEntry]
    /\ token' = [c \in Call |-> IF token[c] = "armed" THEN "cancelled" ELSE token[c]]

\* The frame loop returns: the scheduler is aborted, then the scope retired.
EndSession ==
    /\ live
    /\ live' = FALSE
    /\ Abort
    /\ RetireScope
    /\ handing' = [c \in Call |-> FALSE]
    /\ UNCHANGED <<scope, faulted, home, task, runtime, lifecycle, expiry, ingress,
                   pump, handled, up, erred, asked>>

\* The hub's input finds the scheduler's budget spent: the session ends.
SaturatedEnds(c) ==
    /\ InScope(c) /\ c \in BidiCall
    /\ RouteSaturated(c)
    /\ EndSession

\* The hub's input for a call it opened is queued; a stream has no input but
\* one eof.
InputArrives(c, eof) ==
    /\ InScope(c) /\ c \notin UnaryCall
    /\ c \in StreamCall => eof /\ sent[c] = 0
    /\ c \in BidiCall /\ eof => sent[c] + 1 \in EofAt
    /\ RouteInput(c, eof)
    /\ UNCHANGED carrierVars

\* handle_down on DispatchCall.  A bidi call is registered before it returns.
OpenArrives(c) ==
    /\ live /\ home[c] = 0
    /\ home' = [home EXCEPT ![c] = scope]
    /\ task' = [task EXCEPT ![c] = "opening"]
    /\ entry' = [entry EXCEPT ![c].phase = IF c \in BidiCall THEN "opening" ELSE @]
    /\ UNCHANGED <<schedulerVars, scope, live, faulted, token, runtime, lifecycle,
                   expiry, ingress, pump, handing, handled, up, erred, asked>>

\* schedule_canonical_carrier_bidi_open without a request or a valid target,
\* answered, or before the canonical carrier is negotiated, not answered.
OpenRejected(c) ==
    /\ live /\ home[c] = 0 /\ c \in BidiCall
    /\ home' = [home EXCEPT ![c] = scope]
    /\ task' = [task EXCEPT ![c] = "done"]
    /\ \/ UNCHANGED up
       \/ scope \notin faulted /\ up' = [up EXCEPT ![c] = @ \cup {"failure"}]
    /\ UNCHANGED <<schedulerVars, scope, live, faulted, entry, token, runtime, lifecycle,
                   expiry, ingress, pump, handing, handled, erred, asked>>

\* handle_down on StreamCancel: the token leaves the registry and is cancelled;
\* without one the hub is told STREAM_SESSION_NOT_OPEN.
CancelArrives(c) ==
    /\ InScope(c) /\ c \in StreamCall /\ c \notin asked
    /\ asked' = asked \cup {c}
    /\ \/ /\ token[c] = "armed"
          /\ token' = [token EXCEPT ![c] = "cancelled"]
          /\ UNCHANGED up
       \/ /\ token[c] # "armed"
          /\ Send(c, "failure")
          /\ UNCHANGED token
    /\ UNCHANGED <<schedulerVars, scope, live, faulted, home, entry, task, runtime,
                   lifecycle, expiry, ingress, pump, handing, handled, erred>>

-----------------------------------------------------------------------------
(* forward_remote_bidi_input, as dispatched by the scheduler.              *)

Accepts(c) == entry[c].phase # "none" /\ ~entry[c].halfClosed

\* The registry is consulted once; the sender is used after it is unlocked.
InputFindsCall(c) ==
    /\ flight[c].pc = "handling" /\ ~handing[c]
    /\ Accepts(c)
    /\ entry' = [entry EXCEPT ![c].halfClosed = flight[c].eof]
    /\ handing' = [handing EXCEPT ![c] = TRUE]
    /\ UNCHANGED <<schedulerVars, scope, live, faulted, home, token, task, runtime,
                   lifecycle, expiry, ingress, pump, handled, up, erred, asked>>

\* No session takes the input: an eof cancels a stream of that id, anything
\* else is answered BIDI_SESSION_NOT_OPEN.
InputFindsNone(c) ==
    /\ flight[c].pc = "handling" /\ ~handing[c]
    /\ ~Accepts(c)
    /\ HandlerReturned(c)
    /\ \/ /\ flight[c].eof /\ token[c] = "armed"
          /\ token' = [token EXCEPT ![c] = "cancelled"]
          /\ UNCHANGED up
       \/ /\ ~(flight[c].eof /\ token[c] = "armed")
          /\ Send(c, "failure")
          /\ UNCHANGED token
    /\ UNCHANGED <<scope, live, faulted, home, entry, task, runtime, lifecycle,
                   expiry, ingress, pump, handing, handled, erred, asked>>

\* Mutant: off by one.
IngressHasRoomLate(c) == Len(ingress[c]) <= IngressCapacity

IngressHasRoom(c) == Len(ingress[c]) < IngressCapacity

\* Mutant: try_send in place of send, a full queue losing the input.
InputTried(c) ==
    /\ flight[c].pc = "handling" /\ handing[c]
    /\ handing' = [handing EXCEPT ![c] = FALSE]
    /\ ingress' = [ingress EXCEPT ![c] =
           IF ReceiverAlive(c) /\ IngressHasRoom(c)
           THEN Append(@, [n |-> flight[c].n, eof |-> flight[c].eof]) ELSE @]
    /\ HandlerReturned(c)
    /\ UNCHANGED <<scope, live, faulted, home, entry, token, task, runtime, lifecycle, expiry,
                   pump, handled, up, erred, asked>>

\* ingress.send: it waits for room, and fails once the receiver is gone.
InputDelivered(c) ==
    /\ flight[c].pc = "handling" /\ handing[c]
    /\ ReceiverAlive(c) => IngressHasRoom(c)
    /\ handing' = [handing EXCEPT ![c] = FALSE]
    /\ ingress' = [ingress EXCEPT ![c] =
           IF ReceiverAlive(c) THEN Append(@, [n |-> flight[c].n, eof |-> flight[c].eof]) ELSE @]
    /\ HandlerReturned(c)
    /\ UNCHANGED <<scope, live, faulted, home, entry, token, task, runtime,
                   lifecycle, expiry, pump, handled, up, erred, asked>>

\* The scheduler's own steps.
SchedulerStep ==
    /\ Recv \/ \E c \in Call : Completed(c)
    /\ UNCHANGED carrierVars

-----------------------------------------------------------------------------
(* The task that opens a call.                                             *)

\* Any refusal that is answered, before the runtime took the call or by the
\* runtime itself: fail_remote_bidi_opening removes a bidi entry, and a unary
\* call that the runtime refused has a terminal reply.
OpenRefused(c) ==
    /\ task[c] = "opening"
    /\ task' = [task EXCEPT ![c] = "done"]
    /\ RemoveEntry(c)
    /\ Send(c, "failure") \/ (c \in UnaryCall /\ Send(c, "terminal"))
    /\ DropReceiver(c)
    /\ UNCHANGED <<schedulerVars, scope, live, faulted, home, token, runtime,
                   lifecycle, expiry, pump, handing, handled, erred, asked>>

\* A refusal that is only logged: no canonical carrier, no request, no runtime
\* for a stream, a unary refusal that cannot be projected.
OpenUnreported(c) ==
    /\ task[c] = "opening" /\ c \notin BidiCall
    /\ task' = [task EXCEPT ![c] = "done"]
    /\ UNCHANGED <<schedulerVars, scope, live, faulted, home, entry, token, runtime,
                   lifecycle, expiry, ingress, pump, handing, handled, up, erred, asked>>

\* ABILITY_BIDI_NOT_SUPPORTED is answered without removing the entry.
OpenUnsupported(c) ==
    /\ task[c] = "opening" /\ c \in BidiCall
    /\ task' = [task EXCEPT ![c] = "done"]
    /\ OpenerAnswers(c, "failure")
    /\ DropReceiver(c)
    /\ UNCHANGED <<schedulerVars, scope, live, faulted, home, token, runtime,
                   lifecycle, expiry, pump, handing, handled, erred, asked>>

OpenAdmitted(c) ==
    /\ task[c] = "opening"
    /\ task' = [task EXCEPT ![c] = "registering"]
    /\ runtime' = [runtime EXCEPT ![c] = "running"]
    /\ UNCHANGED <<schedulerVars, scope, live, faulted, home, entry, token,
                   lifecycle, expiry, ingress, pump, handing, handled, up, erred, asked>>

\* cancel_opened_bidi: the runtime launched a bidi call, and its admission
\* could not be committed.
BidiCommitFails(c) ==
    /\ task[c] = "registering" /\ c \in BidiCall
    /\ task' = [task EXCEPT ![c] = "done"]
    /\ RemoveEntry(c)
    /\ \/ Stop(c) /\ SendTerminal(c)
       \/ Stray(c) /\ Send(c, "failure")
    /\ DropReceiver(c)
    /\ UNCHANGED <<schedulerVars, scope, live, faulted, home, token, pump, handing,
                   handled, asked>>

\* RegistryState::reserve_entry_slot.
Tracked == {c \in Call : lifecycle[c] # "none"}
SlotFree == Cardinality(Tracked) < MaxTracked

\* Mutant: a bidi call is promoted before its admission is sent.
AfterRegisterEager(c) ==
    CASE c \in BidiCall -> "promoting" [] c \in StreamCall -> "inserting" [] OTHER -> "executing"

AfterRegister(c) ==
    CASE c \in BidiCall -> "admitting" [] c \in StreamCall -> "inserting" [] OTHER -> "executing"

\* InvocationCancellationRegistry::register, the oldest terminal entry making
\* room when the registry is full.
LifecycleRegistered(c) ==
    /\ task[c] = "registering"
    /\ SlotFree \/ expiry # <<>>
    /\ task' = [task EXCEPT ![c] = AfterRegister(c)]
    /\ lifecycle' = [d \in Call |-> CASE d = c -> "active"
                                      [] ~SlotFree /\ d = Head(expiry) -> "none"
                                      [] OTHER -> lifecycle[d]]
    /\ expiry' = IF SlotFree THEN expiry ELSE Tail(expiry)
    /\ UNCHANGED <<schedulerVars, scope, live, faulted, home, entry, token, runtime,
                   ingress, pump, handing, handled, up, erred, asked>>

\* CapacityExhausted: the call is cancelled and answered, its entry left.  A
\* bidi call is answered with its terminal, or a failure if there is none.
LifecycleRefused(c) ==
    /\ task[c] = "registering"
    /\ ~SlotFree /\ expiry = <<>>
    /\ task' = [task EXCEPT ![c] = "done"]
    /\ \/ Stop(c) /\ OpenerAnswers(c, IF c \in StreamCall THEN "failure" ELSE "terminal")
       \/ Stray(c) /\ OpenerAnswers(c, IF c \in UnaryCall THEN "terminal" ELSE "failure")
    /\ DropReceiver(c)
    /\ UNCHANGED <<schedulerVars, scope, live, faulted, home, token, pump, handing,
                   handled, asked>>

\* commit_runtime_admission fails for a stream, or for a unary call that has
\* been executed, or the receipts of that call cannot be projected: the error
\* is logged and nothing is sent.
CommitFails(c) ==
    /\ task[c] \in {"inserting", "executing"}
    /\ task' = [task EXCEPT ![c] = "done"]
    /\ Finalize(c) \/ Stray(c)
    /\ UNCHANGED <<schedulerVars, scope, live, faulted, home, entry, token, ingress,
                   pump, handing, handled, up, asked>>

UnaryReplies(c) ==
    /\ task[c] = "executing"
    /\ task' = [task EXCEPT ![c] = "done"]
    /\ Finalize(c) \/ Stray(c)
    /\ Send(c, "terminal")
    /\ UNCHANGED <<schedulerVars, scope, live, faulted, home, entry, token, ingress,
                   pump, handing, handled, asked>>

\* insert_remote_stream: refused once the scope has ended.
StreamInserted(c) ==
    /\ task[c] = "inserting"
    /\ InScope(c)
    /\ token' = [token EXCEPT ![c] = "armed"]
    /\ task' = [task EXCEPT ![c] = "admitting"]
    /\ UNCHANGED <<schedulerVars, scope, live, faulted, home, entry, runtime,
                   lifecycle, expiry, ingress, pump, handing, handled, up, erred, asked>>

StreamScopeEnded(c) ==
    /\ task[c] = "inserting"
    /\ ~InScope(c)
    /\ task' = [task EXCEPT ![c] = "done"]
    /\ Finalize(c) \/ Stray(c)
    /\ UNCHANGED <<schedulerVars, scope, live, faulted, home, entry, token, ingress,
                   pump, handing, handled, up, asked>>

\* The runtime has no admission receipt for the call: it is finalized, and a
\* bidi call answered with its terminal if there is one.
AdmissionMissing(c) ==
    /\ task[c] = "admitting"
    /\ task' = [task EXCEPT ![c] = "done"]
    /\ \/ Finalize(c) /\ OpenerAnswers(c, IF c \in BidiCall THEN "terminal" ELSE "failure")
       \/ Stray(c) /\ OpenerAnswers(c, "failure")
    /\ token' = [token EXCEPT ![c] = "none"]
    /\ DropReceiver(c)
    /\ UNCHANGED <<schedulerVars, scope, live, faulted, home, pump, handing,
                   handled, asked>>

AdmissionSent(c) ==
    /\ task[c] = "admitting"
    /\ CanSend(c)
    /\ Send(c, "admission")
    /\ task' = [task EXCEPT ![c] = IF c \in BidiCall THEN "promoting" ELSE "forwarding"]
    /\ UNCHANGED <<schedulerVars, scope, live, faulted, home, entry, token, runtime,
                   lifecycle, expiry, ingress, pump, handing, handled, erred, asked>>

\* The admission cannot be projected or sent: the call is cancelled.  Only a
\* stream answers, and only the projection's failure is heard.
AdmissionUnsent(c) ==
    /\ task[c] = "admitting"
    /\ task' = [task EXCEPT ![c] = "done"]
    /\ Finalize(c) \/ Stray(c)
    /\ RemoveEntry(c)
    /\ token' = [token EXCEPT ![c] = "none"]
    /\ IF c \in StreamCall THEN Send(c, "failure") ELSE UNCHANGED up
    /\ DropReceiver(c)
    /\ UNCHANGED <<schedulerVars, scope, live, faulted, home, pump, handing,
                   handled, asked>>

\* register_remote_bidi moves the entry to Active and starts the pump and the
\* forwarder.
Promoted(c) ==
    /\ task[c] = "promoting"
    /\ entry[c].phase = "opening"
    /\ entry' = [entry EXCEPT ![c].phase = "active"]
    /\ task' = [task EXCEPT ![c] = "forwarding"]
    /\ pump' = [pump EXCEPT ![c] = "running"]
    /\ UNCHANGED <<schedulerVars, scope, live, faulted, home, token, runtime,
                   lifecycle, expiry, ingress, handing, handled, up, erred, asked>>

\* BIDI_SESSION_CONFLICT: the scope ended during the open.  The handles are
\* dropped, the invocation is neither cancelled nor finalized.
PromotionFails(c) ==
    /\ task[c] = "promoting"
    /\ entry[c].phase # "opening"
    /\ task' = [task EXCEPT ![c] = "done"]
    /\ Send(c, "failure")
    /\ DropReceiver(c)
    /\ UNCHANGED <<schedulerVars, scope, live, faulted, home, entry, token, runtime,
                   lifecycle, expiry, pump, handing, handled, erred, asked>>

-----------------------------------------------------------------------------
(* The runtime, the forwarder of output and the pump of input.             *)

RuntimeEnds(c) ==
    /\ runtime[c] = "running"
    /\ runtime' = [runtime EXCEPT ![c] = "ended"]
    /\ UNCHANGED <<schedulerVars, scope, live, faulted, home, entry, token, task,
                   lifecycle, expiry, ingress, pump, handing, handled, up, erred, asked>>

\* An output frame cannot be sent, and the loop ends; one that is sent leaves
\* no trace here.
DataUnsent(c) ==
    /\ task[c] = "forwarding" /\ runtime[c] = "running"
    /\ ~CanSend(c)
    /\ task' = [task EXCEPT ![c] = "closing"]
    /\ UNCHANGED <<schedulerVars, scope, live, faulted, home, entry, token, runtime,
                   lifecycle, expiry, ingress, pump, handing, handled, up, erred, asked>>

\* The loop ends without a terminal: the token is cancelled, or the runtime's
\* frames stop.
ForwardingStops(c) ==
    /\ task[c] = "forwarding"
    /\ (c \in StreamCall /\ token[c] = "cancelled") \/ runtime[c] = "ended"
    /\ task' = [task EXCEPT ![c] = "closing"]
    /\ UNCHANGED <<schedulerVars, scope, live, faulted, home, entry, token, runtime,
                   lifecycle, expiry, ingress, pump, handing, handled, up, erred, asked>>

\* An output of a bidi call cannot be mapped: the call is cancelled, and the
\* loop ends, with the terminal if there is one.
OutputUnmapped(c) ==
    /\ task[c] = "forwarding" /\ c \in BidiCall /\ runtime[c] = "running"
    /\ \/ /\ Finalize(c)
          /\ SendTerminal(c)
          /\ task' = [task EXCEPT ![c] = "retiring"]
       \/ /\ Stray(c)
          /\ Send(c, "failure")
          /\ task' = [task EXCEPT ![c] = "closing"]
    /\ UNCHANGED <<schedulerVars, scope, live, faulted, home, entry, token, ingress,
                   pump, handing, handled, asked>>

\* CarrierStreamRegistration::drop and the forwarder's last lines: a stream's
\* token goes with the task, a bidi entry is removed in a step of its own.
AfterForwarding(c) ==
    /\ task' = [task EXCEPT ![c] = IF c \in BidiCall THEN "retiring" ELSE "done"]
    /\ token' = [token EXCEPT ![c] = "none"]

\* A terminal or an error ends the runtime's frames.  Without a finalization
\* the hub is sent a failure; a stream's task is then over, a bidi call's
\* tries once more (Closes).
TerminalForwarded(c) ==
    /\ task[c] = "forwarding" /\ runtime[c] = "ended"
    /\ \/ /\ Finalize(c)
          /\ SendTerminal(c)
          /\ AfterForwarding(c)
       \/ /\ Stray(c)
          /\ Send(c, "failure")
          /\ IF c \in BidiCall
             THEN task' = [task EXCEPT ![c] = "closing"] /\ UNCHANGED token
             ELSE AfterForwarding(c)
    /\ UNCHANGED <<schedulerVars, scope, live, faulted, home, entry, ingress, pump,
                   handing, handled, asked>>

\* cancel_and_finalize, then the terminal; an error is only logged.
Closes(c) ==
    /\ task[c] = "closing"
    /\ \/ Finalize(c) /\ SendTerminal(c)
       \/ Stray(c) /\ UNCHANGED up
    /\ AfterForwarding(c)
    /\ UNCHANGED <<schedulerVars, scope, live, faulted, home, entry, ingress, pump,
                   handing, handled, asked>>

Retires(c) ==
    /\ task[c] = "retiring"
    /\ task' = [task EXCEPT ![c] = "done"]
    /\ RemoveEntry(c)
    /\ UNCHANGED <<schedulerVars, scope, live, faulted, home, token, runtime,
                   lifecycle, expiry, ingress, pump, handing, handled, up, erred, asked>>

\* send_remote_bidi_input_to_handler took the input.
PumpDelivers(c) ==
    /\ pump[c] = "running" /\ ingress[c] # <<>> /\ runtime[c] = "running"
    /\ handled' = [handled EXCEPT ![c] = Append(@, Head(ingress[c]).n)]
    /\ IF Head(ingress[c]).eof
       THEN /\ pump' = [pump EXCEPT ![c] = "stopped"]
            /\ DropReceiver(c)
       ELSE /\ ingress' = [ingress EXCEPT ![c] = Tail(@)]
            /\ UNCHANGED pump
    /\ UNCHANGED <<schedulerVars, scope, live, faulted, home, entry, token, task,
                   runtime, lifecycle, expiry, handing, up, erred, asked>>

\* The handler has closed its input, or every sender of ingress is gone.
PumpStops(c) ==
    /\ pump[c] = "running"
    /\ \/ ingress[c] # <<>>
       \/ entry[c].phase = "none" /\ ~handing[c]
    /\ pump' = [pump EXCEPT ![c] = "stopped"]
    /\ DropReceiver(c)
    /\ UNCHANGED <<schedulerVars, scope, live, faulted, home, entry, token, task,
                   runtime, lifecycle, expiry, handing, handled, up, erred, asked>>

-----------------------------------------------------------------------------
OpenerStep(c) ==
    \/ OpenRefused(c) \/ OpenUnreported(c) \/ OpenUnsupported(c) \/ OpenAdmitted(c)
    \/ BidiCommitFails(c) \/ LifecycleRegistered(c) \/ LifecycleRefused(c) \/ CommitFails(c) \/ UnaryReplies(c)
    \/ StreamInserted(c) \/ StreamScopeEnded(c)
    \/ AdmissionMissing(c) \/ AdmissionSent(c) \/ AdmissionUnsent(c)
    \/ Promoted(c) \/ PromotionFails(c)

ForwarderStep(c) ==
    \/ DataUnsent(c) \/ ForwardingStops(c) \/ OutputUnmapped(c) \/ TerminalForwarded(c)
    \/ Closes(c) \/ Retires(c)

InputStep(c) == InputFindsCall(c) \/ InputFindsNone(c) \/ InputDelivered(c)

Next ==
    \/ BeginSession \/ LinkFails \/ EndSession \/ SchedulerStep
    \/ \E c \in Call :
          \/ SaturatedEnds(c) \/ OpenArrives(c) \/ OpenRejected(c) \/ CancelArrives(c)
          \/ \E eof \in BOOLEAN : InputArrives(c, eof)
          \/ InputStep(c) \/ OpenerStep(c) \/ ForwarderStep(c)
          \/ RuntimeEnds(c) \/ PumpDelivers(c) \/ PumpStops(c)

Spec == Init /\ [][Next]_vars

\* What the forwarder does without the runtime: it stops on its token, and
\* finishes what it has begun.
ForwarderReacts(c) ==
    \/ token[c] = "cancelled" /\ ForwardingStops(c)
    \/ TerminalForwarded(c) \/ Closes(c) \/ Retires(c)

\* Every spawned task of a stream goes on, the runtime answering an open, a
\* receipt, a cancel and a finalization, with an error or not; of its own
\* accord it may be silent for ever.
FairSpec ==
    /\ Spec
    /\ \A c \in StreamCall : WF_vars(OpenerStep(c)) /\ WF_vars(ForwarderReacts(c))

-----------------------------------------------------------------------------
\* What the handler of a bidi call was given is what the hub sent it: in
\* order, nothing missing, nothing twice, whatever waited in the scheduler,
\* in a lane or in the ingress queue while the call was opening ("A full
\* queue backpressures the session transport; no frame is discarded").
InputIsFaithful ==
    \A c \in Call : \A i \in DOMAIN handled[c] : handled[c][i] = i

\* No input reaches a handler before the hub was sent the call's admission
\* (register_remote_bidi: "Admission is a delivery barrier").
AdmissionIsBarrier ==
    \A c \in BidiCall : handled[c] # <<>> => "admission" \in up[c]

\* No entry or token outlives its scope, and no late opener puts one into a
\* retired or later scope (end_carrier_scope: "no stale call id can survive
\* into the next carrier scope").
NoStaleRegistration ==
    \A c \in Call : entry[c].phase # "none" \/ token[c] = "armed" => InScope(c)

\* A running invocation, and one the lifecycle registry holds as active, has
\* a task that will finalize it, on every path by which an opener or a
\* forwarder ends: no early return forgets the invocation.  Two exceptions: the
\* runtime itself reported an error to the cancel or the finalization, which
\* nobody retries; and a bidi call whose scope ended between its admission
\* frame and its promotion, which register_remote_bidi does not cancel.
RuntimeIsOwned ==
    \A c \in Call :
        /\ runtime[c] = "running" \/ lifecycle[c] = "active"
        /\ task[c] = "done"
        => \/ c \in erred
           \/ c \in BidiCall /\ ~InScope(c) /\ "admission" \in up[c]

\* An entry that an early return of the bidi opener leaves in the registry,
\* where it goes on accepting input until the scope ends, is one whose call
\* the hub was told to have failed or ended: every silent return takes its
\* entry along (schedule_canonical_carrier_bidi_open, register_remote_bidi).
LeftEntryIsAnswered ==
    \A c \in Call :
        entry[c].phase # "none" /\ task[c] = "done"
        => up[c] \cap {"failure", "terminal"} # {}

\* When a session ends, every stream it carried is stopped in the runtime and
\* its task ends, at whatever point of its life it was (end_carrier_scope),
\* unless the runtime reported an error to its cancel or finalization.
ScopeEndStopsStreams ==
    \A c \in StreamCall :
        (home[c] # 0 /\ ~InScope(c))
        ~> (task[c] = "done" /\ (runtime[c] # "running" \/ c \in erred))

\* A stream the hub asked to cancel does not go on being forwarded with its
\* token intact ("Cancellation must reach the RUNTIME task, not just this
\* forwarder").
CancelReachesRuntime ==
    \A c \in asked : task[c] = "forwarding" => token[c] # "armed"
=============================================================================
