--------------------------- MODULE PendingStreams ---------------------------
(***************************************************************************)
(* Streamed cross-device dispatch over one device session: the table       *)
(* PendingStreamDispatchMap (bidi/state/pending_dispatch.rs), the drain    *)
(* that is the only reader of the session's up frames                      *)
(* (bidi/bidi_dispatcher.rs), the two kinds of relay that forward a call's *)
(* events to its client, and the presence watcher's cancel_for.            *)
(*                                                                         *)
(* A call in Lossless is an InvokeBidi (dispatch_remote_bidi, policy       *)
(* LosslessBackpressure); any other is an InvokeStream                     *)
(* (project_forwarded_remote_stream, policy BoundedNoWait).  The device is *)
(* free to send any frames in any order.  Payloads, receipts and their     *)
(* signatures are left out: whether a receipt verifies is a free choice.   *)
(***************************************************************************)
EXTENDS SequencesExt

CONSTANTS
    Stream,         \* streamed calls the hub forwards to the device
    Lossless,       \* those of them that are InvokeBidi
    ChanCapacity,   \* PendingStreamDispatchMap::CHANNEL_CAPACITY
    OutCapacity,    \* capacity of a relay's channel to its client
    MaxFrames,      \* bound: frames the device sends
    Sends           \* bound: the kinds of frames it sends

ASSUME StreamAssumption ==
    /\ Lossless \subseteq Stream
    /\ ChanCapacity \in Nat \ {0}
    /\ OutCapacity \in Nat \ {0}
    /\ MaxFrames \in Nat
    /\ Sends \subseteq {"admission", "chunk", "terminal", "faulty"}
    /\ "none" \notin Stream

VARIABLES
    entries,    \* calls with an entry in the table
    chan,       \* per call: the entry's bounded channel of DispatchStreamEvents
    wire,       \* the session's up frames the drain has not read
    script,     \* history, per call: the frames the device sent
    drain,      \* the delivery the drain is in the middle of
    relay,      \* per call: the task forwarding events to the client
    caller,     \* per call: the task reading the client's up stream
    cancelling, \* calls the watcher's current cancel_for collected
    out,        \* per call: what the relay has sent to the client
    client      \* per call: is the client connected, how much it has read

vars == <<entries, chan, wire, script, drain, relay, caller, cancelling, out, client>>

Bounded == Stream \ Lossless

\* A DispatchResult as classified: "faulty" is a failure or a malformed frame.
DeviceFrame == {"admission", "chunk", "terminal", "faulty"}

\* A Terminal without a terminal receipt is a "failed" one.
Event == {"admission", "chunk", "terminal", "failed"}
Item == {"admission", "chunk", "terminal", "error"}
Classify(f) == IF f = "faulty" THEN "failed" ELSE f

NoCall == "none"
Idle == [call |-> NoCall, event |-> "failed"]

RelayRecord == [pc        : {"absent", "registered", "reading", "sending", "cancelling", "stopped"},
                item      : Item,
                last      : BOOLEAN,    \* the loop breaks after this item
                admitted  : BOOLEAN,    \* ForwardedFinalizationVerifier.admission
                connected : BOOLEAN,    \* client_connected
                asked     : BOOLEAN]    \* cancel_requested

NewRelay == [pc |-> "absent", item |-> "error", last |-> FALSE, admitted |-> FALSE,
             connected |-> TRUE, asked |-> FALSE]

TypeOK ==
    /\ entries \subseteq Stream
    /\ chan \in [Stream -> Seq(Event)]
    /\ \A c \in Stream : Len(chan[c]) <= ChanCapacity
    /\ wire \in Seq(Stream \X DeviceFrame)
    /\ script \in [Stream -> Seq(DeviceFrame)]
    /\ drain \in [call : Stream \cup {NoCall}, event : Event]
    /\ relay \in [Stream -> RelayRecord]
    /\ caller \in [Stream -> {"absent", "reading", "finishing", "done"}]
    /\ cancelling \subseteq Stream
    /\ out \in [Stream -> Seq(Item)]
    /\ client \in [Stream -> [linked : BOOLEAN, read : Nat]]
    /\ \A c \in Stream : client[c].read <= Len(out[c])

Init ==
    /\ entries = {}
    /\ chan = [c \in Stream |-> << >>]
    /\ wire = << >>
    /\ script = [c \in Stream |-> << >>]
    /\ drain = Idle
    /\ relay = [c \in Stream |-> NewRelay]
    /\ caller = [c \in Stream |-> "absent"]
    /\ cancelling = {}
    /\ out = [c \in Stream |-> << >>]
    /\ client = [c \in Stream |-> [linked |-> TRUE, read |-> 0]]

-----------------------------------------------------------------------------
(***************************************************************************)
(* The table's entries and channels.                                       *)
(***************************************************************************)

\* The relay owns the receiver, inside its PendingStreamHandle.
Open(c) == relay[c].pc \notin {"absent", "stopped"}

\* Mutant: one event too many fits.
HasRoomLate(c) == Len(chan[c]) <= ChanCapacity

HasRoom(c) == Len(chan[c]) < ChanCapacity

\* Senders of a call's channel: its entry, the drain's clone, finish's entry.
SenderAlive(c) == c \in entries \/ drain.call = c \/ caller[c] = "finishing"

Send(c, e) == chan' = [chan EXCEPT ![c] = Append(@, e)]

TrySend(c, e) ==
    IF Open(c) /\ HasRoom(c) THEN Send(c, e) ELSE UNCHANGED chan

Unread(c) == Len(out[c]) - client[c].read

\* Mutant: the handle's drop leaves the entry in the table.
KeepEntry(c) ==
    /\ entries' = entries
    /\ chan' = [chan EXCEPT ![c] = << >>]

\* Drop for PendingStreamHandle, and of the receiver inside it.
DropHandle(c) ==
    /\ entries' = entries \ {c}
    /\ chan' = [chan EXCEPT ![c] = << >>]

\* register_pending_for_policy.
Register(c) ==
    /\ relay[c].pc = "absent"
    /\ relay' = [relay EXCEPT ![c].pc = "registered"]
    /\ entries' = entries \cup {c}
    /\ UNCHANGED <<chan, wire, script, drain, caller, cancelling, out, client>>

\* No signer key, or the open frame finds the session busy or gone: an Err.
OpenFails(c) ==
    /\ relay[c].pc = "registered"
    /\ relay' = [relay EXCEPT ![c].pc = "stopped"]
    /\ DropHandle(c)
    /\ out' = [out EXCEPT ![c] = Append(@, "error")]
    /\ UNCHANGED <<wire, script, drain, caller, cancelling, client>>

\* The open frame is queued; relay and, for InvokeBidi, caller task are spawned.
OpenSent(c) ==
    /\ relay[c].pc = "registered"
    /\ relay' = [relay EXCEPT ![c].pc = "reading"]
    /\ caller' = [caller EXCEPT ![c] = IF c \in Lossless THEN "reading" ELSE "absent"]
    /\ UNCHANGED <<entries, chan, wire, script, drain, cancelling, out, client>>

-----------------------------------------------------------------------------
(***************************************************************************)
(* The device and the session drain.                                       *)
(***************************************************************************)

FramesSent == MapThenSumSet(LAMBDA c : Len(script[c]), Stream)

\* The device answers a call it was handed, and may go on after its terminal.
DeviceSend(c, f) ==
    /\ relay[c].pc \notin {"absent", "registered"}
    /\ FramesSent < MaxFrames
    /\ wire' = Append(wire, <<c, f>>)
    /\ script' = [script EXCEPT ![c] = Append(@, f)]
    /\ UNCHANGED <<entries, chan, drain, relay, caller, cancelling, out, client>>

\* A frame is read and its entry's sender cloned; a terminal takes the entry out.
DrainRead ==
    /\ drain = Idle
    /\ wire # << >>
    /\ wire' = Tail(wire)
    /\ LET c == Head(wire)[1]
           e == Classify(Head(wire)[2])
       IN IF c \notin entries
          THEN UNCHANGED <<drain, entries>>
          ELSE /\ drain' = [call |-> c, event |-> e]
               /\ entries' = IF e \in {"terminal", "failed"} THEN entries \ {c} ELSE entries
    /\ UNCHANGED <<chan, script, relay, caller, cancelling, out, client>>

\* Mutant: the drain does not notice that the receiver is gone.
NoMatchEntryOnly(c) ==
    /\ c \in Bounded /\ drain.event = "chunk" /\ c \notin entries
    /\ UNCHANGED <<entries, chan>>

\* The receiver is gone, or try_push_chunk finds the entry gone: NoMatch.
DeliverNoMatch(c) ==
    /\ \/ ~Open(c)
       \/ c \in Bounded /\ drain.event = "chunk" /\ c \notin entries
    /\ entries' = entries \ {c}
    /\ UNCHANGED chan

DeliverSent(c) ==
    /\ Open(c)
    /\ HasRoom(c)
    /\ c \in Bounded /\ drain.event = "chunk" => c \in entries
    /\ Send(c, drain.event)
    /\ UNCHANGED entries

\* Mutant: a frame that does not fit is dropped and the call goes on.
DropFrame(c) ==
    /\ Open(c)
    /\ ~HasRoom(c)
    /\ UNCHANGED <<entries, chan>>

\* Mutant: a bounded call's consumer is waited for as well.
WaitForBounded(c) == FALSE

\* ConsumerStalled: a bounded call is evicted; a lossless one is waited for.
DeliverStalled(c) ==
    /\ Open(c)
    /\ ~HasRoom(c)
    /\ c \in Bounded
    /\ entries' = entries \ {c}
    /\ UNCHANGED chan

\* deliver_admission, deliver_chunk, deliver_terminal after the lookup.
DrainDeliver ==
    /\ drain # Idle
    /\ \/ DeliverNoMatch(drain.call)
       \/ DeliverSent(drain.call)
       \/ DeliverStalled(drain.call)
    /\ drain' = Idle
    /\ UNCHANGED <<wire, script, relay, caller, cancelling, out, client>>

\* The watcher reads an Offline for the device: cancel_for collects the calls ...
GoOffline ==
    /\ cancelling = {}
    /\ entries # {}
    /\ cancelling' = entries
    /\ UNCHANGED <<entries, chan, wire, script, drain, relay, caller, out, client>>

\* ... and removes each one still there, with a Terminal if there is room for it.
CancelOne(c) ==
    /\ c \in cancelling
    /\ cancelling' = cancelling \ {c}
    /\ entries' = entries \ {c}
    /\ IF c \in entries THEN TrySend(c, "failed") ELSE UNCHANGED chan
    /\ UNCHANGED <<wire, script, drain, relay, caller, out, client>>

-----------------------------------------------------------------------------
(***************************************************************************)
(* The relay.                                                              *)
(***************************************************************************)

\* Mutant: data is forwarded before the admission checkpoint.
VerdictUnordered(c, e, ok) ==
    CASE e = "admission" -> IF ok THEN "admission" ELSE "error"
      [] e = "chunk"     -> "chunk"
      [] e = "terminal"  -> IF ok THEN "terminal" ELSE "error"
      [] e = "failed"    -> "error"

(***************************************************************************)
(* What ForwardedFinalizationVerifier makes of an event: admit,            *)
(* observe_data and finalize.  ok says that the receipt verifies.          *)
(***************************************************************************)
Verdict(c, e, ok) ==
    CASE e = "admission" -> IF ok /\ ~relay[c].admitted THEN "admission" ELSE "error"
      [] e = "chunk"     -> IF relay[c].admitted THEN "chunk" ELSE "error"
      [] e = "terminal"  -> IF ok /\ relay[c].admitted THEN "terminal" ELSE "error"
      [] e = "failed"    -> "error"

\* The loop breaks on a terminal and on every error.
IsLast(item) == item \in {"terminal", "error"}

RelayRecv(c) ==
    /\ relay[c].pc = "reading"
    /\ chan[c] # << >>
    /\ chan' = [chan EXCEPT ![c] = Tail(@)]
    /\ \E ok \in BOOLEAN :
          LET item == Verdict(c, Head(chan[c]), ok) IN
          relay' = [relay EXCEPT ![c].pc = "sending",
                                 ![c].item = item,
                                 ![c].last = IsLast(item),
                                 ![c].admitted = @ \/ item = "admission"]
    /\ UNCHANGED <<entries, wire, script, drain, caller, cancelling, out, client>>

Stop(c) ==
    /\ relay' = [relay EXCEPT ![c].pc = "stopped"]
    /\ DropHandle(c)

AfterSend(c) ==
    IF relay[c].last
    THEN Stop(c)
    ELSE relay' = [relay EXCEPT ![c].pc = "reading"] /\ UNCHANGED <<entries, chan>>

\* An awaited send that has room; errors go out whatever client_connected says.
RelaySend(c) ==
    /\ relay[c].pc = "sending"
    /\ client[c].linked
    /\ relay[c].connected \/ relay[c].item = "error"
    /\ Unread(c) < OutCapacity
    /\ out' = [out EXCEPT ![c] = Append(@, relay[c].item)]
    /\ AfterSend(c)
    /\ UNCHANGED <<wire, script, drain, caller, cancelling, client>>

\* InvokeStream no longer forwards to a client it has given up on.
RelaySkip(c) ==
    /\ relay[c].pc = "sending"
    /\ ~relay[c].connected
    /\ relay[c].item # "error"
    /\ AfterSend(c)
    /\ UNCHANGED <<wire, script, drain, caller, cancelling, out, client>>

\* The send fails, the client being gone: break, or ask the device to cancel.
RelaySendFails(c) ==
    /\ relay[c].pc = "sending"
    /\ ~client[c].linked
    /\ relay[c].connected \/ relay[c].item = "error"
    /\ IF c \in Lossless \/ relay[c].last
       THEN Stop(c)
       ELSE /\ relay' = [relay EXCEPT ![c].connected = FALSE,
                                      ![c].pc = IF relay[c].asked THEN "reading" ELSE "cancelling"]
            /\ UNCHANGED <<entries, chan>>
    /\ UNCHANGED <<wire, script, drain, caller, cancelling, out, client>>

\* Mutant: InvokeStream ends as quietly as InvokeBidi.
SourceClosedQuietly(c) ==
    /\ relay[c].pc = "reading"
    /\ chan[c] = << >>
    /\ ~SenderAlive(c)
    /\ Stop(c)
    /\ UNCHANGED <<wire, script, drain, caller, cancelling, out, client>>

\* recv returns None: InvokeBidi just ends, InvokeStream says so to its client.
RelaySourceClosed(c) ==
    /\ relay[c].pc = "reading"
    /\ chan[c] = << >>
    /\ ~SenderAlive(c)
    /\ IF c \in Bounded /\ relay[c].connected /\ client[c].linked
       THEN /\ Unread(c) < OutCapacity
            /\ out' = [out EXCEPT ![c] = Append(@, "error")]
       ELSE UNCHANGED out
    /\ Stop(c)
    /\ UNCHANGED <<wire, script, drain, caller, cancelling, client>>

\* InvokeStream: the response stream was dropped by the client.
RelayConsumerClosed(c) ==
    /\ c \in Bounded
    /\ relay[c].pc = "reading"
    /\ relay[c].connected
    /\ ~client[c].linked
    /\ relay' = [relay EXCEPT ![c].connected = FALSE,
                              ![c].pc = IF relay[c].asked THEN "reading" ELSE "cancelling"]
    /\ UNCHANGED <<entries, chan, wire, script, drain, caller, cancelling, out, client>>

\* InvokeStream: the invocation deadline, told to a client still there.
RelayDeadline(c) ==
    /\ c \in Bounded
    /\ relay[c].pc = "reading"
    /\ ~relay[c].asked
    /\ IF relay[c].connected /\ client[c].linked
       THEN /\ Unread(c) < OutCapacity
            /\ out' = [out EXCEPT ![c] = Append(@, "error")]
       ELSE UNCHANGED out
    /\ relay' = [relay EXCEPT ![c].connected = FALSE, ![c].pc = "cancelling"]
    /\ UNCHANGED <<entries, chan, wire, script, drain, caller, cancelling, client>>

\* request_remote_stream_cancellation puts a cancel frame on the session.
RelayCancelSent(c) ==
    /\ relay[c].pc = "cancelling"
    /\ relay' = [relay EXCEPT ![c].pc = "reading", ![c].asked = TRUE]
    /\ UNCHANGED <<entries, chan, wire, script, drain, caller, cancelling, out, client>>

\* The session is gone, or REMOTE_STREAM_CANCEL_DRAIN_TIMEOUT has passed.
RelayGivesUp(c) ==
    /\ \/ relay[c].pc = "cancelling"
       \/ relay[c].pc = "reading" /\ relay[c].asked
    /\ Stop(c)
    /\ UNCHANGED <<wire, script, drain, caller, cancelling, out, client>>

-----------------------------------------------------------------------------
(***************************************************************************)
(* The caller task of an InvokeBidi, and the clients.                      *)
(***************************************************************************)

\* finish: a broken up stream, a bad frame, or a session that is busy or gone.
CallerFails(c) ==
    /\ caller[c] = "reading"
    /\ caller' = [caller EXCEPT ![c] = IF c \in entries THEN "finishing" ELSE "done"]
    /\ entries' = entries \ {c}
    /\ UNCHANGED <<chan, wire, script, drain, relay, cancelling, out, client>>

\* finish awaits room for its Terminal.
CallerFinishes(c) ==
    /\ caller[c] = "finishing"
    /\ Open(c) => HasRoom(c)
    /\ TrySend(c, "failed")
    /\ caller' = [caller EXCEPT ![c] = "done"]
    /\ UNCHANGED <<entries, wire, script, drain, relay, cancelling, out, client>>

\* The client's up stream ends: an EOF frame to the device, nothing here.
CallerEnds(c) ==
    /\ caller[c] = "reading"
    /\ caller' = [caller EXCEPT ![c] = "done"]
    /\ UNCHANGED <<entries, chan, wire, script, drain, relay, cancelling, out, client>>

ClientReads(c) ==
    /\ client[c].linked
    /\ Unread(c) > 0
    /\ client' = [client EXCEPT ![c].read = @ + 1]
    /\ UNCHANGED <<entries, chan, wire, script, drain, relay, caller, cancelling, out>>

ClientLeaves(c) ==
    /\ client[c].linked
    /\ Open(c)
    /\ relay[c].pc # "registered"
    /\ client' = [client EXCEPT ![c].linked = FALSE]
    /\ UNCHANGED <<entries, chan, wire, script, drain, relay, caller, cancelling, out>>

-----------------------------------------------------------------------------
RelayStep(c) ==
    \/ RelayRecv(c) \/ RelaySend(c) \/ RelaySkip(c) \/ RelaySendFails(c)
    \/ RelaySourceClosed(c) \/ RelayConsumerClosed(c)

Next ==
    \/ DrainRead \/ DrainDeliver \/ GoOffline
    \/ \E c \in Stream :
          \/ Register(c) \/ OpenFails(c) \/ OpenSent(c)
          \/ \E f \in Sends : DeviceSend(c, f)
          \/ CancelOne(c)
          \/ RelayStep(c) \/ RelayDeadline(c) \/ RelayCancelSent(c) \/ RelayGivesUp(c)
          \/ CallerFails(c) \/ CallerFinishes(c) \/ CallerEnds(c)
          \/ ClientReads(c) \/ ClientLeaves(c)

(***************************************************************************)
(* The hub's tasks run whenever they can.  Nothing is assumed of clients,  *)
(* of the device or of the session's down channel.                         *)
(***************************************************************************)
Fairness ==
    /\ WF_vars(DrainRead)
    /\ WF_vars(DrainDeliver)
    /\ \A c \in Stream : /\ WF_vars(CancelOne(c))
                         /\ WF_vars(RelayStep(c))
                         /\ WF_vars(CallerFinishes(c))

Spec == Init /\ [][Next]_vars /\ Fairness

-----------------------------------------------------------------------------
(***************************************************************************)
(* Properties.                                                             *)
(***************************************************************************)

\* The client is shown the i-th item: a gRPC response ends at its first error.
Shown(c, i) == \A j \in 1..(i - 1) : out[c][j] # "error"

(***************************************************************************)
(* Whatever the consumer's speed, the evictions, the cancellations and the *)
(* order in which they meet late frames, the client is shown a prefix of   *)
(* what its device sent: no frame is skipped, repeated or reordered, and a *)
(* canonical terminal is shown only after every frame before it            *)
(* (deliver_chunk's eviction on Full, deliver_terminal's remove).          *)
(***************************************************************************)
StreamIsFaithful ==
    \A c \in Stream : \A i \in 1..Len(out[c]) :
       Shown(c, i) /\ out[c][i] # "error" =>
          i \in 1..Len(script[c]) /\ out[c][i] = script[c][i]

(***************************************************************************)
(* The client is shown one admission, first, then data, then at most one   *)
(* terminal, last, even when the device sends something else               *)
(* (ForwardedFinalizationVerifier and the relay loops).                    *)
(***************************************************************************)
CanonicalOrder ==
    \A c \in Stream : \A i \in 1..Len(out[c]) : Shown(c, i) =>
       /\ out[c][i] = "admission" => i = 1
       /\ out[c][i] \in {"chunk", "terminal"} => i > 1
       /\ out[c][i] = "terminal" => i = Len(out[c])

(***************************************************************************)
(* PendingStreamHandle's drop keeps the table from leaking: an entry       *)
(* exists only while its handle does, on every way out of the relay.       *)
(***************************************************************************)
EntryHasHandle == \A c \in entries : Open(c)

\* A connected client whose stream is over was given a terminal or an error.
Concluded(c) ==
    relay[c].pc = "stopped" /\ client[c].linked
       => \E i \in 1..Len(out[c]) : IsLast(out[c][i])

(***************************************************************************)
(* An InvokeStream never just stops: a terminal dropped because the queue  *)
(* was full is replaced by CANONICAL_TERMINAL_REQUIRED.                    *)
(***************************************************************************)
BoundedIsConcluded == \A c \in Bounded : Concluded(c)

(***************************************************************************)
(* The drain always gets through its frames, except while it waits for an  *)
(* InvokeBidi whose client stays connected and does not read.  Where every *)
(* call is an InvokeStream nothing holds it up, however slow their clients *)
(* are: a full queue evicts its call (try_push_chunk, ConsumerStalled).    *)
(***************************************************************************)
DrainStallsOnlyOnLossless ==
    \/ []<>(drain = Idle /\ wire = << >>)
    \/ \E c \in Lossless :
          <>[](drain.call = c /\ client[c].linked /\ Unread(c) = OutCapacity)

(***************************************************************************)
(* The relays keep the contract of StreamContract: the client's view is    *)
(* what was sent to it up to its first error, and a stream is closed when  *)
(* its relay has stopped.  Every step of every task is a step of the       *)
(* contract or invisible to client and device.                             *)
(***************************************************************************)
Visible(c) == [i \in {j \in 1..Len(out[c]) : Shown(c, j)} |-> out[c][i]]

Progress(c) ==
    CASE relay[c].pc = "absent"  -> "idle"
      [] relay[c].pc = "stopped" -> "closed"
      [] OTHER                   -> "open"

Contract == INSTANCE StreamContract WITH
    sent    <- script,
    shown   <- [c \in Stream |-> Visible(c)],
    status  <- [c \in Stream |-> Progress(c)],
    present <- [c \in Stream |-> client[c].linked]

ImplementsContract == Contract!Spec

(***************************************************************************)
(* DispatchStreamEvent: "one canonical `Admission`, zero or more `Chunk`s, *)
(* then exactly one `Terminal`".  cancel_for's try_send drops the Terminal *)
(* of a lossless stream whose queue is full, and the InvokeBidi relay then *)
(* ends without a word to a client that is still connected.                *)
(***************************************************************************)
EveryStreamIsConcluded == \A c \in Stream : Concluded(c)

(***************************************************************************)
(* settle_terminal_result: "this runs on the session drain ... so it must  *)
(* never wait on one call's consumer".  deliver_terminal awaits room in    *)
(* the queue of a lossless stream, for as long as its client does not      *)
(* read, and nothing else of the device's session is read meanwhile.       *)
(***************************************************************************)
TerminalNeverWaits ==
    drain # Idle /\ drain.event \in {"terminal", "failed"} ~> drain = Idle
=============================================================================
