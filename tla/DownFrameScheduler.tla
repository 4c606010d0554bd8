------------------------- MODULE DownFrameScheduler -------------------------
(***************************************************************************)
(* The device's scheduler of bidi input frames that the hub pushes down    *)
(* one session (bidi/session_initiator/frame_scheduler.rs).  The session's *)
(* frame loop admits a frame against a global and a per-call budget of     *)
(* permits and queues it; one task takes frames off the queue and runs at  *)
(* most one dispatch per call, later frames of that call waiting in its    *)
(* lane.  A dispatch gives its permits back when handle_down returns, the  *)
(* task learns of its end afterwards.                                      *)
(*                                                                         *)
(* A frame is its call, its position among the inputs the hub sent that    *)
(* call, and its eof flag.  What handle_down does is the business of the   *)
(* module that composes this one (CarrierCalls); here it returns whenever  *)
(* it likes.                                                               *)
(***************************************************************************)
EXTENDS FiniteSetsExt, SequencesExt

CONSTANTS
    Call,           \* call ids the hub uses on this device
    SessionBudget,  \* DISPATCH_CHANNEL_CAPACITY: permits, and slots of the queue
    CallBudget,     \* BIDI_FRAMES_PER_CALL
    MaxInputs       \* bound: inputs the hub sends one call

ASSUME SchedulerAssumption ==
    /\ SessionBudget \in Nat \ {0}
    /\ CallBudget \in 1..(SessionBudget - 1)
    /\ MaxInputs \in Nat

VARIABLES
    queue,      \* the mpsc channel from route to run_bidi_scheduler
    lanes,      \* per call: `pending`, its frames behind the one in flight
    flight,     \* per call: `active` and `in_flight`, its dispatch
    retained,   \* per call: SessionBidiBudget.per_call
    free,       \* permits left in SessionBidiBudget.global
    sent,       \* history, per call: inputs the hub sent in this session
    started     \* history, per call: inputs whose dispatch has begun

schedulerVars == <<queue, lanes, flight, retained, free, sent, started>>

Frame == [call : Call, n : 1..MaxInputs, eof : BOOLEAN]
Slot == [pc : {"idle", "handling", "returned"}, n : 0..MaxInputs, eof : BOOLEAN]

SchedulerTypeOK ==
    /\ queue \in Seq(Frame)
    /\ lanes \in [Call -> Seq(Frame)]
    /\ flight \in [Call -> Slot]
    /\ retained \in [Call -> 0..CallBudget]
    /\ free \in 0..SessionBudget
    /\ sent \in [Call -> 0..MaxInputs]
    /\ started \in [Call -> 0..MaxInputs]

IdleSlot == [pc |-> "idle", n |-> 0, eof |-> FALSE]
Handling(f) == [pc |-> "handling", n |-> f.n, eof |-> f.eof]

\* SessionDownFrameScheduler::spawn.
EmptyScheduler ==
    /\ queue = <<>>
    /\ lanes = [c \in Call |-> <<>>]
    /\ flight = [c \in Call |-> IdleSlot]
    /\ retained = [c \in Call |-> 0]
    /\ free = SessionBudget

SchedulerInit ==
    /\ EmptyScheduler
    /\ sent = [c \in Call |-> 0]
    /\ started = [c \in Call |-> 0]

-----------------------------------------------------------------------------
\* Mutant: the call's own share is not asked for.
CanReserveAny(c) == free > 0

\* SessionBidiBudget::reserve: the global permit first, then the call's.
CanReserve(c) == free > 0 /\ retained[c] < CallBudget

\* try_send into a channel with as many slots as there are permits.
QueueHasRoom == Len(queue) < SessionBudget

\* route admits an input of call c.
RouteInput(c, eof) ==
    /\ sent[c] < MaxInputs
    /\ CanReserve(c)
    /\ QueueHasRoom
    /\ sent' = [sent EXCEPT ![c] = @ + 1]
    /\ queue' = Append(queue, [call |-> c, n |-> sent[c] + 1, eof |-> eof])
    /\ retained' = [retained EXCEPT ![c] = @ + 1]
    /\ free' = free - 1
    /\ UNCHANGED <<lanes, flight, started>>

\* route returns SessionSaturated or CallSaturated, which ends the session.
RouteSaturated(c) ==
    /\ sent[c] < MaxInputs
    /\ ~(CanReserve(c) /\ QueueHasRoom)

\* Mutant: a lane is filled from the wrong end.
RecvLast ==
    /\ queue # <<>>
    /\ LET f == Head(queue) IN
       \/ /\ flight[f.call].pc = "idle"
          /\ flight' = [flight EXCEPT ![f.call] = Handling(f)]
          /\ started' = [started EXCEPT ![f.call] = f.n]
          /\ UNCHANGED lanes
       \/ /\ flight[f.call].pc # "idle"
          /\ lanes' = [lanes EXCEPT ![f.call] = <<f>> \o @]
          /\ UNCHANGED <<flight, started>>
    /\ queue' = Tail(queue)
    /\ UNCHANGED <<retained, free, sent>>

\* The task receives a frame: it starts the call's dispatch or joins its lane.
Recv ==
    /\ queue # <<>>
    /\ LET f == Head(queue) IN
       \/ /\ flight[f.call].pc = "idle"
          /\ flight' = [flight EXCEPT ![f.call] = Handling(f)]
          /\ started' = [started EXCEPT ![f.call] = f.n]
          /\ UNCHANGED lanes
       \/ /\ flight[f.call].pc # "idle"
          /\ lanes' = [lanes EXCEPT ![f.call] = Append(@, f)]
          /\ UNCHANGED <<flight, started>>
    /\ queue' = Tail(queue)
    /\ UNCHANGED <<retained, free, sent>>

\* Mutant: the session's permit is forgotten when a dispatch returns.
HandlerKeepsPermit(c) ==
    /\ flight[c].pc = "handling"
    /\ flight' = [flight EXCEPT ![c].pc = "returned"]
    /\ retained' = [retained EXCEPT ![c] = @ - 1]
    /\ UNCHANGED <<queue, lanes, free, sent, started>>

\* dispatch_bidi_frame: handle_down has returned and the permits are dropped.
HandlerReturned(c) ==
    /\ flight[c].pc = "handling"
    /\ flight' = [flight EXCEPT ![c].pc = "returned"]
    /\ retained' = [retained EXCEPT ![c] = @ - 1]
    /\ free' = free + 1
    /\ UNCHANGED <<queue, lanes, sent, started>>

\* The task learns that a call's dispatch ended: the next frame of the lane is
\* dispatched, or the call stops being active.
Completed(c) ==
    /\ flight[c].pc = "returned"
    /\ \/ /\ lanes[c] # <<>>
          /\ flight' = [flight EXCEPT ![c] = Handling(Head(lanes[c]))]
          /\ started' = [started EXCEPT ![c] = Head(lanes[c]).n]
          /\ lanes' = [lanes EXCEPT ![c] = Tail(@)]
       \/ /\ lanes[c] = <<>>
          /\ flight' = [flight EXCEPT ![c] = IdleSlot]
          /\ UNCHANGED <<lanes, started>>
    /\ UNCHANGED <<queue, retained, free, sent>>

\* SessionDownFrameScheduler::drop aborts the task: every frame and permit goes.
\* A new session's scheduler starts from the same state.
Abort ==
    /\ queue' = <<>>
    /\ lanes' = [c \in Call |-> <<>>]
    /\ flight' = [c \in Call |-> IdleSlot]
    /\ retained' = [c \in Call |-> 0]
    /\ free' = SessionBudget
    /\ sent' = [c \in Call |-> 0]
    /\ started' = [c \in Call |-> 0]

SchedulerNext ==
    \/ \E c \in Call : \/ \E eof \in BOOLEAN : RouteInput(c, eof)
                       \/ HandlerReturned(c)
                       \/ Completed(c)
    \/ Recv
    \/ Abort

SchedulerSpec == SchedulerInit /\ [][SchedulerNext]_schedulerVars

-----------------------------------------------------------------------------
\* Where the queue has frames of call c, and the numbers of the frames that
\* are held for it: queued, in its lane, or being handled.
QueuedOf(c) == {i \in DOMAIN queue : queue[i].call = c}
HeldOf(c) ==
    {queue[i].n : i \in QueuedOf(c)} \cup {lanes[c][i].n : i \in DOMAIN lanes[c]}
    \cup {n \in {flight[c].n} : flight[c].pc = "handling"}
HeldFrames == {f \in Call \X (1..MaxInputs) : f[2] \in HeldOf(f[1])}

\* Every frame the scheduler holds has one permit of its call and one of the
\* session, and every permit has its frame: none leaks when a dispatch
\* returns, when a reservation fails halfway or when the task is aborted
\* (SessionBidiBudget::reserve, SessionBidiPermit::drop).  A leaked permit
\* ends a healthy session as saturated; a lost one lets a stalled call hold
\* more than its share.
PermitsMatchFrames ==
    /\ \A c \in Call : retained[c] = Cardinality(HeldOf(c))
    /\ free + Cardinality(HeldFrames) = SessionBudget

\* Inputs of one call are dispatched in the order the hub sent them, with
\* none skipped: the lane continues what was dispatched, and the queue
\* continues the lane up to the last input sent, each number at one place
\* ("Preserve FIFO order inside one remote bidi call").
LaneOrder ==
    \A c \in Call :
        LET next == started[c] + Len(lanes[c]) + 1 IN
        /\ \A i \in DOMAIN lanes[c] : lanes[c][i].n = started[c] + i
        /\ {queue[i].n : i \in QueuedOf(c)} = next..sent[c]
        /\ \A i, j \in QueuedOf(c) : i < j => queue[i].n < queue[j].n
        /\ next <= sent[c] + 1

\* A call that stalls with its inputs unread leaves the session room for the
\* others: no frame is refused for the session's sake, for want of a permit or
\* of a queue slot, unless frames of two calls are held ("One stalled call may
\* retain a useful burst, but cannot consume the whole carrier budget").  What
\* it does not save is the session of a hub that goes on sending to the stalled
\* call: RouteSaturated is then its own budget's.
StallLeavesRoom ==
    free = 0 \/ ~QueueHasRoom
    => \E c, d \in Call : c # d /\ HeldOf(c) # {} /\ HeldOf(d) # {}
=============================================================================
