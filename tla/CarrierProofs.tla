---------------------------- MODULE CarrierProofs ---------------------------
(***************************************************************************)
(* Proofs about CarrierCalls, for every set of calls, every budget and     *)
(* capacity and any number of sessions.                                    *)
(***************************************************************************)
EXTENDS CarrierCalls, SchedulerProofs

(***************************************************************************)
(* Where a task is says which call modes it can have.                      *)
(***************************************************************************)
ModeOK(c) ==
    /\ task[c] = "executing" => c \in UnaryCall
    /\ task[c] = "inserting" => c \in StreamCall
    /\ task[c] \in {"promoting", "retiring"} => c \in BidiCall
    /\ task[c] \in {"admitting", "forwarding", "closing"} => c \notin UnaryCall
    /\ token[c] # "none" => c \in StreamCall /\ task[c] \in {"admitting", "forwarding", "closing"}

(***************************************************************************)
(* What is registered for a call lies in its scope, and a bidi call that   *)
(* is being opened in a live scope has its entry.                          *)
(***************************************************************************)
ScopeOK(c) ==
    /\ home[c] <= scope
    /\ home[c] = 0 <=> task[c] = "absent"
    /\ entry[c].phase # "none" => c \in BidiCall /\ InScope(c)
    /\ token[c] = "armed" => InScope(c)
    /\ sent[c] # 0 => InScope(c)
    /\ c \in BidiCall /\ InScope(c) /\ task[c] \in Opening => entry[c].phase = "opening"

(***************************************************************************)
(* Runtime and registry follow the task.                                   *)
(***************************************************************************)
Unregistered == {"absent", "opening", "registering"}
Registered == {"inserting", "executing", "admitting", "promoting", "forwarding", "closing"}

LifeOK(c) ==
    /\ task[c] \in Unregistered => lifecycle[c] = "none"
    /\ task[c] \in {"absent", "opening"} => runtime[c] = "none"
    /\ task[c] \in Registered => lifecycle[c] = "active"
    /\ /\ task[c] \in {"retiring", "done"}
       /\ runtime[c] = "running" \/ lifecycle[c] = "active"
       => \/ c \in erred
          \/ c \in BidiCall /\ ~InScope(c) /\ "admission" \in up[c]

(***************************************************************************)
(* What the hub has been sent follows the task, and an opener that leaves  *)
(* its entry behind has answered.                                          *)
(***************************************************************************)
UpOK(c) ==
    /\ task[c] \in {"promoting", "forwarding", "closing", "retiring"} => "admission" \in up[c]
    /\ entry[c].phase # "none" /\ task[c] = "done" => up[c] \cap {"failure", "terminal"} # {}

(***************************************************************************)
(* The pump begins with the promotion; what was handled, then what is      *)
(* queued for the handler, continues without a gap up to what has been     *)
(* dispatched, as long as more can come.                                   *)
(***************************************************************************)
Contiguous(c) ==
    /\ \A i \in 1..Len(handled[c]) : handled[c][i] = i
    /\ \A i \in 1..Len(ingress[c]) : ingress[c][i].n = Len(handled[c]) + i

InputOK(c) ==
    /\ task[c] \in Opening \cup {"absent"} => pump[c] = "none"
    /\ pump[c] # "none" => "admission" \in up[c]
    /\ handled[c] # <<>> => pump[c] # "none"
    /\ task[c] = "absent" => ingress[c] = <<>>
    /\ handing[c] => flight[c].pc = "handling"
    /\ Contiguous(c)
    /\ ReceiverAlive(c) /\ (Accepts(c) \/ handing[c])
          => Len(handled[c]) + Len(ingress[c]) + 1 = First(c)

(***************************************************************************)
(* The lifecycle registry: no entry is terminal twice.                     *)
(***************************************************************************)
RegistryOK ==
    /\ IsFiniteSet(Tracked)
    /\ \A i, j \in 1..Len(expiry) : expiry[i] = expiry[j] => i = j

CallOK(c) == ModeOK(c) /\ ScopeOK(c) /\ LifeOK(c) /\ UpOK(c) /\ InputOK(c)

(***************************************************************************)
(* The part of TypeOK that says what each variable is.                     *)
(***************************************************************************)
Shapes ==
    /\ scope \in 0..MaxScopes /\ live \in BOOLEAN /\ faulted \subseteq 1..MaxScopes
    /\ home \in [Call -> 0..MaxScopes]
    /\ entry \in [Call -> [phase : {"none", "opening", "active"}, halfClosed : BOOLEAN]]
    /\ token \in [Call -> {"none", "armed", "cancelled"}]
    /\ task \in [Call -> Phase]
    /\ runtime \in [Call -> {"none", "running", "ended"}]
    /\ lifecycle \in [Call -> {"none", "active", "terminal"}]
    /\ expiry \in Seq(Call)
    /\ ingress \in [Call -> Seq([n : 1..MaxInputs, eof : BOOLEAN])]
    /\ pump \in [Call -> {"none", "running", "stopped"}]
    /\ handing \in [Call -> BOOLEAN]
    /\ handled \in [Call -> Seq(1..MaxInputs)]
    /\ up \in [Call -> SUBSET Result]
    /\ erred \subseteq Call
    /\ asked \subseteq StreamCall

\* One step of one call's own tasks, or of the frame loop for that call.
CallStep(c) ==
    \/ OpenArrives(c) \/ OpenRejected(c) \/ CancelArrives(c)
    \/ InputStep(c) \/ OpenerStep(c) \/ ForwarderStep(c)
    \/ RuntimeEnds(c) \/ PumpDelivers(c) \/ PumpStops(c)

-----------------------------------------------------------------------------
(* The scheduler inside: every step of a call is one of the scheduler's    *)
(* or leaves it alone.                                                     *)

LEMMA CallStepSchedules ==
    ASSUME NEW c \in Call, CallStep(c)
    PROVE  HandlerReturned(c) \/ UNCHANGED schedulerVars
<1>1. CASE OpenArrives(c) BY <1>1 DEF OpenArrives
<1>2. CASE OpenRejected(c) BY <1>2 DEF OpenRejected
<1>3. CASE CancelArrives(c) BY <1>3 DEF CancelArrives
<1>4. CASE InputFindsCall(c) BY <1>4 DEF InputFindsCall
<1>5. CASE InputFindsNone(c) BY <1>5 DEF InputFindsNone
<1>6. CASE InputDelivered(c) BY <1>6 DEF InputDelivered
<1>7. CASE OpenRefused(c) BY <1>7 DEF OpenRefused
<1>8. CASE OpenUnreported(c) BY <1>8 DEF OpenUnreported
<1>9. CASE OpenUnsupported(c) BY <1>9 DEF OpenUnsupported
<1>10. CASE OpenAdmitted(c) BY <1>10 DEF OpenAdmitted
<1>11. CASE BidiCommitFails(c) BY <1>11 DEF BidiCommitFails
<1>12. CASE LifecycleRegistered(c) BY <1>12 DEF LifecycleRegistered
<1>13. CASE LifecycleRefused(c) BY <1>13 DEF LifecycleRefused
<1>14. CASE CommitFails(c) BY <1>14 DEF CommitFails
<1>15. CASE UnaryReplies(c) BY <1>15 DEF UnaryReplies
<1>16. CASE StreamInserted(c) BY <1>16 DEF StreamInserted
<1>17. CASE StreamScopeEnded(c) BY <1>17 DEF StreamScopeEnded
<1>18. CASE AdmissionMissing(c) BY <1>18 DEF AdmissionMissing
<1>19. CASE AdmissionSent(c) BY <1>19 DEF AdmissionSent
<1>20. CASE AdmissionUnsent(c) BY <1>20 DEF AdmissionUnsent
<1>21. CASE Promoted(c) BY <1>21 DEF Promoted
<1>22. CASE PromotionFails(c) BY <1>22 DEF PromotionFails
<1>23. CASE DataUnsent(c) BY <1>23 DEF DataUnsent
<1>24. CASE ForwardingStops(c) BY <1>24 DEF ForwardingStops
<1>25. CASE OutputUnmapped(c) BY <1>25 DEF OutputUnmapped
<1>26. CASE TerminalForwarded(c) BY <1>26 DEF TerminalForwarded
<1>27. CASE Closes(c) BY <1>27 DEF Closes
<1>28. CASE Retires(c) BY <1>28 DEF Retires
<1>29. CASE RuntimeEnds(c) BY <1>29 DEF RuntimeEnds
<1>30. CASE PumpDelivers(c) BY <1>30 DEF PumpDelivers
<1>31. CASE PumpStops(c) BY <1>31 DEF PumpStops
<1> QED BY <1>1, <1>2, <1>3, <1>4, <1>5, <1>6, <1>7, <1>8, <1>9, <1>10, <1>11, <1>12,
           <1>13, <1>14, <1>15, <1>16, <1>17, <1>18, <1>19, <1>20, <1>21, <1>22, <1>23,
           <1>24, <1>25, <1>26, <1>27, <1>28, <1>29, <1>30, <1>31
        DEF CallStep, InputStep, OpenerStep, ForwarderStep

LEMMA StepSchedules == [Next]_vars => [SchedulerNext]_schedulerVars
<1> SUFFICES ASSUME [Next]_vars PROVE [SchedulerNext]_schedulerVars OBVIOUS
<1>1. CASE UNCHANGED vars BY <1>1 DEF vars
<1>2. CASE BeginSession \/ LinkFails BY <1>2 DEF BeginSession, LinkFails
<1>3. CASE EndSession BY <1>3 DEF EndSession, SchedulerNext
<1>4. CASE SchedulerStep BY <1>4 DEF SchedulerStep, SchedulerNext
<1>5. ASSUME NEW c \in Call, SaturatedEnds(c) PROVE SchedulerNext
  BY <1>5 DEF SaturatedEnds, EndSession, SchedulerNext
<1>6. ASSUME NEW c \in Call, NEW eof \in BOOLEAN, InputArrives(c, eof) PROVE SchedulerNext
  BY <1>6 DEF InputArrives, SchedulerNext
<1>7. ASSUME NEW c \in Call, CallStep(c) PROVE [SchedulerNext]_schedulerVars
  BY <1>7, CallStepSchedules DEF SchedulerNext
<1> QED BY <1>1, <1>2, <1>3, <1>4, <1>5, <1>6, <1>7 DEF Next, CallStep

\* The calls on a device use the scheduler as it is specified on its own: each
\* step of CarrierCalls is a step of DownFrameScheduler or leaves it alone.
THEOREM CarrierImplementsScheduler == Spec => SchedulerSpec
<1>1. Init => SchedulerInit BY DEF Init
<1> QED BY <1>1, StepSchedules, PTL DEF Spec, SchedulerSpec

-----------------------------------------------------------------------------
(* Types.                                                                  *)

LEMMA Phases ==
    /\ "absent" \in Phase /\ "executing" \in Phase /\ "opening" \in Phase
    /\ "registering" \in Phase /\ "inserting" \in Phase /\ "admitting" \in Phase
    /\ "promoting" \in Phase /\ "forwarding" \in Phase /\ "closing" \in Phase
    /\ "retiring" \in Phase /\ "done" \in Phase
BY DEF Phase, Opening, Forwarding

Entry == [phase : {"none", "opening", "active"}, halfClosed : BOOLEAN]
Input == [n : 1..MaxInputs, eof : BOOLEAN]

\* The hub is told something of call c, and of no other.
Told(c) ==
    /\ up' \in [Call -> SUBSET Result]
    /\ up[c] \subseteq up'[c]
    /\ \A d \in Call : d # c => up'[d] = up[d]

LEMMA SendTells ==
    ASSUME Shapes, NEW c \in Call, NEW k \in Result, Send(c, k)
    PROVE  Told(c) /\ (CanSend(c) => k \in up'[c])
<1>1. CASE CanSend(c)
  <2>1. up' = [up EXCEPT ![c] = up[c] \cup {k}] BY <1>1 DEF Send
  <2>2. up[c] \cup {k} \in SUBSET Result BY DEF Shapes
  <2> QED BY <2>1, <2>2 DEF Shapes, Told
<1>2. CASE ~CanSend(c) BY <1>2 DEF Send, Shapes, Told
<1> QED BY <1>1, <1>2

LEMMA TerminalTells ==
    ASSUME Shapes, NEW c \in Call, SendTerminal(c)
    PROVE  Told(c)
<1>1. "terminal" \in Result /\ "failure" \in Result BY DEF Result
<1>2. CASE UNCHANGED up BY <1>2 DEF Shapes, Told
<1> QED BY <1>1, <1>2, SendTells DEF SendTerminal

LEMMA EntryShape ==
    ASSUME Shapes, NEW c \in Call, RemoveEntry(c)
    PROVE  entry' \in [Call -> Entry]
<1>1. NoEntry \in Entry /\ entry \in [Call -> Entry] BY DEF NoEntry, Entry, Shapes
<1> QED BY <1>1 DEF RemoveEntry

\* The opener's last frame was sent, or its entry goes.
LEMMA AnswerTells ==
    ASSUME Shapes, NEW c \in Call, NEW k \in {"failure", "terminal"}, OpenerAnswers(c, k)
    PROVE  /\ Told(c)
           /\ entry' \in [Call -> Entry]
           /\ \/ entry' = entry /\ up'[c] \cap {"failure", "terminal"} # {}
              \/ RemoveEntry(c)
<1>1. k \in Result /\ entry \in [Call -> Entry] BY DEF Result, Shapes, Entry
<1>2. CASE CanSend(c) /\ Send(c, k) /\ UNCHANGED entry
  <2>1. Told(c) /\ k \in up'[c] BY <1>1, <1>2, SendTells
  <2> QED BY <1>1, <1>2, <2>1
<1>3. CASE RemoveEntry(c) /\ UNCHANGED up
  <2>1. Told(c) BY <1>3 DEF Shapes, Told
  <2> QED BY <1>3, <2>1, EntryShape
<1> QED BY <1>2, <1>3 DEF OpenerAnswers

LEMMA IngressShape ==
    ASSUME Shapes, NEW c \in Call, DropReceiver(c)
    PROVE  ingress' \in [Call -> Seq(Input)]
<1>1. ingress \in [Call -> Seq(Input)] BY DEF Shapes, Input
<1> QED BY <1>1 DEF DropReceiver

LEMMA LifeShape ==
    ASSUME Shapes, NEW c \in Call, Finalize(c) \/ Stop(c) \/ Stray(c)
    PROVE  /\ runtime' \in [Call -> {"none", "running", "ended"}]
           /\ lifecycle' \in [Call -> {"none", "active", "terminal"}]
           /\ expiry' \in Seq(Call)
           /\ erred' \subseteq Call
<1>1. CASE Finalize(c) BY <1>1 DEF Shapes, Finalize
<1>2. CASE Stop(c) BY <1>2 DEF Shapes, Stop
<1>3. CASE Stray(c) BY <1>3 DEF Shapes, Stray
<1> QED BY <1>1, <1>2, <1>3

LEMMA CallStepTells ==
    ASSUME Shapes, NEW c \in Call, CallStep(c)
    PROVE  Told(c)
<1>0. /\ UNCHANGED up => Told(c)
      /\ Send(c, "admission") \/ Send(c, "failure") \/ Send(c, "terminal") => Told(c)
      /\ SendTerminal(c) => Told(c)
      /\ OpenerAnswers(c, "failure") \/ OpenerAnswers(c, "terminal") => Told(c)
  <2>1. UNCHANGED up => Told(c) BY DEF Shapes, Told
  <2>2. "admission" \in Result /\ "failure" \in Result /\ "terminal" \in Result BY DEF Result
  <2>3. Send(c, "admission") \/ Send(c, "failure") \/ Send(c, "terminal") => Told(c)
    BY <2>2, SendTells
  <2>4. OpenerAnswers(c, "failure") \/ OpenerAnswers(c, "terminal") => Told(c)
    BY AnswerTells
  <2> QED BY <2>1, <2>3, <2>4, TerminalTells
<1>1. CASE OpenArrives(c) BY <1>1, <1>0 DEF OpenArrives
<1>2. CASE OpenRejected(c)
  <2>1. up' = up \/ up' = [up EXCEPT ![c] = up[c] \cup {"failure"}] BY <1>2 DEF OpenRejected
  <2>2. up[c] \cup {"failure"} \in SUBSET Result BY DEF Result, Shapes
  <2>3. CASE up' = up BY <1>0, <2>3
  <2>4. CASE up' = [up EXCEPT ![c] = up[c] \cup {"failure"}]
    BY <2>2, <2>4 DEF Shapes, Told
  <2> QED BY <2>1, <2>3, <2>4
<1>3. CASE CancelArrives(c) BY <1>3, <1>0 DEF CancelArrives
<1>4. CASE InputFindsCall(c) BY <1>4, <1>0 DEF InputFindsCall
<1>5. CASE InputFindsNone(c) BY <1>5, <1>0 DEF InputFindsNone
<1>6. CASE InputDelivered(c) BY <1>6, <1>0 DEF InputDelivered
<1>7. CASE OpenRefused(c) BY <1>7, <1>0 DEF OpenRefused
<1>8. CASE OpenUnreported(c) BY <1>8, <1>0 DEF OpenUnreported
<1>9. CASE OpenUnsupported(c) BY <1>9, <1>0 DEF OpenUnsupported
<1>10. CASE OpenAdmitted(c) BY <1>10, <1>0 DEF OpenAdmitted
<1>11. CASE BidiCommitFails(c) BY <1>11, <1>0 DEF BidiCommitFails
<1>12. CASE LifecycleRegistered(c) BY <1>12, <1>0 DEF LifecycleRegistered
<1>13. CASE LifecycleRefused(c) BY <1>13, <1>0 DEF LifecycleRefused
<1>14. CASE CommitFails(c) BY <1>14, <1>0 DEF CommitFails
<1>15. CASE UnaryReplies(c) BY <1>15, <1>0 DEF UnaryReplies
<1>16. CASE StreamInserted(c) BY <1>16, <1>0 DEF StreamInserted
<1>17. CASE StreamScopeEnded(c) BY <1>17, <1>0 DEF StreamScopeEnded
<1>18. CASE AdmissionMissing(c) BY <1>18, <1>0 DEF AdmissionMissing
<1>19. CASE AdmissionSent(c) BY <1>19, <1>0 DEF AdmissionSent
<1>20. CASE AdmissionUnsent(c) BY <1>20, <1>0 DEF AdmissionUnsent
<1>21. CASE Promoted(c) BY <1>21, <1>0 DEF Promoted
<1>22. CASE PromotionFails(c) BY <1>22, <1>0 DEF PromotionFails
<1>23. CASE DataUnsent(c) BY <1>23, <1>0 DEF DataUnsent
<1>24. CASE ForwardingStops(c) BY <1>24, <1>0 DEF ForwardingStops
<1>25. CASE OutputUnmapped(c) BY <1>25, <1>0 DEF OutputUnmapped
<1>26. CASE TerminalForwarded(c) BY <1>26, <1>0 DEF TerminalForwarded
<1>27. CASE Closes(c) BY <1>27, <1>0 DEF Closes
<1>28. CASE Retires(c) BY <1>28, <1>0 DEF Retires
<1>29. CASE RuntimeEnds(c) BY <1>29, <1>0 DEF RuntimeEnds
<1>30. CASE PumpDelivers(c) BY <1>30, <1>0 DEF PumpDelivers
<1>31. CASE PumpStops(c) BY <1>31, <1>0 DEF PumpStops
<1> QED BY <1>1, <1>2, <1>3, <1>4, <1>5, <1>6, <1>7, <1>8, <1>9, <1>10, <1>11, <1>12,
           <1>13, <1>14, <1>15, <1>16, <1>17, <1>18, <1>19, <1>20, <1>21, <1>22, <1>23,
           <1>24, <1>25, <1>26, <1>27, <1>28, <1>29, <1>30, <1>31
        DEF CallStep, InputStep, OpenerStep, ForwarderStep

\* The opener that ends with an answer leaves its entry to an answered call.
LEMMA OpenerLeaves ==
    ASSUME Shapes, NEW c \in Call, OpenUnsupported(c) \/ LifecycleRefused(c) \/ AdmissionMissing(c)
    PROVE  /\ entry' \in [Call -> Entry]
           /\ \/ entry'[c] = entry[c] /\ up'[c] \cap {"failure", "terminal"} # {}
              \/ entry'[c] = NoEntry
           /\ \A d \in Call : d # c => entry'[d] = entry[d]
<1>1. CASE OpenerAnswers(c, "failure") BY <1>1, AnswerTells DEF RemoveEntry, Shapes
<1>2. CASE OpenerAnswers(c, "terminal") BY <1>2, AnswerTells DEF RemoveEntry, Shapes
<1>3. OpenUnsupported(c) => OpenerAnswers(c, "failure") BY DEF OpenUnsupported
<1>4. LifecycleRefused(c) => OpenerAnswers(c, "failure") \/ OpenerAnswers(c, "terminal")
  BY DEF LifecycleRefused
<1>5. AdmissionMissing(c) => OpenerAnswers(c, "failure") \/ OpenerAnswers(c, "terminal")
  BY DEF AdmissionMissing
<1> QED BY <1>1, <1>2, <1>3, <1>4, <1>5

LEMMA CallStepShapes ==
    ASSUME Shapes, SchedulerTypeOK, NEW c \in Call, Attended(c), CallStep(c)
    PROVE  Shapes'
<1>0. Told(c) BY CallStepTells
<1> USE Phases DEF Entry, Input
<1>1. CASE OpenArrives(c)
  <2>1. entry' \in [Call -> Entry]
    <3> DEFINE p == IF c \in BidiCall THEN "opening" ELSE entry[c].phase
    <3>1. entry' = [entry EXCEPT ![c] = [entry[c] EXCEPT !.phase = p]] BY <1>1 DEF OpenArrives
    <3>2. entry[c] \in Entry BY DEF Shapes
    <3>3. [entry[c] EXCEPT !.phase = p] \in Entry BY <3>2
    <3> HIDE DEF p
    <3> QED BY <3>1, <3>3 DEF Shapes
  <2> QED BY <1>1, <2>1 DEF OpenArrives, Shapes
<1>2. CASE OpenRejected(c)
  BY <1>2, <1>0 DEF OpenRejected, Told, Shapes
<1>3. CASE CancelArrives(c)
  BY <1>3, <1>0 DEF CancelArrives, Told, Shapes
<1>4. CASE InputFindsCall(c)
  <2>1. entry' \in [Call -> Entry]
    <3>1. entry' = [entry EXCEPT ![c] = [entry[c] EXCEPT !.halfClosed = flight[c].eof]]
      BY <1>4 DEF InputFindsCall
    <3>2. entry[c] \in Entry /\ flight[c].eof \in BOOLEAN BY DEF Shapes, SchedulerTypeOK, Slot
    <3>3. [entry[c] EXCEPT !.halfClosed = flight[c].eof] \in Entry BY <3>2
    <3> QED BY <3>1, <3>3 DEF Shapes
  <2> QED BY <1>4, <2>1 DEF InputFindsCall, Shapes
<1>5. CASE InputFindsNone(c)
  BY <1>5, <1>0 DEF InputFindsNone, Told, Shapes
<1>6. CASE InputDelivered(c)
  <2> DEFINE x == [n |-> flight[c].n, eof |-> flight[c].eof]
  <2>1. x \in Input
    BY <1>6 DEF InputDelivered, SchedulerTypeOK, Slot, Attended
  <2>2. ingress' \in [Call -> Seq(Input)]
    <3>1. ingress' = [ingress EXCEPT ![c] = IF ReceiverAlive(c) THEN Append(@, x) ELSE @]
      BY <1>6 DEF InputDelivered
    <3>2. ingress[c] \in Seq(Input) BY DEF Shapes
    <3>3. Append(ingress[c], x) \in Seq(Input) BY <2>1, <3>2
    <3> HIDE DEF x
    <3> QED BY <3>1, <3>2, <3>3 DEF Shapes
  <2> QED BY <1>6, <2>2 DEF InputDelivered, Shapes
<1>7. CASE OpenRefused(c)
  BY <1>7, <1>0, EntryShape, IngressShape DEF OpenRefused, Told, Shapes
<1>8. CASE OpenUnreported(c)
  BY <1>8, <1>0 DEF OpenUnreported, Told, Shapes
<1>9. CASE OpenUnsupported(c)
  <2>1. /\ entry' \in [Call -> Entry]
        /\ \/ entry'[c] = entry[c] /\ up'[c] \cap {"failure", "terminal"} # {}
           \/ entry'[c] = NoEntry
        /\ \A x \in Call : x # c => entry'[x] = entry[x]
    BY <1>9, OpenerLeaves
  <2> QED BY <1>9, <1>0, IngressShape, <2>1 DEF OpenUnsupported, Told, Shapes
<1>10. CASE OpenAdmitted(c)
  BY <1>10, <1>0 DEF OpenAdmitted, Told, Shapes
<1>11. CASE BidiCommitFails(c)
  BY <1>11, <1>0, EntryShape, IngressShape, LifeShape DEF BidiCommitFails, Told, Shapes
<1>12. CASE LifecycleRegistered(c)
  <2>1. AfterRegister(c) \in Phase BY DEF AfterRegister
  <2>2. expiry' \in Seq(Call) BY <1>12 DEF LifecycleRegistered, Shapes
  <2>3. lifecycle' \in [Call -> {"none", "active", "terminal"}]
    BY <1>12 DEF LifecycleRegistered, Shapes
  <2> QED BY <1>12, <2>1, <2>2, <2>3 DEF LifecycleRegistered, Shapes
<1>13. CASE LifecycleRefused(c)
  <2>1. /\ entry' \in [Call -> Entry]
        /\ \/ entry'[c] = entry[c] /\ up'[c] \cap {"failure", "terminal"} # {}
           \/ entry'[c] = NoEntry
        /\ \A x \in Call : x # c => entry'[x] = entry[x]
    BY <1>13, OpenerLeaves
  <2> QED BY <1>13, <1>0, IngressShape, LifeShape, <2>1 DEF LifecycleRefused, Told, Shapes
<1>14. CASE CommitFails(c)
  BY <1>14, <1>0, LifeShape DEF CommitFails, Told, Shapes
<1>15. CASE UnaryReplies(c)
  BY <1>15, <1>0, LifeShape DEF UnaryReplies, Told, Shapes
<1>16. CASE StreamInserted(c)
  BY <1>16, <1>0 DEF StreamInserted, Told, Shapes
<1>17. CASE StreamScopeEnded(c)
  BY <1>17, <1>0, LifeShape DEF StreamScopeEnded, Told, Shapes
<1>18. CASE AdmissionMissing(c)
  <2>1. /\ entry' \in [Call -> Entry]
        /\ \/ entry'[c] = entry[c] /\ up'[c] \cap {"failure", "terminal"} # {}
           \/ entry'[c] = NoEntry
        /\ \A x \in Call : x # c => entry'[x] = entry[x]
    BY <1>18, OpenerLeaves
  <2> QED BY <1>18, <1>0, IngressShape, LifeShape, <2>1 DEF AdmissionMissing, Told, Shapes
<1>19. CASE AdmissionSent(c)
  BY <1>19, <1>0 DEF AdmissionSent, Told, Shapes
<1>20. CASE AdmissionUnsent(c)
  BY <1>20, <1>0, EntryShape, IngressShape, LifeShape DEF AdmissionUnsent, Told, Shapes
<1>21. CASE Promoted(c)
  <2>1. entry' \in [Call -> Entry]
    <3>1. entry' = [entry EXCEPT ![c] = [entry[c] EXCEPT !.phase = "active"]]
      BY <1>21 DEF Promoted
    <3>2. entry[c] \in Entry BY DEF Shapes
    <3>3. [entry[c] EXCEPT !.phase = "active"] \in Entry BY <3>2
    <3> QED BY <3>1, <3>3 DEF Shapes
  <2> QED BY <1>21, <2>1 DEF Promoted, Shapes
<1>22. CASE PromotionFails(c)
  BY <1>22, <1>0, IngressShape DEF PromotionFails, Told, Shapes
<1>23. CASE DataUnsent(c)
  BY <1>23, <1>0 DEF DataUnsent, Told, Shapes
<1>24. CASE ForwardingStops(c)
  BY <1>24, <1>0 DEF ForwardingStops, Told, Shapes
<1>25. CASE OutputUnmapped(c)
  <2>1. Finalize(c) \/ Stray(c) BY <1>25 DEF OutputUnmapped
  <2>2. task' \in [Call -> Phase] /\ token' \in [Call -> {"none", "armed", "cancelled"}]
    <3>1. task' = [task EXCEPT ![c] = "closing"] \/ task' = [task EXCEPT ![c] = "retiring"]
          \/ task' = [task EXCEPT ![c] = "done"]
      BY <1>25 DEF OutputUnmapped
    <3>2. token' = token \/ token' = [token EXCEPT ![c] = "none"]
      BY <1>25 DEF OutputUnmapped
    <3>3. task \in [Call -> Phase] /\ token \in [Call -> {"none", "armed", "cancelled"}] BY DEF Shapes
    <3>4. task' \in [Call -> Phase] BY <3>1, <3>3
    <3>5. token' \in [Call -> {"none", "armed", "cancelled"}] BY <3>2, <3>3
    <3> QED BY <3>4, <3>5
  <2> QED BY <1>25, <1>0, <2>1, <2>2, LifeShape DEF OutputUnmapped, Told, Shapes
<1>26. CASE TerminalForwarded(c)
  <2>1. Finalize(c) \/ Stray(c) BY <1>26 DEF TerminalForwarded
  <2>2. task' \in [Call -> Phase] /\ token' \in [Call -> {"none", "armed", "cancelled"}]
    <3>1. task' = [task EXCEPT ![c] = "closing"] \/ task' = [task EXCEPT ![c] = "retiring"]
          \/ task' = [task EXCEPT ![c] = "done"]
      BY <1>26 DEF TerminalForwarded, AfterForwarding
    <3>2. token' = token \/ token' = [token EXCEPT ![c] = "none"]
      BY <1>26 DEF TerminalForwarded, AfterForwarding
    <3>3. task \in [Call -> Phase] /\ token \in [Call -> {"none", "armed", "cancelled"}] BY DEF Shapes
    <3>4. task' \in [Call -> Phase] BY <3>1, <3>3
    <3>5. token' \in [Call -> {"none", "armed", "cancelled"}] BY <3>2, <3>3
    <3> QED BY <3>4, <3>5
  <2> QED BY <1>26, <1>0, <2>1, <2>2, LifeShape DEF TerminalForwarded, Told, Shapes
<1>27. CASE Closes(c)
  BY <1>27, <1>0, LifeShape DEF Closes, Told, AfterForwarding, Shapes
<1>28. CASE Retires(c)
  BY <1>28, <1>0, EntryShape DEF Retires, Told, Shapes
<1>29. CASE RuntimeEnds(c)
  BY <1>29, <1>0 DEF RuntimeEnds, Told, Shapes
<1>30. CASE PumpDelivers(c)
  <2>1. Head(ingress[c]) \in Input /\ Tail(ingress[c]) \in Seq(Input)
    <3>1. ingress[c] \in Seq(Input) BY DEF Shapes
    <3>2. ingress[c] # <<>> BY <1>30 DEF PumpDelivers
    <3> HIDE DEF Input
    <3> QED BY <3>1, <3>2
  <2>2. handled' \in [Call -> Seq(1..MaxInputs)]
    <3>1. Append(handled[c], Head(ingress[c]).n) \in Seq(1..MaxInputs) BY <2>1 DEF Shapes
    <3> QED BY <1>30, <3>1 DEF PumpDelivers, Shapes
  <2>3. CASE Head(ingress[c]).eof BY <1>30, <2>2, <2>3, IngressShape DEF PumpDelivers, Shapes
  <2>4. CASE ~Head(ingress[c]).eof
    <3>1. ingress' \in [Call -> Seq(Input)] BY <1>30, <2>1, <2>4 DEF PumpDelivers, Shapes
    <3> QED BY <1>30, <2>2, <2>4, <3>1 DEF PumpDelivers, Shapes
  <2> QED BY <2>3, <2>4
<1>31. CASE PumpStops(c)
  BY <1>31, <1>0, IngressShape DEF PumpStops, Told, Shapes
<1> QED BY <1>1, <1>2, <1>3, <1>4, <1>5, <1>6, <1>7, <1>8, <1>9, <1>10, <1>11, <1>12,
           <1>13, <1>14, <1>15, <1>16, <1>17, <1>18, <1>19, <1>20, <1>21, <1>22, <1>23,
           <1>24, <1>25, <1>26, <1>27, <1>28, <1>29, <1>30, <1>31
        DEF CallStep, InputStep, OpenerStep, ForwarderStep

-----------------------------------------------------------------------------
(* A step of one call leaves the others alone, but that the registry may   *)
(* forget the terminal entry of another.                                   *)

SameCall(d) ==
    /\ home'[d] = home[d] /\ entry'[d] = entry[d] /\ token'[d] = token[d]
    /\ task'[d] = task[d] /\ runtime'[d] = runtime[d]
    /\ \/ lifecycle'[d] = lifecycle[d]
       \/ lifecycle[d] = "terminal" /\ lifecycle'[d] = "none"
    /\ ingress'[d] = ingress[d] /\ pump'[d] = pump[d] /\ handing'[d] = handing[d]
    /\ handled'[d] = handled[d] /\ up'[d] = up[d] /\ (d \in erred => d \in erred')
    /\ sent'[d] = sent[d] /\ flight'[d] = flight[d] /\ started'[d] = started[d]

TerminalListed == \A c \in Call : lifecycle[c] = "terminal" <=> c \in Range(expiry)

LEMMA HeadListed ==
    ASSUME Shapes, TerminalListed, expiry # <<>>
    PROVE  Head(expiry) \in Call /\ lifecycle[Head(expiry)] = "terminal"
<1>1. expiry \in Seq(Call) BY DEF Shapes
<1>2. Head(expiry) \in Call /\ Head(expiry) = expiry[1] /\ 1 \in DOMAIN expiry BY <1>1
<1>3. Head(expiry) \in Range(expiry) BY <1>2, Zenon DEF Range
<1> QED BY <1>2, <1>3 DEF TerminalListed

LEMMA SameKeeps ==
    ASSUME NEW d \in Call, CallOK(d), SameCall(d), UNCHANGED <<scope, live>>
    PROVE  CallOK(d)'
<1>1. InScope(d)' = InScope(d) BY DEF SameCall, InScope
<1>2. ModeOK(d)' BY DEF CallOK, SameCall, ModeOK
<1>3. ScopeOK(d)' BY <1>1 DEF CallOK, SameCall, ScopeOK
<1>4. LifeOK(d)' BY <1>1 DEF CallOK, SameCall, LifeOK, Unregistered, Registered
<1>5. UpOK(d)' BY DEF CallOK, SameCall, UpOK
<1>6. InputOK(d)' BY DEF CallOK, SameCall, InputOK, Contiguous, ReceiverAlive, Accepts, First
<1> QED BY <1>2, <1>3, <1>4, <1>5, <1>6 DEF CallOK

LEMMA OthersSame ==
    ASSUME Shapes, SchedulerTypeOK, TerminalListed,
           NEW c \in Call, CallStep(c), NEW d \in Call, d # c
    PROVE  SameCall(d) /\ UNCHANGED <<scope, live>>
<1>0. up'[d] = up[d] BY CallStepTells DEF Told
<1>1. CASE OpenArrives(c)
  BY <1>1, <1>0 DEF OpenArrives, Shapes, SchedulerTypeOK, SameCall, schedulerVars
<1>2. CASE OpenRejected(c)
  BY <1>2, <1>0 DEF OpenRejected, Shapes, SchedulerTypeOK, SameCall, schedulerVars
<1>3. CASE CancelArrives(c)
  BY <1>3, <1>0 DEF CancelArrives, Shapes, SchedulerTypeOK, SameCall, schedulerVars
<1>4. CASE InputFindsCall(c)
  BY <1>4, <1>0 DEF InputFindsCall, Shapes, SchedulerTypeOK, SameCall, schedulerVars
<1>5. CASE InputFindsNone(c)
  BY <1>5, <1>0 DEF InputFindsNone, HandlerReturned, Shapes, SchedulerTypeOK, SameCall
<1>6. CASE InputDelivered(c)
  BY <1>6, <1>0 DEF InputDelivered, HandlerReturned, Shapes, SchedulerTypeOK, SameCall
<1>7. CASE OpenRefused(c)
  BY <1>7, <1>0 DEF OpenRefused, RemoveEntry, DropReceiver, Shapes, SchedulerTypeOK, SameCall, schedulerVars
<1>8. CASE OpenUnreported(c)
  BY <1>8, <1>0 DEF OpenUnreported, Shapes, SchedulerTypeOK, SameCall, schedulerVars
<1>9. CASE OpenUnsupported(c)
  <2>1. /\ entry' \in [Call -> Entry]
        /\ \/ entry'[c] = entry[c] /\ up'[c] \cap {"failure", "terminal"} # {}
           \/ entry'[c] = NoEntry
        /\ \A x \in Call : x # c => entry'[x] = entry[x]
    BY <1>9, OpenerLeaves
  <2> QED BY <1>9, <1>0, <2>1 DEF OpenUnsupported, DropReceiver, Shapes, SchedulerTypeOK, SameCall, schedulerVars
<1>10. CASE OpenAdmitted(c)
  BY <1>10, <1>0 DEF OpenAdmitted, Shapes, SchedulerTypeOK, SameCall, schedulerVars
<1>11. CASE BidiCommitFails(c)
  BY <1>11, <1>0 DEF BidiCommitFails, RemoveEntry, Stop, Stray, DropReceiver, Shapes, SchedulerTypeOK, SameCall, schedulerVars
<1>12. CASE LifecycleRegistered(c)
  BY <1>12, <1>0, HeadListed DEF LifecycleRegistered, Shapes, SchedulerTypeOK, SameCall, schedulerVars
<1>13. CASE LifecycleRefused(c)
  <2>1. /\ entry' \in [Call -> Entry]
        /\ \/ entry'[c] = entry[c] /\ up'[c] \cap {"failure", "terminal"} # {}
           \/ entry'[c] = NoEntry
        /\ \A x \in Call : x # c => entry'[x] = entry[x]
    BY <1>13, OpenerLeaves
  <2> QED BY <1>13, <1>0, <2>1 DEF LifecycleRefused, Stop, Stray, DropReceiver, Shapes, SchedulerTypeOK, SameCall, schedulerVars
<1>14. CASE CommitFails(c)
  BY <1>14, <1>0 DEF CommitFails, Finalize, Stray, Shapes, SchedulerTypeOK, SameCall, schedulerVars
<1>15. CASE UnaryReplies(c)
  BY <1>15, <1>0 DEF UnaryReplies, Finalize, Stray, Shapes, SchedulerTypeOK, SameCall, schedulerVars
<1>16. CASE StreamInserted(c)
  BY <1>16, <1>0 DEF StreamInserted, Shapes, SchedulerTypeOK, SameCall, schedulerVars
<1>17. CASE StreamScopeEnded(c)
  BY <1>17, <1>0 DEF StreamScopeEnded, Finalize, Stray, Shapes, SchedulerTypeOK, SameCall, schedulerVars
<1>18. CASE AdmissionMissing(c)
  <2>1. /\ entry' \in [Call -> Entry]
        /\ \/ entry'[c] = entry[c] /\ up'[c] \cap {"failure", "terminal"} # {}
           \/ entry'[c] = NoEntry
        /\ \A x \in Call : x # c => entry'[x] = entry[x]
    BY <1>18, OpenerLeaves
  <2> QED BY <1>18, <1>0, <2>1 DEF AdmissionMissing, Finalize, Stray, DropReceiver, Shapes, SchedulerTypeOK, SameCall, schedulerVars
<1>19. CASE AdmissionSent(c)
  BY <1>19, <1>0 DEF AdmissionSent, Shapes, SchedulerTypeOK, SameCall, schedulerVars
<1>20. CASE AdmissionUnsent(c)
  BY <1>20, <1>0 DEF AdmissionUnsent, RemoveEntry, Finalize, Stray, DropReceiver, Shapes, SchedulerTypeOK, SameCall, schedulerVars
<1>21. CASE Promoted(c)
  BY <1>21, <1>0 DEF Promoted, Shapes, SchedulerTypeOK, SameCall, schedulerVars
<1>22. CASE PromotionFails(c)
  BY <1>22, <1>0 DEF PromotionFails, DropReceiver, Shapes, SchedulerTypeOK, SameCall, schedulerVars
<1>23. CASE DataUnsent(c)
  BY <1>23, <1>0 DEF DataUnsent, Shapes, SchedulerTypeOK, SameCall, schedulerVars
<1>24. CASE ForwardingStops(c)
  BY <1>24, <1>0 DEF ForwardingStops, Shapes, SchedulerTypeOK, SameCall, schedulerVars
<1>25. CASE OutputUnmapped(c)
  BY <1>25, <1>0 DEF OutputUnmapped, Finalize, Stray, Shapes, SchedulerTypeOK, SameCall, schedulerVars
<1>26. CASE TerminalForwarded(c)
  BY <1>26, <1>0 DEF TerminalForwarded, Finalize, Stray, AfterForwarding, Shapes, SchedulerTypeOK, SameCall, schedulerVars
<1>27. CASE Closes(c)
  BY <1>27, <1>0 DEF Closes, Finalize, Stray, AfterForwarding, Shapes, SchedulerTypeOK, SameCall, schedulerVars
<1>28. CASE Retires(c)
  BY <1>28, <1>0 DEF Retires, RemoveEntry, Shapes, SchedulerTypeOK, SameCall, schedulerVars
<1>29. CASE RuntimeEnds(c)
  BY <1>29, <1>0 DEF RuntimeEnds, Shapes, SchedulerTypeOK, SameCall, schedulerVars
<1>30. CASE PumpDelivers(c)
  BY <1>30, <1>0 DEF PumpDelivers, DropReceiver, Shapes, SchedulerTypeOK, SameCall, schedulerVars
<1>31. CASE PumpStops(c)
  BY <1>31, <1>0 DEF PumpStops, DropReceiver, Shapes, SchedulerTypeOK, SameCall, schedulerVars
<1> QED BY <1>1, <1>2, <1>3, <1>4, <1>5, <1>6, <1>7, <1>8, <1>9, <1>10, <1>11, <1>12,
           <1>13, <1>14, <1>15, <1>16, <1>17, <1>18, <1>19, <1>20, <1>21, <1>22, <1>23,
           <1>24, <1>25, <1>26, <1>27, <1>28, <1>29, <1>30, <1>31
        DEF CallStep, InputStep, OpenerStep, ForwarderStep

-----------------------------------------------------------------------------
(* A step of one call keeps that call in order.                            *)

LEMMA ScopeStays ==
    ASSUME NEW c \in Call, UNCHANGED <<scope, live, home>>
    PROVE  InScope(c)' <=> InScope(c)
BY DEF InScope

LEMMA ModeStep ==
    ASSUME Shapes, SchedulerTypeOK, NEW c \in Call, CallOK(c), live => scope >= 1, CallStep(c)
    PROVE  ModeOK(c)'
<1>1. CASE OpenArrives(c)
  BY <1>1, CarrierAssumption DEF OpenArrives, Shapes, CallOK, ModeOK, ScopeOK
<1>2. CASE OpenRejected(c)
  BY <1>2, CarrierAssumption DEF OpenRejected, Shapes, CallOK, ModeOK, ScopeOK
<1>3. CASE CancelArrives(c)
  BY <1>3, CarrierAssumption DEF CancelArrives, Shapes, CallOK, ModeOK
<1>4. CASE InputFindsCall(c)
  BY <1>4, CarrierAssumption DEF InputFindsCall, Shapes, CallOK, ModeOK
<1>5. CASE InputFindsNone(c)
  BY <1>5, CarrierAssumption DEF InputFindsNone, Shapes, CallOK, ModeOK
<1>6. CASE InputDelivered(c)
  BY <1>6, CarrierAssumption DEF InputDelivered, Shapes, CallOK, ModeOK
<1>7. CASE OpenRefused(c)
  BY <1>7, CarrierAssumption DEF OpenRefused, Shapes, CallOK, ModeOK
<1>8. CASE OpenUnreported(c)
  BY <1>8, CarrierAssumption DEF OpenUnreported, Shapes, CallOK, ModeOK
<1>9. CASE OpenUnsupported(c)
  BY <1>9, CarrierAssumption DEF OpenUnsupported, Shapes, CallOK, ModeOK
<1>10. CASE OpenAdmitted(c)
  BY <1>10, CarrierAssumption DEF OpenAdmitted, Shapes, CallOK, ModeOK
<1>11. CASE BidiCommitFails(c)
  BY <1>11, CarrierAssumption DEF BidiCommitFails, Shapes, CallOK, ModeOK
<1>12. CASE LifecycleRegistered(c)
  BY <1>12, CarrierAssumption DEF LifecycleRegistered, AfterRegister, Shapes, CallOK, ModeOK
<1>13. CASE LifecycleRefused(c)
  BY <1>13, CarrierAssumption DEF LifecycleRefused, Shapes, CallOK, ModeOK
<1>14. CASE CommitFails(c)
  BY <1>14, CarrierAssumption DEF CommitFails, Shapes, CallOK, ModeOK
<1>15. CASE UnaryReplies(c)
  BY <1>15, CarrierAssumption DEF UnaryReplies, Shapes, CallOK, ModeOK
<1>16. CASE StreamInserted(c)
  BY <1>16, CarrierAssumption DEF StreamInserted, Shapes, CallOK, ModeOK
<1>17. CASE StreamScopeEnded(c)
  BY <1>17, CarrierAssumption DEF StreamScopeEnded, Shapes, CallOK, ModeOK
<1>18. CASE AdmissionMissing(c)
  BY <1>18, CarrierAssumption DEF AdmissionMissing, Shapes, CallOK, ModeOK
<1>19. CASE AdmissionSent(c)
  BY <1>19, CarrierAssumption DEF AdmissionSent, Shapes, CallOK, ModeOK
<1>20. CASE AdmissionUnsent(c)
  BY <1>20, CarrierAssumption DEF AdmissionUnsent, Shapes, CallOK, ModeOK
<1>21. CASE Promoted(c)
  BY <1>21, CarrierAssumption DEF Promoted, Shapes, CallOK, ModeOK
<1>22. CASE PromotionFails(c)
  BY <1>22, CarrierAssumption DEF PromotionFails, Shapes, CallOK, ModeOK
<1>23. CASE DataUnsent(c)
  BY <1>23, CarrierAssumption DEF DataUnsent, Shapes, CallOK, ModeOK
<1>24. CASE ForwardingStops(c)
  BY <1>24, CarrierAssumption DEF ForwardingStops, Shapes, CallOK, ModeOK
<1>25. CASE OutputUnmapped(c)
  BY <1>25, CarrierAssumption DEF OutputUnmapped, Shapes, CallOK, ModeOK
<1>26. CASE TerminalForwarded(c)
  BY <1>26, CarrierAssumption DEF TerminalForwarded, AfterForwarding, Shapes, CallOK, ModeOK
<1>27. CASE Closes(c)
  BY <1>27, CarrierAssumption DEF Closes, AfterForwarding, Shapes, CallOK, ModeOK
<1>28. CASE Retires(c)
  BY <1>28, CarrierAssumption DEF Retires, Shapes, CallOK, ModeOK
<1>29. CASE RuntimeEnds(c)
  BY <1>29, CarrierAssumption DEF RuntimeEnds, Shapes, CallOK, ModeOK
<1>30. CASE PumpDelivers(c)
  BY <1>30, CarrierAssumption DEF PumpDelivers, Shapes, CallOK, ModeOK
<1>31. CASE PumpStops(c)
  BY <1>31, CarrierAssumption DEF PumpStops, Shapes, CallOK, ModeOK
<1> QED BY <1>1, <1>2, <1>3, <1>4, <1>5, <1>6, <1>7, <1>8, <1>9, <1>10, <1>11, <1>12,
           <1>13, <1>14, <1>15, <1>16, <1>17, <1>18, <1>19, <1>20, <1>21, <1>22, <1>23,
           <1>24, <1>25, <1>26, <1>27, <1>28, <1>29, <1>30, <1>31
        DEF CallStep, InputStep, OpenerStep, ForwarderStep

LEMMA ScopeStep ==
    ASSUME Shapes, SchedulerTypeOK, NEW c \in Call, CallOK(c), live => scope >= 1, CallStep(c)
    PROVE  ScopeOK(c)'
<1>1. CASE OpenArrives(c)
  BY <1>1, CarrierAssumption DEF OpenArrives, Shapes, CallOK, ScopeOK, ModeOK, Opening, NoEntry, InScope, schedulerVars
<1>2. CASE OpenRejected(c)
  BY <1>2, CarrierAssumption DEF OpenRejected, Shapes, CallOK, ScopeOK, ModeOK, Opening, NoEntry, InScope, schedulerVars
<1>3. CASE CancelArrives(c)
  BY <1>3, CarrierAssumption, ScopeStays DEF CancelArrives, Shapes, CallOK, ScopeOK, ModeOK, Opening, NoEntry, schedulerVars
<1>4. CASE InputFindsCall(c)
  BY <1>4, CarrierAssumption, ScopeStays DEF InputFindsCall, Shapes, CallOK, ScopeOK, ModeOK, Opening, NoEntry, schedulerVars
<1>5. CASE InputFindsNone(c)
  BY <1>5, CarrierAssumption, ScopeStays DEF InputFindsNone, HandlerReturned, Shapes, CallOK, ScopeOK, ModeOK, Opening, NoEntry
<1>6. CASE InputDelivered(c)
  BY <1>6, CarrierAssumption, ScopeStays DEF InputDelivered, HandlerReturned, Shapes, CallOK, ScopeOK, ModeOK, Opening, NoEntry
<1>7. CASE OpenRefused(c)
  BY <1>7, CarrierAssumption, ScopeStays DEF OpenRefused, RemoveEntry, Shapes, CallOK, ScopeOK, ModeOK, Opening, NoEntry, schedulerVars
<1>8. CASE OpenUnreported(c)
  BY <1>8, CarrierAssumption, ScopeStays DEF OpenUnreported, Shapes, CallOK, ScopeOK, ModeOK, Opening, NoEntry, schedulerVars
<1>9. CASE OpenUnsupported(c)
  <2>1. /\ entry' \in [Call -> Entry]
        /\ \/ entry'[c] = entry[c] /\ up'[c] \cap {"failure", "terminal"} # {}
           \/ entry'[c] = NoEntry
        /\ \A x \in Call : x # c => entry'[x] = entry[x]
    BY <1>9, OpenerLeaves
  <2> QED BY <1>9, CarrierAssumption, ScopeStays, <2>1 DEF OpenUnsupported, Shapes, CallOK, ScopeOK, ModeOK, Opening, NoEntry, schedulerVars
<1>10. CASE OpenAdmitted(c)
  BY <1>10, CarrierAssumption, ScopeStays DEF OpenAdmitted, Shapes, CallOK, ScopeOK, ModeOK, Opening, NoEntry, schedulerVars
<1>11. CASE BidiCommitFails(c)
  BY <1>11, CarrierAssumption, ScopeStays DEF BidiCommitFails, RemoveEntry, Shapes, CallOK, ScopeOK, ModeOK, Opening, NoEntry, schedulerVars
<1>12. CASE LifecycleRegistered(c)
  BY <1>12, CarrierAssumption, ScopeStays DEF LifecycleRegistered, AfterRegister, Shapes, CallOK, ScopeOK, ModeOK, Opening, NoEntry, schedulerVars
<1>13. CASE LifecycleRefused(c)
  <2>1. /\ entry' \in [Call -> Entry]
        /\ \/ entry'[c] = entry[c] /\ up'[c] \cap {"failure", "terminal"} # {}
           \/ entry'[c] = NoEntry
        /\ \A x \in Call : x # c => entry'[x] = entry[x]
    BY <1>13, OpenerLeaves
  <2> QED BY <1>13, CarrierAssumption, ScopeStays, <2>1 DEF LifecycleRefused, Shapes, CallOK, ScopeOK, ModeOK, Opening, NoEntry, schedulerVars
<1>14. CASE CommitFails(c)
  BY <1>14, CarrierAssumption, ScopeStays DEF CommitFails, Shapes, CallOK, ScopeOK, ModeOK, Opening, NoEntry, schedulerVars
<1>15. CASE UnaryReplies(c)
  BY <1>15, CarrierAssumption, ScopeStays DEF UnaryReplies, Shapes, CallOK, ScopeOK, ModeOK, Opening, NoEntry, schedulerVars
<1>16. CASE StreamInserted(c)
  BY <1>16, CarrierAssumption, ScopeStays DEF StreamInserted, Shapes, CallOK, ScopeOK, ModeOK, Opening, NoEntry, schedulerVars
<1>17. CASE StreamScopeEnded(c)
  BY <1>17, CarrierAssumption, ScopeStays DEF StreamScopeEnded, Shapes, CallOK, ScopeOK, ModeOK, Opening, NoEntry, schedulerVars
<1>18. CASE AdmissionMissing(c)
  <2>1. /\ entry' \in [Call -> Entry]
        /\ \/ entry'[c] = entry[c] /\ up'[c] \cap {"failure", "terminal"} # {}
           \/ entry'[c] = NoEntry
        /\ \A x \in Call : x # c => entry'[x] = entry[x]
    BY <1>18, OpenerLeaves
  <2> QED BY <1>18, CarrierAssumption, ScopeStays, <2>1 DEF AdmissionMissing, Shapes, CallOK, ScopeOK, ModeOK, Opening, NoEntry, schedulerVars
<1>19. CASE AdmissionSent(c)
  BY <1>19, CarrierAssumption, ScopeStays DEF AdmissionSent, Shapes, CallOK, ScopeOK, ModeOK, Opening, NoEntry, schedulerVars
<1>20. CASE AdmissionUnsent(c)
  BY <1>20, CarrierAssumption, ScopeStays DEF AdmissionUnsent, RemoveEntry, Shapes, CallOK, ScopeOK, ModeOK, Opening, NoEntry, schedulerVars
<1>21. CASE Promoted(c)
  BY <1>21, CarrierAssumption, ScopeStays DEF Promoted, Shapes, CallOK, ScopeOK, ModeOK, Opening, NoEntry, schedulerVars
<1>22. CASE PromotionFails(c)
  BY <1>22, CarrierAssumption, ScopeStays DEF PromotionFails, Shapes, CallOK, ScopeOK, ModeOK, Opening, NoEntry, schedulerVars
<1>23. CASE DataUnsent(c)
  BY <1>23, CarrierAssumption, ScopeStays DEF DataUnsent, Shapes, CallOK, ScopeOK, ModeOK, Opening, NoEntry, schedulerVars
<1>24. CASE ForwardingStops(c)
  BY <1>24, CarrierAssumption, ScopeStays DEF ForwardingStops, Shapes, CallOK, ScopeOK, ModeOK, Opening, NoEntry, schedulerVars
<1>25. CASE OutputUnmapped(c)
  BY <1>25, CarrierAssumption, ScopeStays DEF OutputUnmapped, Shapes, CallOK, ScopeOK, ModeOK, Opening, NoEntry, schedulerVars
<1>26. CASE TerminalForwarded(c)
  BY <1>26, CarrierAssumption, ScopeStays DEF TerminalForwarded, AfterForwarding, Shapes, CallOK, ScopeOK, ModeOK, Opening, NoEntry, schedulerVars
<1>27. CASE Closes(c)
  BY <1>27, CarrierAssumption, ScopeStays DEF Closes, AfterForwarding, Shapes, CallOK, ScopeOK, ModeOK, Opening, NoEntry, schedulerVars
<1>28. CASE Retires(c)
  BY <1>28, CarrierAssumption, ScopeStays DEF Retires, RemoveEntry, Shapes, CallOK, ScopeOK, ModeOK, Opening, NoEntry, schedulerVars
<1>29. CASE RuntimeEnds(c)
  BY <1>29, CarrierAssumption, ScopeStays DEF RuntimeEnds, Shapes, CallOK, ScopeOK, ModeOK, Opening, NoEntry, schedulerVars
<1>30. CASE PumpDelivers(c)
  BY <1>30, CarrierAssumption, ScopeStays DEF PumpDelivers, Shapes, CallOK, ScopeOK, ModeOK, Opening, NoEntry, schedulerVars
<1>31. CASE PumpStops(c)
  BY <1>31, CarrierAssumption, ScopeStays DEF PumpStops, Shapes, CallOK, ScopeOK, ModeOK, Opening, NoEntry, schedulerVars
<1> QED BY <1>1, <1>2, <1>3, <1>4, <1>5, <1>6, <1>7, <1>8, <1>9, <1>10, <1>11, <1>12,
           <1>13, <1>14, <1>15, <1>16, <1>17, <1>18, <1>19, <1>20, <1>21, <1>22, <1>23,
           <1>24, <1>25, <1>26, <1>27, <1>28, <1>29, <1>30, <1>31
        DEF CallStep, InputStep, OpenerStep, ForwarderStep

LEMMA LifeStep ==
    ASSUME Shapes, SchedulerTypeOK, TerminalListed, NEW c \in Call, CallOK(c), live => scope >= 1, CallStep(c)
    PROVE  LifeOK(c)'
<1>0. Told(c) BY CallStepTells
<1>1. CASE OpenArrives(c)
  BY <1>1, <1>0, CarrierAssumption DEF OpenArrives, Told, Shapes, CallOK, LifeOK, Unregistered, Registered, ScopeOK
<1>2. CASE OpenRejected(c)
  BY <1>2, <1>0, CarrierAssumption DEF OpenRejected, Told, Shapes, CallOK, LifeOK, Unregistered, Registered, ScopeOK
<1>3. CASE CancelArrives(c)
  BY <1>3, <1>0, ScopeStays DEF CancelArrives, Told, Shapes, CallOK, LifeOK, Unregistered, Registered
<1>4. CASE InputFindsCall(c)
  BY <1>4, <1>0, ScopeStays DEF InputFindsCall, Told, Shapes, CallOK, LifeOK, Unregistered, Registered
<1>5. CASE InputFindsNone(c)
  BY <1>5, <1>0, ScopeStays DEF InputFindsNone, Told, Shapes, CallOK, LifeOK, Unregistered, Registered
<1>6. CASE InputDelivered(c)
  BY <1>6, <1>0, ScopeStays DEF InputDelivered, Told, Shapes, CallOK, LifeOK, Unregistered, Registered
<1>7. CASE OpenRefused(c)
  BY <1>7, <1>0, ScopeStays DEF OpenRefused, Told, Shapes, CallOK, LifeOK, Unregistered, Registered
<1>8. CASE OpenUnreported(c)
  BY <1>8, <1>0, ScopeStays DEF OpenUnreported, Told, Shapes, CallOK, LifeOK, Unregistered, Registered
<1>9. CASE OpenUnsupported(c)
  BY <1>9, <1>0, ScopeStays DEF OpenUnsupported, Told, Shapes, CallOK, LifeOK, Unregistered, Registered
<1>10. CASE OpenAdmitted(c)
  BY <1>10, <1>0, ScopeStays DEF OpenAdmitted, Told, Shapes, CallOK, LifeOK, Unregistered, Registered
<1>11. CASE BidiCommitFails(c)
  BY <1>11, <1>0, ScopeStays DEF BidiCommitFails, Told, Stop, Stray, Shapes, CallOK, LifeOK, Unregistered, Registered
<1>12. CASE LifecycleRegistered(c)
  <2>1. AfterRegister(c) \in {"admitting", "inserting", "executing"} BY DEF AfterRegister
  <2>2. task'[c] = AfterRegister(c) BY <1>12 DEF LifecycleRegistered, Shapes
  <2>3. lifecycle'[c] = "active"
    <3>1. lifecycle[c] = "none" BY <1>12 DEF LifecycleRegistered, CallOK, LifeOK, Unregistered
    <3>2. ~SlotFree => c # Head(expiry) BY <1>12, <3>1, HeadListed DEF LifecycleRegistered
    <3> QED BY <1>12, <3>2 DEF LifecycleRegistered
  <2> QED BY <2>1, <2>2, <2>3 DEF LifeOK, Unregistered, Registered
<1>13. CASE LifecycleRefused(c)
  BY <1>13, <1>0, ScopeStays DEF LifecycleRefused, Told, Stop, Stray, Shapes, CallOK, LifeOK, Unregistered, Registered
<1>14. CASE CommitFails(c)
  BY <1>14, <1>0, ScopeStays DEF CommitFails, Told, Finalize, Stray, Shapes, CallOK, LifeOK, Unregistered, Registered
<1>15. CASE UnaryReplies(c)
  BY <1>15, <1>0, ScopeStays DEF UnaryReplies, Told, Finalize, Stray, Shapes, CallOK, LifeOK, Unregistered, Registered
<1>16. CASE StreamInserted(c)
  BY <1>16, <1>0, ScopeStays DEF StreamInserted, Told, Shapes, CallOK, LifeOK, Unregistered, Registered
<1>17. CASE StreamScopeEnded(c)
  BY <1>17, <1>0, ScopeStays DEF StreamScopeEnded, Told, Finalize, Stray, Shapes, CallOK, LifeOK, Unregistered, Registered
<1>18. CASE AdmissionMissing(c)
  BY <1>18, <1>0, ScopeStays DEF AdmissionMissing, Told, Finalize, Stray, Shapes, CallOK, LifeOK, Unregistered, Registered
<1>19. CASE AdmissionSent(c)
  BY <1>19, <1>0, ScopeStays DEF AdmissionSent, Told, Shapes, CallOK, LifeOK, Unregistered, Registered
<1>20. CASE AdmissionUnsent(c)
  BY <1>20, <1>0, ScopeStays DEF AdmissionUnsent, Told, Finalize, Stray, Shapes, CallOK, LifeOK, Unregistered, Registered
<1>21. CASE Promoted(c)
  BY <1>21, <1>0, ScopeStays DEF Promoted, Told, Shapes, CallOK, LifeOK, Unregistered, Registered
<1>22. CASE PromotionFails(c)
  BY <1>22, <1>0, ScopeStays, CarrierAssumption DEF PromotionFails, Told, Shapes, CallOK, LifeOK, Unregistered, Registered, UpOK, ScopeOK, ModeOK, Opening
<1>23. CASE DataUnsent(c)
  BY <1>23, <1>0, ScopeStays DEF DataUnsent, Told, Shapes, CallOK, LifeOK, Unregistered, Registered
<1>24. CASE ForwardingStops(c)
  BY <1>24, <1>0, ScopeStays DEF ForwardingStops, Told, Shapes, CallOK, LifeOK, Unregistered, Registered
<1>25. CASE OutputUnmapped(c)
  BY <1>25, <1>0, ScopeStays DEF OutputUnmapped, Told, Finalize, Stray, Shapes, CallOK, LifeOK, Unregistered, Registered
<1>26. CASE TerminalForwarded(c)
  BY <1>26, <1>0, ScopeStays DEF TerminalForwarded, Told, Finalize, Stray, AfterForwarding, Shapes, CallOK, LifeOK, Unregistered, Registered
<1>27. CASE Closes(c)
  BY <1>27, <1>0, ScopeStays DEF Closes, Told, Finalize, Stray, AfterForwarding, Shapes, CallOK, LifeOK, Unregistered, Registered
<1>28. CASE Retires(c)
  BY <1>28, <1>0, ScopeStays DEF Retires, Told, Shapes, CallOK, LifeOK, Unregistered, Registered
<1>29. CASE RuntimeEnds(c)
  BY <1>29, <1>0, ScopeStays DEF RuntimeEnds, Told, Shapes, CallOK, LifeOK, Unregistered, Registered
<1>30. CASE PumpDelivers(c)
  BY <1>30, <1>0, ScopeStays DEF PumpDelivers, Told, Shapes, CallOK, LifeOK, Unregistered, Registered
<1>31. CASE PumpStops(c)
  BY <1>31, <1>0, ScopeStays DEF PumpStops, Told, Shapes, CallOK, LifeOK, Unregistered, Registered
<1> QED BY <1>1, <1>2, <1>3, <1>4, <1>5, <1>6, <1>7, <1>8, <1>9, <1>10, <1>11, <1>12,
           <1>13, <1>14, <1>15, <1>16, <1>17, <1>18, <1>19, <1>20, <1>21, <1>22, <1>23,
           <1>24, <1>25, <1>26, <1>27, <1>28, <1>29, <1>30, <1>31
        DEF CallStep, InputStep, OpenerStep, ForwarderStep

LEMMA UpStep ==
    ASSUME Shapes, SchedulerTypeOK, NEW c \in Call, CallOK(c), live => scope >= 1, CallStep(c)
    PROVE  UpOK(c)'
<1>0. Told(c) BY CallStepTells
<1>1. CASE OpenArrives(c)
  BY <1>1, <1>0, CarrierAssumption DEF OpenArrives, Told, Shapes, CallOK, UpOK, ModeOK, ScopeOK, InScope
<1>2. CASE OpenRejected(c)
  BY <1>2, <1>0, CarrierAssumption DEF OpenRejected, Told, Shapes, CallOK, UpOK, ModeOK, ScopeOK, InScope
<1>3. CASE CancelArrives(c)
  BY <1>3, <1>0 DEF CancelArrives, Told, Shapes, CallOK, UpOK, ModeOK, ScopeOK
<1>4. CASE InputFindsCall(c)
  BY <1>4, <1>0 DEF InputFindsCall, Told, Shapes, CallOK, UpOK, ModeOK, ScopeOK
<1>5. CASE InputFindsNone(c)
  BY <1>5, <1>0 DEF InputFindsNone, Told, Shapes, CallOK, UpOK, ModeOK, ScopeOK
<1>6. CASE InputDelivered(c)
  BY <1>6, <1>0 DEF InputDelivered, Told, Shapes, CallOK, UpOK, ModeOK, ScopeOK
<1>7. CASE OpenRefused(c)
  BY <1>7, <1>0 DEF OpenRefused, Told, RemoveEntry, NoEntry, Shapes, CallOK, UpOK, ModeOK, ScopeOK
<1>8. CASE OpenUnreported(c)
  BY <1>8, <1>0, CarrierAssumption DEF OpenUnreported, Told, Shapes, CallOK, UpOK, ModeOK, ScopeOK
<1>9. CASE OpenUnsupported(c)
  <2>1. /\ entry' \in [Call -> Entry]
        /\ \/ entry'[c] = entry[c] /\ up'[c] \cap {"failure", "terminal"} # {}
           \/ entry'[c] = NoEntry
        /\ \A x \in Call : x # c => entry'[x] = entry[x]
    BY <1>9, OpenerLeaves
  <2> QED BY <1>9, <1>0, <2>1 DEF OpenUnsupported, Told, NoEntry, Shapes, CallOK, UpOK, ModeOK, ScopeOK
<1>10. CASE OpenAdmitted(c)
  BY <1>10, <1>0 DEF OpenAdmitted, Told, Shapes, CallOK, UpOK, ModeOK, ScopeOK
<1>11. CASE BidiCommitFails(c)
  BY <1>11, <1>0 DEF BidiCommitFails, Told, RemoveEntry, NoEntry, Shapes, CallOK, UpOK, ModeOK, ScopeOK
<1>12. CASE LifecycleRegistered(c)
  BY <1>12, <1>0 DEF LifecycleRegistered, Told, AfterRegister, Shapes, CallOK, UpOK, ModeOK, ScopeOK
<1>13. CASE LifecycleRefused(c)
  <2>1. /\ entry' \in [Call -> Entry]
        /\ \/ entry'[c] = entry[c] /\ up'[c] \cap {"failure", "terminal"} # {}
           \/ entry'[c] = NoEntry
        /\ \A x \in Call : x # c => entry'[x] = entry[x]
    BY <1>13, OpenerLeaves
  <2> QED BY <1>13, <1>0, <2>1 DEF LifecycleRefused, Told, NoEntry, Shapes, CallOK, UpOK, ModeOK, ScopeOK
<1>14. CASE CommitFails(c)
  BY <1>14, <1>0, CarrierAssumption DEF CommitFails, Told, Shapes, CallOK, UpOK, ModeOK, ScopeOK
<1>15. CASE UnaryReplies(c)
  BY <1>15, <1>0, CarrierAssumption DEF UnaryReplies, Told, Shapes, CallOK, UpOK, ModeOK, ScopeOK
<1>16. CASE StreamInserted(c)
  BY <1>16, <1>0 DEF StreamInserted, Told, Shapes, CallOK, UpOK, ModeOK, ScopeOK
<1>17. CASE StreamScopeEnded(c)
  BY <1>17, <1>0, CarrierAssumption DEF StreamScopeEnded, Told, Shapes, CallOK, UpOK, ModeOK, ScopeOK
<1>18. CASE AdmissionMissing(c)
  <2>1. /\ entry' \in [Call -> Entry]
        /\ \/ entry'[c] = entry[c] /\ up'[c] \cap {"failure", "terminal"} # {}
           \/ entry'[c] = NoEntry
        /\ \A x \in Call : x # c => entry'[x] = entry[x]
    BY <1>18, OpenerLeaves
  <2> QED BY <1>18, <1>0, <2>1 DEF AdmissionMissing, Told, NoEntry, Shapes, CallOK, UpOK, ModeOK, ScopeOK
<1>19. CASE AdmissionSent(c)
  BY <1>19, <1>0, SendTells DEF AdmissionSent, Told, Result, Shapes, CallOK, UpOK, ModeOK, ScopeOK
<1>20. CASE AdmissionUnsent(c)
  BY <1>20, <1>0 DEF AdmissionUnsent, Told, RemoveEntry, NoEntry, Shapes, CallOK, UpOK, ModeOK, ScopeOK
<1>21. CASE Promoted(c)
  BY <1>21, <1>0 DEF Promoted, Told, Shapes, CallOK, UpOK, ModeOK, ScopeOK
<1>22. CASE PromotionFails(c)
  BY <1>22, <1>0, CarrierAssumption DEF PromotionFails, Told, Shapes, CallOK, UpOK, ModeOK, ScopeOK, Opening
<1>23. CASE DataUnsent(c)
  BY <1>23, <1>0 DEF DataUnsent, Told, Shapes, CallOK, UpOK, ModeOK, ScopeOK
<1>24. CASE ForwardingStops(c)
  BY <1>24, <1>0 DEF ForwardingStops, Told, Shapes, CallOK, UpOK, ModeOK, ScopeOK
<1>25. CASE OutputUnmapped(c)
  BY <1>25, <1>0 DEF OutputUnmapped, Told, Shapes, CallOK, UpOK, ModeOK, ScopeOK
<1>26. CASE TerminalForwarded(c)
  BY <1>26, <1>0, CarrierAssumption DEF TerminalForwarded, Told, AfterForwarding, Shapes, CallOK, UpOK, ModeOK, ScopeOK
<1>27. CASE Closes(c)
  BY <1>27, <1>0, CarrierAssumption DEF Closes, Told, AfterForwarding, Shapes, CallOK, UpOK, ModeOK, ScopeOK
<1>28. CASE Retires(c)
  BY <1>28, <1>0 DEF Retires, Told, RemoveEntry, NoEntry, Shapes, CallOK, UpOK, ModeOK, ScopeOK
<1>29. CASE RuntimeEnds(c)
  BY <1>29, <1>0 DEF RuntimeEnds, Told, Shapes, CallOK, UpOK, ModeOK, ScopeOK
<1>30. CASE PumpDelivers(c)
  BY <1>30, <1>0 DEF PumpDelivers, Told, Shapes, CallOK, UpOK, ModeOK, ScopeOK
<1>31. CASE PumpStops(c)
  BY <1>31, <1>0 DEF PumpStops, Told, Shapes, CallOK, UpOK, ModeOK, ScopeOK
<1> QED BY <1>1, <1>2, <1>3, <1>4, <1>5, <1>6, <1>7, <1>8, <1>9, <1>10, <1>11, <1>12,
           <1>13, <1>14, <1>15, <1>16, <1>17, <1>18, <1>19, <1>20, <1>21, <1>22, <1>23,
           <1>24, <1>25, <1>26, <1>27, <1>28, <1>29, <1>30, <1>31
        DEF CallStep, InputStep, OpenerStep, ForwarderStep

LEMMA ContiguousStays ==
    ASSUME NEW c \in Call, Contiguous(c), handled'[c] = handled[c],
           ingress'[c] = ingress[c] \/ ingress'[c] = <<>>
    PROVE  Contiguous(c)'
<1>1. CASE ingress'[c] = ingress[c] BY <1>1 DEF Contiguous
<1>2. CASE ingress'[c] = <<>> BY <1>2 DEF Contiguous
<1> QED BY <1>1, <1>2

LEMMA InputStepOK ==
    ASSUME Shapes, SchedulerTypeOK, NEW c \in Call, CallOK(c), Ordered(c), Attended(c),
           live => scope >= 1, CallStep(c)
    PROVE  InputOK(c)'
<1>0. Told(c) BY CallStepTells
<1> USE DEF Opening
<1>1. CASE OpenArrives(c)
  <2>1. task[c] = "absent" /\ ~InScope(c)
    BY <1>1 DEF OpenArrives, CallOK, ScopeOK, InScope, Shapes
  <2>2. /\ handled[c] = <<>> /\ ingress[c] = <<>> /\ pump[c] = "none" /\ sent[c] = 0
    BY <2>1 DEF CallOK, ScopeOK, InputOK
  <2>3. started[c] = 0 /\ flight[c].pc = "idle"
    <3>1. started[c] \in Nat /\ Len(lanes[c]) \in Nat BY DEF SchedulerTypeOK
    <3> QED BY <2>2, <3>1 DEF Ordered, NextOf, Attended
  <2>4. /\ flight'[c] = flight[c] /\ started'[c] = started[c] /\ handled'[c] = handled[c]
        /\ ingress'[c] = ingress[c] /\ pump'[c] = pump[c] /\ handing'[c] = handing[c]
        /\ up'[c] = up[c] /\ task'[c] = "opening"
    BY <1>1 DEF OpenArrives, schedulerVars, Shapes
  <2>5. First(c)' = 1 BY <2>3, <2>4 DEF First
  <2>6. Len(handled'[c]) + Len(ingress'[c]) + 1 = 1 BY <2>2, <2>4
  <2>7. Contiguous(c)' BY <2>4, ContiguousStays DEF CallOK, InputOK
  <2> QED BY <2>2, <2>3, <2>4, <2>5, <2>6, <2>7 DEF CallOK, InputOK
<1>2. CASE OpenRejected(c)
  BY <1>2, <1>0, ContiguousStays, CarrierAssumption DEF OpenRejected, Told, Shapes, CallOK, InputOK, UpOK, ModeOK, ReceiverAlive, Accepts, First, schedulerVars
<1>3. CASE CancelArrives(c)
  BY <1>3, <1>0, ContiguousStays, CarrierAssumption DEF CancelArrives, Told, Shapes, CallOK, InputOK, UpOK, ModeOK, ReceiverAlive, Accepts, First, schedulerVars
<1>4. CASE InputFindsCall(c)
  BY <1>4, <1>0, ContiguousStays, CarrierAssumption DEF InputFindsCall, Told, Shapes, CallOK, InputOK, UpOK, ModeOK, ReceiverAlive, Accepts, First, schedulerVars
<1>5. CASE InputFindsNone(c)
  BY <1>5, <1>0, ContiguousStays, CarrierAssumption DEF InputFindsNone, Told, HandlerReturned, Shapes, CallOK, InputOK, UpOK, ModeOK, ReceiverAlive, Accepts, First, schedulerVars
<1>6. CASE InputDelivered(c)
  <2> DEFINE x == [n |-> flight[c].n, eof |-> flight[c].eof]
  <2>1. /\ handled'[c] = handled[c] /\ pump'[c] = pump[c] /\ task'[c] = task[c] /\ up'[c] = up[c]
        /\ handing[c] /\ ~handing'[c] /\ entry'[c] = entry[c]
        /\ flight[c].pc = "handling" /\ flight'[c].pc = "returned" /\ started'[c] = started[c]
        /\ ingress'[c] = IF ReceiverAlive(c) THEN Append(ingress[c], x) ELSE ingress[c]
    BY <1>6 DEF InputDelivered, HandlerReturned, Shapes, SchedulerTypeOK, Slot
  <2>2. x.n = started[c] /\ First(c) = started[c] /\ First(c)' = started[c] + 1
    BY <2>1 DEF Attended, First
  <2>3. /\ ingress[c] \in Seq(Input) /\ handled[c] \in Seq(1..MaxInputs)
        /\ started[c] \in Nat
    <3>1. ingress[c] \in Seq(Input) BY DEF Shapes, Input
    <3>2. handled[c] \in Seq(1..MaxInputs) BY DEF Shapes
    <3>3. started[c] \in Nat BY DEF SchedulerTypeOK
    <3> QED BY <3>1, <3>2, <3>3
  <2>4. (ReceiverAlive(c)' <=> ReceiverAlive(c)) /\ (Accepts(c)' <=> Accepts(c))
    BY <2>1 DEF ReceiverAlive, Accepts
  <2>5. CASE ~ReceiverAlive(c)
    <3>1. Contiguous(c)' BY <2>1, <2>5, ContiguousStays DEF CallOK, InputOK
    <3>2. task[c] # "absent"
      BY <2>1, <2>2, <2>3 DEF CallOK, InputOK, ScopeOK, InScope, Attended, Ordered, NextOf, Shapes, SchedulerTypeOK
    <3> QED BY <2>1, <2>4, <2>5, <3>1, <3>2 DEF CallOK, InputOK
  <2>6. CASE ReceiverAlive(c)
    <3>1. Len(handled[c]) + Len(ingress[c]) + 1 = started[c]
      BY <2>1, <2>2, <2>6 DEF CallOK, InputOK
    <3>2. x \in Input
      BY <2>1 DEF SchedulerTypeOK, Slot, Attended, Input
    <3>3. /\ Len(ingress'[c]) = Len(ingress[c]) + 1 /\ ingress'[c][Len(ingress[c]) + 1] = x
          /\ \A i \in 1..Len(ingress[c]) : ingress'[c][i] = ingress[c][i]
          /\ Len(ingress[c]) \in Nat /\ Len(handled[c]) \in Nat
      <4> HIDE DEF x
      <4>1. ingress'[c] = Append(ingress[c], x) BY <2>1, <2>6
      <4> QED BY <2>3, <3>2, <4>1
    <3> HIDE DEF x
    <3>4. Contiguous(c)'
      <4>1. Contiguous(c) BY DEF CallOK, InputOK
      <4>2. ASSUME NEW i \in 1..Len(ingress'[c])
            PROVE  ingress'[c][i].n = Len(handled'[c]) + i
        <5>1. CASE i \in 1..Len(ingress[c]) BY <2>1, <3>3, <4>1, <5>1 DEF Contiguous
        <5>2. CASE i = Len(ingress[c]) + 1
          <6>1. ingress'[c][i].n = started[c] BY <2>2, <3>3, <5>2
          <6>2. Len(handled'[c]) = Len(handled[c]) BY <2>1
          <6>3. Len(handled[c]) \in Nat /\ Len(ingress[c]) \in Nat BY <3>3
          <6>4. \A h, g \in Nat : h + g + 1 = h + (g + 1) OBVIOUS
          <6> QED BY <3>1, <5>2, <6>1, <6>2, <6>3, <6>4
        <5> QED BY <3>3, <5>1, <5>2
      <4> QED BY <2>1, <4>1, <4>2 DEF Contiguous
    <3>5. Len(handled'[c]) + Len(ingress'[c]) + 1 = First(c)'
      <4>1. Len(handled'[c]) = Len(handled[c]) /\ Len(ingress'[c]) = Len(ingress[c]) + 1
        BY <2>1, <3>3
      <4>2. Len(handled[c]) \in Nat /\ Len(ingress[c]) \in Nat BY <3>3
      <4>3. \A h, g \in Nat : h + (g + 1) + 1 = (h + g + 1) + 1 OBVIOUS
      <4> QED BY <2>2, <3>1, <4>1, <4>2, <4>3
    <3>6. task[c] # "absent" BY <2>6, <2>1 DEF ReceiverAlive, CallOK, InputOK
    <3> QED BY <2>1, <2>4, <2>6, <3>4, <3>5, <3>6 DEF CallOK, InputOK
  <2> QED BY <2>5, <2>6
<1>7. CASE OpenRefused(c)
  BY <1>7, <1>0, ContiguousStays, CarrierAssumption DEF OpenRefused, Told, RemoveEntry, DropReceiver, Shapes, CallOK, InputOK, UpOK, ModeOK, ReceiverAlive, Accepts, First, schedulerVars, NoEntry
<1>8. CASE OpenUnreported(c)
  BY <1>8, <1>0, ContiguousStays, CarrierAssumption DEF OpenUnreported, Told, Shapes, CallOK, InputOK, UpOK, ModeOK, ReceiverAlive, Accepts, First, schedulerVars
<1>9. CASE OpenUnsupported(c)
  <2>1. /\ entry' \in [Call -> Entry]
        /\ \/ entry'[c] = entry[c] /\ up'[c] \cap {"failure", "terminal"} # {}
           \/ entry'[c] = NoEntry
        /\ \A x \in Call : x # c => entry'[x] = entry[x]
    BY <1>9, OpenerLeaves
  <2> QED BY <1>9, <1>0, ContiguousStays, CarrierAssumption, <2>1 DEF OpenUnsupported, Told, DropReceiver, Shapes, CallOK, InputOK, UpOK, ModeOK, ReceiverAlive, Accepts, First, schedulerVars, NoEntry
<1>10. CASE OpenAdmitted(c)
  BY <1>10, <1>0, ContiguousStays, CarrierAssumption DEF OpenAdmitted, Told, Shapes, CallOK, InputOK, UpOK, ModeOK, ReceiverAlive, Accepts, First, schedulerVars
<1>11. CASE BidiCommitFails(c)
  BY <1>11, <1>0, ContiguousStays, CarrierAssumption DEF BidiCommitFails, Told, RemoveEntry, DropReceiver, Shapes, CallOK, InputOK, UpOK, ModeOK, ReceiverAlive, Accepts, First, schedulerVars, NoEntry
<1>12. CASE LifecycleRegistered(c)
  BY <1>12, <1>0, ContiguousStays, CarrierAssumption DEF LifecycleRegistered, Told, AfterRegister, Shapes, CallOK, InputOK, UpOK, ModeOK, ReceiverAlive, Accepts, First, schedulerVars
<1>13. CASE LifecycleRefused(c)
  <2>1. /\ entry' \in [Call -> Entry]
        /\ \/ entry'[c] = entry[c] /\ up'[c] \cap {"failure", "terminal"} # {}
           \/ entry'[c] = NoEntry
        /\ \A x \in Call : x # c => entry'[x] = entry[x]
    BY <1>13, OpenerLeaves
  <2> QED BY <1>13, <1>0, ContiguousStays, CarrierAssumption, <2>1 DEF LifecycleRefused, Told, DropReceiver, Shapes, CallOK, InputOK, UpOK, ModeOK, ReceiverAlive, Accepts, First, schedulerVars, NoEntry
<1>14. CASE CommitFails(c)
  BY <1>14, <1>0, ContiguousStays, CarrierAssumption DEF CommitFails, Told, Shapes, CallOK, InputOK, UpOK, ModeOK, ReceiverAlive, Accepts, First, schedulerVars
<1>15. CASE UnaryReplies(c)
  BY <1>15, <1>0, ContiguousStays, CarrierAssumption DEF UnaryReplies, Told, Shapes, CallOK, InputOK, UpOK, ModeOK, ReceiverAlive, Accepts, First, schedulerVars
<1>16. CASE StreamInserted(c)
  BY <1>16, <1>0, ContiguousStays, CarrierAssumption DEF StreamInserted, Told, Shapes, CallOK, InputOK, UpOK, ModeOK, ReceiverAlive, Accepts, First, schedulerVars
<1>17. CASE StreamScopeEnded(c)
  BY <1>17, <1>0, ContiguousStays, CarrierAssumption DEF StreamScopeEnded, Told, Shapes, CallOK, InputOK, UpOK, ModeOK, ReceiverAlive, Accepts, First, schedulerVars
<1>18. CASE AdmissionMissing(c)
  <2>1. /\ entry' \in [Call -> Entry]
        /\ \/ entry'[c] = entry[c] /\ up'[c] \cap {"failure", "terminal"} # {}
           \/ entry'[c] = NoEntry
        /\ \A x \in Call : x # c => entry'[x] = entry[x]
    BY <1>18, OpenerLeaves
  <2> QED BY <1>18, <1>0, ContiguousStays, CarrierAssumption, <2>1 DEF AdmissionMissing, Told, DropReceiver, Shapes, CallOK, InputOK, UpOK, ModeOK, ReceiverAlive, Accepts, First, schedulerVars, NoEntry
<1>19. CASE AdmissionSent(c)
  BY <1>19, <1>0, ContiguousStays, CarrierAssumption DEF AdmissionSent, Told, Shapes, CallOK, InputOK, UpOK, ModeOK, ReceiverAlive, Accepts, First, schedulerVars
<1>20. CASE AdmissionUnsent(c)
  BY <1>20, <1>0, ContiguousStays, CarrierAssumption DEF AdmissionUnsent, Told, RemoveEntry, DropReceiver, Shapes, CallOK, InputOK, UpOK, ModeOK, ReceiverAlive, Accepts, First, schedulerVars, NoEntry
<1>21. CASE Promoted(c)
  BY <1>21, <1>0, ContiguousStays, CarrierAssumption DEF Promoted, Told, Shapes, CallOK, InputOK, UpOK, ModeOK, ReceiverAlive, Accepts, First, schedulerVars
<1>22. CASE PromotionFails(c)
  BY <1>22, <1>0, ContiguousStays, CarrierAssumption DEF PromotionFails, Told, DropReceiver, Shapes, CallOK, InputOK, UpOK, ModeOK, ReceiverAlive, Accepts, First, schedulerVars
<1>23. CASE DataUnsent(c)
  BY <1>23, <1>0, ContiguousStays, CarrierAssumption DEF DataUnsent, Told, Shapes, CallOK, InputOK, UpOK, ModeOK, ReceiverAlive, Accepts, First, schedulerVars
<1>24. CASE ForwardingStops(c)
  BY <1>24, <1>0, ContiguousStays, CarrierAssumption DEF ForwardingStops, Told, Shapes, CallOK, InputOK, UpOK, ModeOK, ReceiverAlive, Accepts, First, schedulerVars
<1>25. CASE OutputUnmapped(c)
  BY <1>25, <1>0, ContiguousStays, CarrierAssumption DEF OutputUnmapped, Told, Shapes, CallOK, InputOK, UpOK, ModeOK, ReceiverAlive, Accepts, First, schedulerVars
<1>26. CASE TerminalForwarded(c)
  BY <1>26, <1>0, ContiguousStays, CarrierAssumption DEF TerminalForwarded, Told, AfterForwarding, Shapes, CallOK, InputOK, UpOK, ModeOK, ReceiverAlive, Accepts, First, schedulerVars
<1>27. CASE Closes(c)
  BY <1>27, <1>0, ContiguousStays, CarrierAssumption DEF Closes, Told, AfterForwarding, Shapes, CallOK, InputOK, UpOK, ModeOK, ReceiverAlive, Accepts, First, schedulerVars
<1>28. CASE Retires(c)
  BY <1>28, <1>0, ContiguousStays, CarrierAssumption DEF Retires, Told, RemoveEntry, Shapes, CallOK, InputOK, UpOK, ModeOK, ReceiverAlive, Accepts, First, schedulerVars, NoEntry
<1>29. CASE RuntimeEnds(c)
  BY <1>29, <1>0, ContiguousStays, CarrierAssumption DEF RuntimeEnds, Told, Shapes, CallOK, InputOK, UpOK, ModeOK, ReceiverAlive, Accepts, First, schedulerVars
<1>30. CASE PumpDelivers(c)
  <2> DEFINE x == Head(ingress[c])
  <2>1. /\ ingress[c] \in Seq(Input) /\ handled[c] \in Seq(1..MaxInputs) /\ ingress[c] # <<>>
    BY <1>30 DEF PumpDelivers, Shapes, Input
  <2>2. /\ x \in Input /\ x = ingress[c][1]
        /\ Len(ingress[c]) \in Nat /\ Len(ingress[c]) >= 1 /\ Len(handled[c]) \in Nat
        /\ Len(Tail(ingress[c])) = Len(ingress[c]) - 1
        /\ \A i \in 1..Len(Tail(ingress[c])) :
              i + 1 \in 1..Len(ingress[c]) /\ Tail(ingress[c])[i] = ingress[c][i + 1]
    BY <2>1
  <2>3. x.n \in 1..MaxInputs BY <2>2 DEF Input
  <2>4. /\ handled'[c] = Append(handled[c], x.n)
        /\ \/ x.eof /\ pump'[c] = "stopped" /\ ingress'[c] = <<>>
           \/ ~x.eof /\ pump'[c] = pump[c] /\ ingress'[c] = Tail(ingress[c])
        /\ pump[c] = "running" /\ task'[c] = task[c] /\ up'[c] = up[c]
        /\ handing'[c] = handing[c] /\ entry'[c] = entry[c] /\ flight'[c] = flight[c]
        /\ started'[c] = started[c]
    BY <1>30 DEF PumpDelivers, DropReceiver, Shapes, schedulerVars
  <2> HIDE DEF x
  <2>5. /\ Len(handled'[c]) = Len(handled[c]) + 1 /\ handled'[c][Len(handled[c]) + 1] = x.n
        /\ \A i \in 1..Len(handled[c]) : handled'[c][i] = handled[c][i]
    BY <2>1, <2>3, <2>4
  <2>6. InputOK(c) /\ Contiguous(c) /\ task[c] \notin Opening \cup {"absent"}
    BY <2>4 DEF CallOK, InputOK
  <2>7. x.n = Len(handled[c]) + 1 BY <2>2, <2>6 DEF Contiguous
  <2>8. Contiguous(c)'
    <3>1. \A i \in 1..Len(handled'[c]) : handled'[c][i] = i
      BY <2>2, <2>5, <2>6, <2>7 DEF Contiguous
    <3>2. \A i \in 1..Len(ingress'[c]) : ingress'[c][i].n = Len(handled'[c]) + i
      <4>1. CASE ingress'[c] = <<>> BY <4>1
      <4>2. CASE ingress'[c] = Tail(ingress[c])
        <5> SUFFICES ASSUME NEW i \in 1..Len(Tail(ingress[c]))
                     PROVE  Tail(ingress[c])[i].n = Len(handled[c]) + 1 + i
          BY <4>2, <2>5
        <5>1. i + 1 \in 1..Len(ingress[c]) /\ Tail(ingress[c])[i] = ingress[c][i + 1] BY <2>2
        <5>2. ingress[c][i + 1].n = Len(handled[c]) + (i + 1) BY <2>6, <5>1 DEF Contiguous
        <5>3. Len(handled[c]) \in Nat BY <2>2
        <5>4. \A h \in Nat : h + (i + 1) = h + 1 + i OBVIOUS
        <5> QED BY <5>1, <5>2, <5>3, <5>4
      <4> QED BY <2>4, <4>1, <4>2
    <3> QED BY <3>1, <3>2 DEF Contiguous
  <2>9. (Accepts(c)' <=> Accepts(c)) /\ First(c)' = First(c) /\ ReceiverAlive(c)
    BY <2>4 DEF Accepts, First, ReceiverAlive
  <2>10. CASE x.eof
    <3>1. ~ReceiverAlive(c)' BY <2>4, <2>6, <2>10 DEF ReceiverAlive
    <3> QED BY <2>4, <2>6, <2>8, <2>10, <3>1 DEF InputOK
  <2>11. CASE ~x.eof
    <3>1. Len(handled'[c]) + Len(ingress'[c]) + 1 = Len(handled[c]) + Len(ingress[c]) + 1
      <4>1. Len(handled'[c]) = Len(handled[c]) + 1 /\ Len(ingress'[c]) = Len(ingress[c]) - 1
        BY <2>2, <2>4, <2>5, <2>11
      <4>2. Len(handled[c]) \in Nat /\ Len(ingress[c]) \in Nat BY <2>2
      <4>3. \A h, g \in Nat : (h + 1) + (g - 1) + 1 = h + g + 1 OBVIOUS
      <4> QED BY <4>1, <4>2, <4>3
    <3> QED BY <2>4, <2>6, <2>8, <2>9, <2>11, <3>1 DEF InputOK
  <2> QED BY <2>10, <2>11
<1>31. CASE PumpStops(c)
  BY <1>31, <1>0, ContiguousStays, CarrierAssumption DEF PumpStops, Told, DropReceiver, Shapes, CallOK, InputOK, UpOK, ModeOK, ReceiverAlive, Accepts, First, schedulerVars
<1> QED BY <1>1, <1>2, <1>3, <1>4, <1>5, <1>6, <1>7, <1>8, <1>9, <1>10, <1>11, <1>12,
           <1>13, <1>14, <1>15, <1>16, <1>17, <1>18, <1>19, <1>20, <1>21, <1>22, <1>23,
           <1>24, <1>25, <1>26, <1>27, <1>28, <1>29, <1>30, <1>31
        DEF CallStep, InputStep, OpenerStep, ForwarderStep

LEMMA CallStepKeepsCalls ==
    ASSUME Shapes, SchedulerInv, TerminalListed, live => scope >= 1,
           \A d \in Call : CallOK(d),
           NEW c \in Call, CallStep(c)
    PROVE  \A d \in Call : CallOK(d)'
<1>1. SchedulerTypeOK /\ Ordered(c) /\ Attended(c) BY DEF SchedulerInv
<1>2. CallOK(c)'
  BY <1>1, ModeStep, ScopeStep, LifeStep, UpStep, InputStepOK DEF CallOK
<1>3. ASSUME NEW d \in Call, d # c PROVE CallOK(d)'
  BY <1>1, <1>3, OthersSame, SameKeeps
<1> QED BY <1>2, <1>3

-----------------------------------------------------------------------------
(* The session's own steps.                                                *)

LEMMA LinkKeepsCall ==
    ASSUME NEW d \in Call, CallOK(d), Shapes, SchedulerTypeOK, LinkFails
    PROVE  CallOK(d)'
<1>1. InScope(d)' <=> InScope(d) BY DEF LinkFails, InScope
<1>2. SameCall(d) BY DEF LinkFails, SameCall, schedulerVars
<1>3. ModeOK(d)' BY <1>2 DEF CallOK, SameCall, ModeOK
<1>4. ScopeOK(d)' BY <1>1, <1>2 DEF CallOK, SameCall, ScopeOK, LinkFails
<1>5. LifeOK(d)' BY <1>1, <1>2 DEF CallOK, SameCall, LifeOK, Unregistered, Registered
<1>6. UpOK(d)' BY <1>2 DEF CallOK, SameCall, UpOK
<1>7. InputOK(d)' BY <1>2 DEF CallOK, SameCall, InputOK, Contiguous, ReceiverAlive, Accepts, First
<1> QED BY <1>3, <1>4, <1>5, <1>6, <1>7 DEF CallOK

\* No call of an earlier scope comes back into scope with a new session.
LEMMA BeginKeepsCall ==
    ASSUME NEW d \in Call, CallOK(d), Shapes, SchedulerTypeOK, BeginSession
    PROVE  CallOK(d)'
<1>1. ~InScope(d) BY DEF BeginSession, InScope
<1>2. ~InScope(d)' /\ home'[d] <= scope'
  <2>1. home[d] \in Nat /\ scope \in Nat /\ home[d] <= scope BY DEF Shapes, CallOK, ScopeOK
  <2>2. home[d] # scope + 1 /\ home[d] <= scope + 1 BY <2>1
  <2> QED BY <2>2 DEF BeginSession, InScope
<1>3. SameCall(d) BY DEF BeginSession, SameCall, schedulerVars
<1>4. ModeOK(d)' BY <1>3 DEF CallOK, SameCall, ModeOK
<1>5. ScopeOK(d)' BY <1>1, <1>2, <1>3 DEF CallOK, SameCall, ScopeOK
<1>6. LifeOK(d)' BY <1>1, <1>2, <1>3 DEF CallOK, SameCall, LifeOK, Unregistered, Registered
<1>7. UpOK(d)' BY <1>3 DEF CallOK, SameCall, UpOK
<1>8. InputOK(d)' BY <1>3 DEF CallOK, SameCall, InputOK, Contiguous, ReceiverAlive, Accepts, First
<1> QED BY <1>4, <1>5, <1>6, <1>7, <1>8 DEF CallOK

LEMMA EndKeepsCall ==
    ASSUME NEW d \in Call, CallOK(d), Shapes, SchedulerTypeOK, EndSession
    PROVE  CallOK(d)'
<1>1. ~InScope(d)' BY DEF EndSession, InScope
<1>2. /\ home'[d] = home[d] /\ task'[d] = task[d] /\ runtime'[d] = runtime[d] /\ scope' = scope
      /\ lifecycle'[d] = lifecycle[d] /\ ingress'[d] = ingress[d] /\ pump'[d] = pump[d]
      /\ handled'[d] = handled[d] /\ up'[d] = up[d] /\ erred' = erred
      /\ ~handing'[d] /\ entry'[d] = NoEntry /\ sent'[d] = 0
      /\ token'[d] # "armed" /\ (token'[d] # "none" => token[d] # "none")
  BY DEF EndSession, RetireScope, Abort
<1>3. entry'[d].phase = "none" BY <1>2 DEF NoEntry
<1>4. ModeOK(d)' BY <1>2 DEF CallOK, ModeOK
<1>5. ScopeOK(d)' BY <1>1, <1>2, <1>3 DEF CallOK, ScopeOK
<1>6. LifeOK(d)' BY <1>1, <1>2 DEF CallOK, LifeOK
<1>7. UpOK(d)' BY <1>2, <1>3 DEF CallOK, UpOK
<1>8. InputOK(d)'
  <2>1. Contiguous(d)' BY <1>2, ContiguousStays DEF CallOK, InputOK
  <2> QED BY <1>2, <1>3, <2>1 DEF CallOK, InputOK, Accepts
<1> QED BY <1>4, <1>5, <1>6, <1>7, <1>8 DEF CallOK

\* A step of the scheduler alone moves no dispatch that is being handled.
LEMMA QueueKeepsCall ==
    ASSUME NEW d \in Call, CallOK(d), UNCHANGED carrierVars,
           sent'[d] # 0 => sent[d] # 0 \/ InScope(d),
           First(d)' = First(d),
           flight[d].pc = "handling" => flight'[d].pc = "handling"
    PROVE  CallOK(d)'
<1>1. InScope(d)' <=> InScope(d) BY DEF carrierVars, InScope
<1>2. ModeOK(d)' BY DEF CallOK, ModeOK, carrierVars
<1>3. ScopeOK(d)' BY <1>1 DEF CallOK, ScopeOK, carrierVars
<1>4. LifeOK(d)' BY <1>1 DEF CallOK, LifeOK, carrierVars
<1>5. UpOK(d)' BY DEF CallOK, UpOK, carrierVars
<1>6. InputOK(d)' BY DEF CallOK, InputOK, Contiguous, ReceiverAlive, Accepts, carrierVars
<1> QED BY <1>2, <1>3, <1>4, <1>5, <1>6 DEF CallOK

LEMMA SchedulerKeepsCalls ==
    ASSUME SchedulerInv, \A d \in Call : CallOK(d), SchedulerStep
    PROVE  \A d \in Call : CallOK(d)'
<1>0. SchedulerTypeOK BY DEF SchedulerInv
<1>1. UNCHANGED carrierVars BY DEF SchedulerStep
<1>2. CASE Recv
  <2>1. \A d \in Call : flight[d].pc = "handling" => flight'[d].pc = "handling"
    BY <1>0, <1>2 DEF Recv, SchedulerTypeOK
  <2>2. sent' = sent BY <1>2 DEF Recv
  <2> QED BY <1>1, <1>2, <2>1, <2>2, RecvKeepsInv, QueueKeepsCall
<1>3. ASSUME NEW c \in Call, Completed(c) PROVE \A d \in Call : CallOK(d)'
  <2>1. \A d \in Call : flight[d].pc = "handling" => flight'[d].pc = "handling"
    BY <1>0, <1>3 DEF Completed, SchedulerTypeOK
  <2>2. sent' = sent BY <1>3 DEF Completed
  <2> QED BY <1>1, <1>3, <2>1, <2>2, CompletedKeepsInv, QueueKeepsCall
<1> QED BY <1>2, <1>3 DEF SchedulerStep

LEMMA ArrivalKeepsCalls ==
    ASSUME SchedulerInv, \A d \in Call : CallOK(d),
           NEW c \in Call, NEW eof \in BOOLEAN, InputArrives(c, eof)
    PROVE  \A d \in Call : CallOK(d)'
<1>1. UNCHANGED carrierVars /\ RouteInput(c, eof) /\ InScope(c) BY DEF InputArrives
<1>2. SchedulerTypeOK BY DEF SchedulerInv
<1>3. \A d \in Call : /\ sent'[d] # 0 => sent[d] # 0 \/ InScope(d)
                      /\ flight'[d] = flight[d]
  BY <1>1, <1>2 DEF RouteInput, SchedulerTypeOK
<1> QED BY <1>1, <1>3, RouteKeepsInv, QueueKeepsCall

-----------------------------------------------------------------------------
(* The lifecycle registry.                                                 *)

RegistryInv ==
    /\ RegistryOK
    /\ Cardinality(Tracked) <= MaxTracked
    /\ TerminalListed

LEMMA ListedAt ==
    ASSUME Shapes
    PROVE  \A d : d \in Range(expiry) <=> \E i \in 1..Len(expiry) : expiry[i] = d
<1>1. DOMAIN expiry = 1..Len(expiry) BY DEF Shapes
<1> QED BY <1>1, Zenon DEF Range

LEMMA RegistryStays ==
    ASSUME RegistryInv, UNCHANGED <<lifecycle, expiry>>
    PROVE  RegistryInv'
<1>1. Tracked' = Tracked BY DEF Tracked
<1>2. Range(expiry)' = Range(expiry) BY DEF Range
<1> QED BY <1>1, <1>2 DEF RegistryInv, RegistryOK, TerminalListed

\* An active entry becomes terminal once, at the end of the list.
LEMMA FinalizeKeepsRegistry ==
    ASSUME Shapes, RegistryInv, NEW c \in Call, lifecycle[c] = "active", Finalize(c)
    PROVE  RegistryInv'
<1>1. /\ lifecycle' \in [Call -> {"none", "active", "terminal"}] /\ expiry' \in Seq(Call)
      /\ \A d \in Call : lifecycle'[d] = IF d = c THEN "terminal" ELSE lifecycle[d]
      /\ expiry' = Append(expiry, c)
  BY LifeShape DEF Finalize, Shapes
<1>2. Tracked' = Tracked BY <1>1 DEF Tracked
<1>3. /\ expiry \in Seq(Call) /\ Len(expiry) \in Nat /\ Len(expiry') = Len(expiry) + 1
      /\ \A i \in 1..Len(expiry) : expiry'[i] = expiry[i]
      /\ expiry'[Len(expiry) + 1] = c
  <2>1. expiry \in Seq(Call) BY DEF Shapes
  <2> QED BY <1>1, <2>1
<1>4. \A i \in 1..Len(expiry) : expiry[i] # c
  <2>1. c \notin Range(expiry) BY DEF RegistryInv, TerminalListed
  <2> QED BY <2>1, ListedAt
<1>5. \A i, j \in 1..Len(expiry') : expiry'[i] = expiry'[j] => i = j
  <2> SUFFICES ASSUME NEW i \in 1..Len(expiry'), NEW j \in 1..Len(expiry'),
                      expiry'[i] = expiry'[j]
               PROVE  i = j
    OBVIOUS
  <2>1. (i \in 1..Len(expiry) \/ i = Len(expiry) + 1) /\ (j \in 1..Len(expiry) \/ j = Len(expiry) + 1)
    BY <1>3
  <2> QED BY <2>1, <1>3, <1>4 DEF RegistryInv, RegistryOK
<1>6. TerminalListed'
  <2> SUFFICES ASSUME NEW d \in Call PROVE (lifecycle'[d] = "terminal") <=> d \in Range(expiry')
    BY DEF TerminalListed
  <2>1. DOMAIN expiry' = 1..Len(expiry') BY <1>1
  <2>2. d \in Range(expiry') <=> \E i \in 1..Len(expiry') : expiry'[i] = d
    BY <2>1, Zenon DEF Range
  <2>3. (\E i \in 1..Len(expiry') : expiry'[i] = d)
        <=> (\E i \in 1..Len(expiry) : expiry[i] = d) \/ d = c
    <3>1. ASSUME NEW i \in 1..Len(expiry'), expiry'[i] = d
          PROVE  (\E k \in 1..Len(expiry) : expiry[k] = d) \/ d = c
      <4>1. CASE i \in 1..Len(expiry) BY <1>3, <3>1, <4>1
      <4>2. CASE i = Len(expiry) + 1 BY <1>3, <3>1, <4>2
      <4> QED BY <1>3, <4>1, <4>2
    <3>2. ASSUME NEW i \in 1..Len(expiry), expiry[i] = d
          PROVE  \E k \in 1..Len(expiry') : expiry'[k] = d
      <4>1. i \in 1..Len(expiry') BY <1>3
      <4> QED BY <1>3, <3>2, <4>1
    <3>3. Len(expiry) + 1 \in 1..Len(expiry') BY <1>3
    <3> QED BY <1>3, <3>1, <3>2, <3>3
  <2>4. d \in Range(expiry) <=> \E i \in 1..Len(expiry) : expiry[i] = d BY ListedAt
  <2>5. (lifecycle[d] = "terminal") <=> d \in Range(expiry) BY DEF RegistryInv, TerminalListed
  <2> QED BY <1>1, <2>2, <2>3, <2>4, <2>5
<1> QED BY <1>2, <1>5, <1>6 DEF RegistryInv, RegistryOK

LEMMA SettleKeepsRegistry ==
    ASSUME Shapes, RegistryInv, NEW c \in Call, lifecycle[c] = "active", Finalize(c) \/ Stray(c)
    PROVE  RegistryInv'
<1>1. CASE Stray(c) BY <1>1, RegistryStays DEF Stray
<1> QED BY <1>1, FinalizeKeepsRegistry

\* A new entry takes a free slot, or the slot of the oldest terminal entry.
LEMMA RegisterKeepsRegistry ==
    ASSUME Shapes, RegistryInv, NEW c \in Call, lifecycle[c] = "none", LifecycleRegistered(c)
    PROVE  RegistryInv'
<1>0. c \notin Tracked /\ IsFiniteSet(Tracked) /\ Cardinality(Tracked) \in Nat
  BY FS_CardinalityType DEF Tracked, RegistryInv, RegistryOK
<1>1. CASE SlotFree
  <2>1. \A d \in Call : lifecycle'[d] = IF d = c THEN "active" ELSE lifecycle[d]
    BY <1>1 DEF LifecycleRegistered
  <2>2. expiry' = expiry BY <1>1 DEF LifecycleRegistered
  <2>3. Tracked' = Tracked \cup {c} BY <2>1 DEF Tracked
  <2>4. IsFiniteSet(Tracked') /\ Cardinality(Tracked') = Cardinality(Tracked) + 1
    BY <1>0, <2>3, FS_AddElement
  <2>5. Cardinality(Tracked') <= MaxTracked
    BY <1>0, <1>1, <2>4, CarrierAssumption DEF SlotFree
  <2>6. TerminalListed'
    <3>1. c \notin Range(expiry) BY DEF RegistryInv, TerminalListed
    <3> QED BY <2>1, <2>2, <3>1 DEF RegistryInv, TerminalListed
  <2> QED BY <2>2, <2>4, <2>5, <2>6 DEF RegistryInv, RegistryOK
<1>2. CASE ~SlotFree
  <2>1. expiry # <<>> /\ expiry' = Tail(expiry) /\ TerminalListed
    BY <1>2 DEF LifecycleRegistered, RegistryInv
  <2>2. PICK h \in Call : h = Head(expiry) /\ lifecycle[h] = "terminal" BY <2>1, HeadListed
  <2>3. \A d \in Call : lifecycle'[d] = IF d = c THEN "active" ELSE IF d = h THEN "none" ELSE lifecycle[d]
    BY <1>2, <2>2 DEF LifecycleRegistered
  <2>4. h # c /\ h \in Tracked BY <2>2 DEF Tracked
  <2>5. Tracked' = (Tracked \ {h}) \cup {c} BY <2>3, <2>4 DEF Tracked
  <2>6. IsFiniteSet(Tracked') /\ Cardinality(Tracked') = Cardinality(Tracked)
    <3>1. IsFiniteSet(Tracked \ {h}) /\ Cardinality(Tracked \ {h}) = Cardinality(Tracked) - 1
      BY <1>0, <2>4, FS_RemoveElement
    <3>2. c \notin Tracked \ {h} BY <1>0
    <3>3. /\ IsFiniteSet(Tracked')
          /\ Cardinality(Tracked') = Cardinality(Tracked \ {h}) + 1
      BY <2>5, <3>1, <3>2, FS_AddElement
    <3> QED BY <1>0, <3>1, <3>3
  <2>7. /\ expiry \in Seq(Call) /\ Len(expiry) \in Nat /\ expiry' \in Seq(Call)
        /\ Len(expiry') = Len(expiry) - 1 /\ h = expiry[1] /\ Len(expiry) >= 1
        /\ \A i \in 1..Len(expiry') : i + 1 \in 1..Len(expiry) /\ expiry'[i] = expiry[i + 1]
        /\ \A i \in 2..Len(expiry) : i - 1 \in 1..Len(expiry') /\ expiry'[i - 1] = expiry[i]
    <3>1. expiry \in Seq(Call) BY DEF Shapes
    <3> QED BY <2>1, <2>2, <3>1
  <2>8. \A i, j \in 1..Len(expiry) : expiry[i] = expiry[j] => i = j
    BY DEF RegistryInv, RegistryOK
  <2>9. \A i, j \in 1..Len(expiry') : expiry'[i] = expiry'[j] => i = j
    <3> SUFFICES ASSUME NEW i \in 1..Len(expiry'), NEW j \in 1..Len(expiry'),
                        expiry'[i] = expiry'[j]
                 PROVE  i = j
      OBVIOUS
    <3>1. i + 1 \in 1..Len(expiry) /\ expiry'[i] = expiry[i + 1] BY <2>7
    <3>2. j + 1 \in 1..Len(expiry) /\ expiry'[j] = expiry[j + 1] BY <2>7
    <3>3. i + 1 = j + 1 BY <2>8, <3>1, <3>2
    <3> QED BY <3>3
  <2>10. ASSUME NEW d \in Call PROVE d \in Range(expiry') <=> d \in Range(expiry) /\ d # h
    <3>1. DOMAIN expiry' = 1..Len(expiry') BY <2>7
    <3>2. d \in Range(expiry') <=> \E i \in 1..Len(expiry') : expiry'[i] = d
      BY <3>1, Zenon DEF Range
    <3>3. d \in Range(expiry) <=> \E i \in 1..Len(expiry) : expiry[i] = d BY ListedAt
    <3>4. ASSUME NEW i \in 1..Len(expiry'), expiry'[i] = d
          PROVE  (\E k \in 1..Len(expiry) : expiry[k] = d) /\ d # h
      <4>1. i + 1 \in 1..Len(expiry) /\ expiry[i + 1] = d BY <2>7, <3>4
      <4>2. i + 1 # 1 /\ 1 \in 1..Len(expiry) BY <2>7
      <4>3. expiry[i + 1] # expiry[1] BY <2>8, <4>1, <4>2
      <4> QED BY <2>7, <4>1, <4>3
    <3>5. ASSUME NEW i \in 1..Len(expiry), expiry[i] = d, d # h
          PROVE  \E k \in 1..Len(expiry') : expiry'[k] = d
      <4>1. i \in 2..Len(expiry) BY <2>7, <3>5
      <4> QED BY <2>7, <3>5, <4>1
    <3> QED BY <3>2, <3>3, <3>4, <3>5
  <2>11. TerminalListed'
    <3>1. c \notin Range(expiry) BY <2>1 DEF TerminalListed
    <3> QED BY <2>1, <2>3, <2>10, <3>1 DEF TerminalListed
  <2> QED BY <2>6, <2>9, <2>11 DEF RegistryInv, RegistryOK
<1> QED BY <1>1, <1>2

LEMMA CallStepKeepsRegistry ==
    ASSUME Shapes, RegistryInv, NEW c \in Call, CallOK(c), CallStep(c)
    PROVE  RegistryInv'
<1>1. CASE OpenArrives(c) BY <1>1, RegistryStays DEF OpenArrives
<1>2. CASE OpenRejected(c) BY <1>2, RegistryStays DEF OpenRejected
<1>3. CASE CancelArrives(c) BY <1>3, RegistryStays DEF CancelArrives
<1>4. CASE InputFindsCall(c) BY <1>4, RegistryStays DEF InputFindsCall
<1>5. CASE InputFindsNone(c) BY <1>5, RegistryStays DEF InputFindsNone
<1>6. CASE InputDelivered(c) BY <1>6, RegistryStays DEF InputDelivered
<1>7. CASE OpenRefused(c) BY <1>7, RegistryStays DEF OpenRefused
<1>8. CASE OpenUnreported(c) BY <1>8, RegistryStays DEF OpenUnreported
<1>9. CASE OpenUnsupported(c) BY <1>9, RegistryStays DEF OpenUnsupported
<1>10. CASE OpenAdmitted(c) BY <1>10, RegistryStays DEF OpenAdmitted
<1>11. CASE BidiCommitFails(c) BY <1>11, RegistryStays DEF BidiCommitFails, Stop, Stray
<1>12. CASE LifecycleRegistered(c)
  <2>1. lifecycle[c] = "none" BY <1>12 DEF LifecycleRegistered, CallOK, LifeOK, Unregistered
  <2> QED BY <1>12, <2>1, RegisterKeepsRegistry
<1>13. CASE LifecycleRefused(c) BY <1>13, RegistryStays DEF LifecycleRefused, Stop, Stray
<1>14. CASE CommitFails(c)
  <2>1. lifecycle[c] = "active" /\ (Finalize(c) \/ Stray(c))
    BY <1>14 DEF CommitFails, CallOK, LifeOK, Registered
  <2> QED BY <2>1, SettleKeepsRegistry
<1>15. CASE UnaryReplies(c)
  <2>1. lifecycle[c] = "active" /\ (Finalize(c) \/ Stray(c))
    BY <1>15 DEF UnaryReplies, CallOK, LifeOK, Registered
  <2> QED BY <2>1, SettleKeepsRegistry
<1>16. CASE StreamInserted(c) BY <1>16, RegistryStays DEF StreamInserted
<1>17. CASE StreamScopeEnded(c)
  <2>1. lifecycle[c] = "active" /\ (Finalize(c) \/ Stray(c))
    BY <1>17 DEF StreamScopeEnded, CallOK, LifeOK, Registered
  <2> QED BY <2>1, SettleKeepsRegistry
<1>18. CASE AdmissionMissing(c)
  <2>1. lifecycle[c] = "active" /\ (Finalize(c) \/ Stray(c))
    BY <1>18 DEF AdmissionMissing, CallOK, LifeOK, Registered
  <2> QED BY <2>1, SettleKeepsRegistry
<1>19. CASE AdmissionSent(c) BY <1>19, RegistryStays DEF AdmissionSent
<1>20. CASE AdmissionUnsent(c)
  <2>1. lifecycle[c] = "active" /\ (Finalize(c) \/ Stray(c))
    BY <1>20 DEF AdmissionUnsent, CallOK, LifeOK, Registered
  <2> QED BY <2>1, SettleKeepsRegistry
<1>21. CASE Promoted(c) BY <1>21, RegistryStays DEF Promoted
<1>22. CASE PromotionFails(c) BY <1>22, RegistryStays DEF PromotionFails
<1>23. CASE DataUnsent(c) BY <1>23, RegistryStays DEF DataUnsent
<1>24. CASE ForwardingStops(c) BY <1>24, RegistryStays DEF ForwardingStops
<1>25. CASE OutputUnmapped(c)
  <2>1. lifecycle[c] = "active" /\ (Finalize(c) \/ Stray(c))
    BY <1>25 DEF OutputUnmapped, CallOK, LifeOK, Registered
  <2> QED BY <2>1, SettleKeepsRegistry
<1>26. CASE TerminalForwarded(c)
  <2>1. lifecycle[c] = "active" /\ (Finalize(c) \/ Stray(c))
    BY <1>26 DEF TerminalForwarded, CallOK, LifeOK, Registered
  <2> QED BY <2>1, SettleKeepsRegistry
<1>27. CASE Closes(c)
  <2>1. lifecycle[c] = "active" /\ (Finalize(c) \/ Stray(c))
    BY <1>27 DEF Closes, CallOK, LifeOK, Registered
  <2> QED BY <2>1, SettleKeepsRegistry
<1>28. CASE Retires(c) BY <1>28, RegistryStays DEF Retires
<1>29. CASE RuntimeEnds(c) BY <1>29, RegistryStays DEF RuntimeEnds
<1>30. CASE PumpDelivers(c) BY <1>30, RegistryStays DEF PumpDelivers
<1>31. CASE PumpStops(c) BY <1>31, RegistryStays DEF PumpStops
<1> QED BY <1>1, <1>2, <1>3, <1>4, <1>5, <1>6, <1>7, <1>8, <1>9, <1>10, <1>11, <1>12,
           <1>13, <1>14, <1>15, <1>16, <1>17, <1>18, <1>19, <1>20, <1>21, <1>22, <1>23,
           <1>24, <1>25, <1>26, <1>27, <1>28, <1>29, <1>30, <1>31
        DEF CallStep, InputStep, OpenerStep, ForwarderStep

-----------------------------------------------------------------------------
(* The ingress of a call is bounded.                                       *)

IngressBounded == \A c \in Call : Len(ingress[c]) <= IngressCapacity

LEMMA IngressKept ==
    ASSUME Shapes, IngressBounded, NEW c \in Call,
           \A d \in Call : d # c => ingress'[d] = ingress[d],
           ingress'[c] = ingress[c] \/ ingress'[c] = <<>>
    PROVE  IngressBounded'
<1>1. Len(<<>>) = 0 /\ 0 <= IngressCapacity BY CarrierAssumption
<1> QED BY <1>1 DEF IngressBounded

LEMMA CallStepKeepsIngress ==
    ASSUME Shapes, IngressBounded, NEW c \in Call, CallStep(c)
    PROVE  IngressBounded'
<1>0. \A d \in Call : ingress[d] \in Seq(Input) BY DEF Shapes, Input
<1>1. CASE OpenArrives(c) BY <1>1, IngressKept DEF OpenArrives
<1>2. CASE OpenRejected(c) BY <1>2, IngressKept DEF OpenRejected
<1>3. CASE CancelArrives(c) BY <1>3, IngressKept DEF CancelArrives
<1>4. CASE InputFindsCall(c) BY <1>4, IngressKept DEF InputFindsCall
<1>5. CASE InputFindsNone(c) BY <1>5, IngressKept DEF InputFindsNone
<1>6. CASE InputDelivered(c)
  <2> DEFINE x == [n |-> flight[c].n, eof |-> flight[c].eof]
  <2>1. /\ \A d \in Call : d # c => ingress'[d] = ingress[d]
        /\ ingress'[c] = IF ReceiverAlive(c) THEN Append(ingress[c], x) ELSE ingress[c]
        /\ ReceiverAlive(c) => Len(ingress[c]) < IngressCapacity
    BY <1>6 DEF InputDelivered, IngressHasRoom, Shapes
  <2> HIDE DEF x
  <2>2. CASE ~ReceiverAlive(c) BY <2>1, <2>2, IngressKept
  <2>3. CASE ReceiverAlive(c)
    <3>1. Len(ingress'[c]) = Len(ingress[c]) + 1 /\ Len(ingress[c]) \in Nat
      BY <1>0, <2>1, <2>3
    <3>2. Len(ingress'[c]) <= IngressCapacity BY <2>1, <2>3, <3>1, CarrierAssumption
    <3> QED BY <2>1, <3>2 DEF IngressBounded
  <2> QED BY <2>2, <2>3
<1>7. CASE OpenRefused(c) BY <1>7, IngressKept DEF OpenRefused, DropReceiver, Shapes
<1>8. CASE OpenUnreported(c) BY <1>8, IngressKept DEF OpenUnreported
<1>9. CASE OpenUnsupported(c) BY <1>9, IngressKept DEF OpenUnsupported, DropReceiver, Shapes
<1>10. CASE OpenAdmitted(c) BY <1>10, IngressKept DEF OpenAdmitted
<1>11. CASE BidiCommitFails(c) BY <1>11, IngressKept DEF BidiCommitFails, DropReceiver, Shapes
<1>12. CASE LifecycleRegistered(c) BY <1>12, IngressKept DEF LifecycleRegistered
<1>13. CASE LifecycleRefused(c) BY <1>13, IngressKept DEF LifecycleRefused, DropReceiver, Shapes
<1>14. CASE CommitFails(c) BY <1>14, IngressKept DEF CommitFails
<1>15. CASE UnaryReplies(c) BY <1>15, IngressKept DEF UnaryReplies
<1>16. CASE StreamInserted(c) BY <1>16, IngressKept DEF StreamInserted
<1>17. CASE StreamScopeEnded(c) BY <1>17, IngressKept DEF StreamScopeEnded
<1>18. CASE AdmissionMissing(c) BY <1>18, IngressKept DEF AdmissionMissing, DropReceiver, Shapes
<1>19. CASE AdmissionSent(c) BY <1>19, IngressKept DEF AdmissionSent
<1>20. CASE AdmissionUnsent(c) BY <1>20, IngressKept DEF AdmissionUnsent, DropReceiver, Shapes
<1>21. CASE Promoted(c) BY <1>21, IngressKept DEF Promoted
<1>22. CASE PromotionFails(c) BY <1>22, IngressKept DEF PromotionFails, DropReceiver, Shapes
<1>23. CASE DataUnsent(c) BY <1>23, IngressKept DEF DataUnsent
<1>24. CASE ForwardingStops(c) BY <1>24, IngressKept DEF ForwardingStops
<1>25. CASE OutputUnmapped(c) BY <1>25, IngressKept DEF OutputUnmapped
<1>26. CASE TerminalForwarded(c) BY <1>26, IngressKept DEF TerminalForwarded
<1>27. CASE Closes(c) BY <1>27, IngressKept DEF Closes
<1>28. CASE Retires(c) BY <1>28, IngressKept DEF Retires
<1>29. CASE RuntimeEnds(c) BY <1>29, IngressKept DEF RuntimeEnds
<1>30. CASE PumpDelivers(c)
  <2>1. /\ \A d \in Call : d # c => ingress'[d] = ingress[d]
        /\ ingress'[c] = <<>> \/ ingress'[c] = Tail(ingress[c])
        /\ ingress[c] # <<>>
    BY <1>30 DEF PumpDelivers, DropReceiver, Shapes
  <2>2. CASE ingress'[c] = <<>> BY <2>1, <2>2, IngressKept
  <2>3. CASE ingress'[c] = Tail(ingress[c])
    <3>1. Len(ingress'[c]) = Len(ingress[c]) - 1 /\ Len(ingress[c]) \in Nat
      BY <1>0, <2>1, <2>3
    <3>2. Len(ingress[c]) <= IngressCapacity BY DEF IngressBounded
    <3>3. Len(ingress'[c]) <= IngressCapacity BY <3>1, <3>2, CarrierAssumption
    <3> QED BY <2>1, <3>3 DEF IngressBounded
  <2> QED BY <2>1, <2>2, <2>3
<1>31. CASE PumpStops(c) BY <1>31, IngressKept DEF PumpStops, DropReceiver, Shapes
<1> QED BY <1>1, <1>2, <1>3, <1>4, <1>5, <1>6, <1>7, <1>8, <1>9, <1>10, <1>11, <1>12,
           <1>13, <1>14, <1>15, <1>16, <1>17, <1>18, <1>19, <1>20, <1>21, <1>22, <1>23,
           <1>24, <1>25, <1>26, <1>27, <1>28, <1>29, <1>30, <1>31
        DEF CallStep, InputStep, OpenerStep, ForwarderStep

LEMMA CallStepKeepsScope ==
    ASSUME NEW c \in Call, CallStep(c)
    PROVE  UNCHANGED <<scope, live>>
<1>1. CASE OpenArrives(c) BY <1>1 DEF OpenArrives
<1>2. CASE OpenRejected(c) BY <1>2 DEF OpenRejected
<1>3. CASE CancelArrives(c) BY <1>3 DEF CancelArrives
<1>4. CASE InputFindsCall(c) BY <1>4 DEF InputFindsCall
<1>5. CASE InputFindsNone(c) BY <1>5 DEF InputFindsNone
<1>6. CASE InputDelivered(c) BY <1>6 DEF InputDelivered
<1>7. CASE OpenRefused(c) BY <1>7 DEF OpenRefused
<1>8. CASE OpenUnreported(c) BY <1>8 DEF OpenUnreported
<1>9. CASE OpenUnsupported(c) BY <1>9 DEF OpenUnsupported
<1>10. CASE OpenAdmitted(c) BY <1>10 DEF OpenAdmitted
<1>11. CASE BidiCommitFails(c) BY <1>11 DEF BidiCommitFails
<1>12. CASE LifecycleRegistered(c) BY <1>12 DEF LifecycleRegistered
<1>13. CASE LifecycleRefused(c) BY <1>13 DEF LifecycleRefused
<1>14. CASE CommitFails(c) BY <1>14 DEF CommitFails
<1>15. CASE UnaryReplies(c) BY <1>15 DEF UnaryReplies
<1>16. CASE StreamInserted(c) BY <1>16 DEF StreamInserted
<1>17. CASE StreamScopeEnded(c) BY <1>17 DEF StreamScopeEnded
<1>18. CASE AdmissionMissing(c) BY <1>18 DEF AdmissionMissing
<1>19. CASE AdmissionSent(c) BY <1>19 DEF AdmissionSent
<1>20. CASE AdmissionUnsent(c) BY <1>20 DEF AdmissionUnsent
<1>21. CASE Promoted(c) BY <1>21 DEF Promoted
<1>22. CASE PromotionFails(c) BY <1>22 DEF PromotionFails
<1>23. CASE DataUnsent(c) BY <1>23 DEF DataUnsent
<1>24. CASE ForwardingStops(c) BY <1>24 DEF ForwardingStops
<1>25. CASE OutputUnmapped(c) BY <1>25 DEF OutputUnmapped
<1>26. CASE TerminalForwarded(c) BY <1>26 DEF TerminalForwarded
<1>27. CASE Closes(c) BY <1>27 DEF Closes
<1>28. CASE Retires(c) BY <1>28 DEF Retires
<1>29. CASE RuntimeEnds(c) BY <1>29 DEF RuntimeEnds
<1>30. CASE PumpDelivers(c) BY <1>30 DEF PumpDelivers
<1>31. CASE PumpStops(c) BY <1>31 DEF PumpStops
<1> QED BY <1>1, <1>2, <1>3, <1>4, <1>5, <1>6, <1>7, <1>8, <1>9, <1>10, <1>11, <1>12,
           <1>13, <1>14, <1>15, <1>16, <1>17, <1>18, <1>19, <1>20, <1>21, <1>22, <1>23,
           <1>24, <1>25, <1>26, <1>27, <1>28, <1>29, <1>30, <1>31
        DEF CallStep, InputStep, OpenerStep, ForwarderStep

-----------------------------------------------------------------------------
(* The inductive invariant.                                                *)

CarrierInv ==
    /\ SchedulerInv
    /\ Shapes
    /\ live => scope >= 1
    /\ RegistryInv
    /\ IngressBounded
    /\ \A c \in Call : CallOK(c)

LEMMA CarrierInvInit == Init => CarrierInv
<1> SUFFICES ASSUME Init PROVE CarrierInv OBVIOUS
<1>1. SchedulerInv BY SchedulerInvInit DEF Init
<1>2. Shapes
  <2>1. NoEntry \in Entry BY DEF NoEntry, Entry
  <2>2. entry \in [Call -> Entry] BY <2>1 DEF Init
  <2>3. ingress \in [Call -> Seq(Input)] /\ handled \in [Call -> Seq(1..MaxInputs)] BY DEF Init
  <2>4. /\ scope \in 0..MaxScopes /\ home \in [Call -> 0..MaxScopes]
        /\ live \in BOOLEAN /\ handing \in [Call -> BOOLEAN]
    <3>1. 0 \in 0..MaxScopes BY CarrierAssumption
    <3>2. scope \in 0..MaxScopes /\ home \in [Call -> 0..MaxScopes] BY <3>1 DEF Init
    <3>3. live \in BOOLEAN /\ handing \in [Call -> BOOLEAN]
      BY Zenon DEF Init
    <3> QED BY <3>2, <3>3
  <2>5. up \in [Call -> SUBSET Result] /\ faulted \subseteq 1..MaxScopes /\ task \in [Call -> Phase] BY Phases DEF Init
  <2> QED BY <2>2, <2>3, <2>4, <2>5 DEF Init, Shapes, Entry, Input
<1>3. RegistryInv
  <2>1. Tracked = {} BY DEF Init, Tracked
  <2>2. Range(expiry) = {} BY DEF Init, Range
  <2>3. IsFiniteSet(Tracked) /\ Cardinality(Tracked) = 0 BY <2>1, FS_EmptySet
  <2>4. TerminalListed BY <2>2 DEF Init, TerminalListed
  <2>5. RegistryOK BY <2>3 DEF Init, RegistryOK
  <2> QED BY <2>3, <2>4, <2>5, CarrierAssumption DEF RegistryInv
<1>4. IngressBounded BY CarrierAssumption DEF Init, IngressBounded
<1>5. ASSUME NEW c \in Call PROVE CallOK(c)
  <2>1. ModeOK(c) BY <1>5 DEF Init, ModeOK
  <2>2. ScopeOK(c) BY <1>5 DEF Init, SchedulerInit, ScopeOK, NoEntry, Opening
  <2>3. LifeOK(c) BY <1>5 DEF Init, LifeOK, Registered
  <2>4. UpOK(c) BY <1>5 DEF Init, UpOK, NoEntry
  <2>5. InputOK(c)
    BY <1>5 DEF Init, InputOK, Contiguous, ReceiverAlive, Opening
  <2> QED BY <2>1, <2>2, <2>3, <2>4, <2>5 DEF CallOK
<1>6. live => scope >= 1 BY DEF Init
<1> QED BY <1>1, <1>2, <1>3, <1>4, <1>5, <1>6 DEF CarrierInv

LEMMA CarrierInvStep == CarrierInv /\ [Next]_vars => CarrierInv'
<1> SUFFICES ASSUME CarrierInv, [Next]_vars PROVE CarrierInv' OBVIOUS
<1>0. /\ SchedulerInv /\ SchedulerTypeOK /\ Shapes /\ (live => scope >= 1)
      /\ RegistryInv /\ TerminalListed /\ IngressBounded /\ \A c \in Call : CallOK(c)
  BY DEF CarrierInv, SchedulerInv, RegistryInv
<1>1. SchedulerInv' BY <1>0, StepSchedules, SchedulerInvStep
<1>2. ASSUME NEW c \in Call, CallStep(c) PROVE CarrierInv'
  <2>1. Attended(c) BY <1>0 DEF SchedulerInv
  <2>2. Shapes' BY <1>0, <1>2, <2>1, CallStepShapes
  <2>3. \A d \in Call : CallOK(d)' BY <1>0, <1>2, CallStepKeepsCalls
  <2>4. RegistryInv' BY <1>0, <1>2, CallStepKeepsRegistry
  <2>5. IngressBounded' BY <1>0, <1>2, CallStepKeepsIngress
  <2>6. UNCHANGED <<scope, live>> BY <1>2, CallStepKeepsScope
  <2> QED BY <1>0, <1>1, <2>2, <2>3, <2>4, <2>5, <2>6 DEF CarrierInv
<1>3. CASE EndSession
  <2>1. UNCHANGED <<lifecycle, expiry, ingress>> BY <1>3 DEF EndSession
  <2>2. Shapes'
    <3>1. NoEntry \in Entry BY DEF NoEntry, Entry
    <3> QED BY <1>0, <1>3, <3>1 DEF EndSession, RetireScope, Shapes, Entry
  <2>3. \A d \in Call : CallOK(d)' BY <1>0, <1>3, EndKeepsCall
  <2>4. ~live' BY <1>3 DEF EndSession
  <2> QED BY <1>0, <1>1, <2>1, <2>2, <2>3, <2>4, RegistryStays DEF CarrierInv, IngressBounded
<1>4. CASE BeginSession
  <2>1. UNCHANGED <<lifecycle, expiry, ingress>> BY <1>4 DEF BeginSession
  <2>2. Shapes'
    <3>1. scope' \in 0..MaxScopes BY <1>0, <1>4, CarrierAssumption DEF BeginSession, Shapes
    <3> QED BY <1>0, <1>4, <3>1 DEF BeginSession, Shapes
  <2>3. \A d \in Call : CallOK(d)' BY <1>0, <1>4, BeginKeepsCall
  <2>4. scope' >= 1 BY <1>0, <1>4 DEF BeginSession, Shapes
  <2> QED BY <1>0, <1>1, <2>1, <2>2, <2>3, <2>4, RegistryStays DEF CarrierInv, IngressBounded
<1>5. CASE LinkFails
  <2>1. UNCHANGED <<lifecycle, expiry, ingress, scope, live>> BY <1>5 DEF LinkFails
  <2>2. Shapes'
    <3>1. faulted' \subseteq 1..MaxScopes
      <4>1. \A s \in 1..scope : s \in 1..MaxScopes BY <1>0, CarrierAssumption DEF Shapes
      <4> QED BY <1>0, <1>5, <4>1 DEF LinkFails, Shapes
    <3> QED BY <1>0, <1>5, <3>1 DEF LinkFails, Shapes
  <2>3. \A d \in Call : CallOK(d)' BY <1>0, <1>5, LinkKeepsCall
  <2> QED BY <1>0, <1>1, <2>1, <2>2, <2>3, RegistryStays DEF CarrierInv, IngressBounded
<1>6. ASSUME UNCHANGED carrierVars, \A d \in Call : CallOK(d)' PROVE CarrierInv'
  <2>1. UNCHANGED <<lifecycle, expiry, ingress, scope, live>> BY <1>6 DEF carrierVars
  <2>2. Shapes' BY <1>0, <1>6 DEF carrierVars, Shapes
  <2> QED BY <1>0, <1>1, <1>6, <2>1, <2>2, RegistryStays DEF CarrierInv, IngressBounded
<1>7. CASE SchedulerStep
  <2>1. UNCHANGED carrierVars BY <1>7 DEF SchedulerStep
  <2> QED BY <1>0, <1>6, <1>7, <2>1, SchedulerKeepsCalls
<1>8. ASSUME NEW c \in Call, NEW eof \in BOOLEAN, InputArrives(c, eof) PROVE CarrierInv'
  <2>1. UNCHANGED carrierVars BY <1>8 DEF InputArrives
  <2> QED BY <1>0, <1>6, <1>8, <2>1, ArrivalKeepsCalls
<1>9. ASSUME NEW c \in Call, SaturatedEnds(c) PROVE CarrierInv'
  BY <1>3, <1>9 DEF SaturatedEnds
<1>10. CASE UNCHANGED vars
  <2>1. UNCHANGED carrierVars /\ UNCHANGED schedulerVars BY <1>10 DEF vars
  <2>2. \A d \in Call : /\ sent'[d] = sent[d] /\ flight'[d] = flight[d]
                        /\ started'[d] = started[d]
    BY <2>1 DEF schedulerVars
  <2>3. \A d \in Call : First(d)' = First(d) BY <2>2 DEF First
  <2> QED BY <1>0, <1>6, <2>1, <2>2, <2>3, QueueKeepsCall
<1> QED BY <1>2, <1>3, <1>4, <1>5, <1>7, <1>8, <1>9, <1>10 DEF Next, CallStep

-----------------------------------------------------------------------------
(* The theorems.                                                           *)

LEMMA CarrierInvariant == Spec => []CarrierInv
BY CarrierInvInit, CarrierInvStep, PTL DEF Spec

\* The device's state for the calls on its session is well formed: the
\* ingress of a call and the registry of lifecycles stay within capacity, and
\* the registry lists each terminal entry, and no other, for expiry.
THEOREM CarrierTypes == Spec => []TypeOK
<1>1. CarrierInv => TypeOK
  <2> SUFFICES ASSUME CarrierInv PROVE TypeOK OBVIOUS
  <2>1. SchedulerTypeOK /\ Shapes /\ RegistryInv /\ IngressBounded
    BY DEF CarrierInv, SchedulerInv
  <2>2. Cardinality({c \in Call : lifecycle[c] # "none"}) <= MaxTracked
    BY <2>1 DEF RegistryInv, Tracked
  <2>3. \A c \in Call : lifecycle[c] = "terminal" <=> c \in Range(expiry)
    BY <2>1 DEF RegistryInv, TerminalListed
  <2> QED BY <2>1, <2>2, <2>3 DEF TypeOK, Shapes, IngressBounded
<1> QED BY <1>1, CarrierInvariant, PTL

\* No permit leaks and none is lost, whatever the calls that use the
\* scheduler do and however their session ends (SessionBidiPermit).
THEOREM CarrierPermits == Spec => []PermitsMatchFrames
BY CarrierImplementsScheduler, PermitsMatch, PTL

\* Inputs of a call are dispatched in the order the hub sent them, none
\* skipped, in every session (run_bidi_scheduler).
THEOREM CarrierLaneOrder == Spec => []LaneOrder
BY CarrierImplementsScheduler, LanesAreOrdered, PTL

\* A stalled call leaves the session room for the others, in every session
\* (SessionBidiBudget::reserve).
THEOREM CarrierRoom == Spec => []StallLeavesRoom
BY CarrierImplementsScheduler, RoomForOthers, PTL

\* The handler of a bidi call is given the hub's inputs in order, without a
\* gap or a repetition (forward_remote_bidi_input, the pump).
THEOREM InputFaithful == Spec => []InputIsFaithful
<1>1. CarrierInv => InputIsFaithful
  <2> SUFFICES ASSUME CarrierInv, NEW c \in Call, NEW i \in DOMAIN handled[c]
               PROVE  handled[c][i] = i
    BY DEF InputIsFaithful
  <2>1. handled[c] \in Seq(1..MaxInputs) /\ Contiguous(c)
    BY DEF CarrierInv, Shapes, CallOK, InputOK
  <2> QED BY <2>1 DEF Contiguous
<1> QED BY <1>1, CarrierInvariant, PTL

\* No input reaches a handler before the hub was sent the admission of its
\* call (register_remote_bidi).
THEOREM AdmissionBarrier == Spec => []AdmissionIsBarrier
<1>1. CarrierInv => AdmissionIsBarrier
  BY CarrierAssumption DEF CarrierInv, AdmissionIsBarrier, CallOK, InputOK
<1> QED BY <1>1, CarrierInvariant, PTL

\* No entry or token outlives its scope or is put into a later one
\* (end_carrier_scope).
THEOREM NoStale == Spec => []NoStaleRegistration
<1>1. CarrierInv => NoStaleRegistration
  BY DEF CarrierInv, NoStaleRegistration, CallOK, ScopeOK
<1> QED BY <1>1, CarrierInvariant, PTL

\* A running invocation has a task that will finalize it, but for two cases:
\* the runtime reported an error to its cancel or finalization, and a bidi
\* call whose scope ended between its admission and its promotion.
THEOREM RuntimeOwned == Spec => []RuntimeIsOwned
<1>1. CarrierInv => RuntimeIsOwned
  BY DEF CarrierInv, RuntimeIsOwned, CallOK, LifeOK
<1> QED BY <1>1, CarrierInvariant, PTL

\* An entry that the opener of a bidi call leaves in the registry is that of
\* a call the hub was told to have failed or ended.
THEOREM LeftEntryAnswered == Spec => []LeftEntryIsAnswered
<1>1. CarrierInv => LeftEntryIsAnswered
  BY DEF CarrierInv, LeftEntryIsAnswered, CallOK, UpOK
<1> QED BY <1>1, CarrierInvariant, PTL
=============================================================================
