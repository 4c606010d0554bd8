-------------------------- MODULE SchedulerProofs --------------------------
(***************************************************************************)
(* Proofs about DownFrameScheduler, for every set of calls and every       *)
(* budget.                                                                 *)
(***************************************************************************)
EXTENDS DownFrameScheduler, FiniteSetTheorems, TLAPS

(***************************************************************************)
(* LaneOrder without its set of numbers: what the queue holds of call c is *)
(* in range, increasing, and leaves no number out.                         *)
(***************************************************************************)
NextOf(c) == started[c] + Len(lanes[c]) + 1

Ordered(c) ==
    /\ \A i \in 1..Len(lanes[c]) : lanes[c][i].n = started[c] + i
    /\ \A i \in 1..Len(queue) : queue[i].call = c => queue[i].n \in NextOf(c)..sent[c]
    /\ \A n \in NextOf(c)..sent[c] : \E i \in 1..Len(queue) : queue[i].call = c /\ queue[i].n = n
    /\ \A i, j \in 1..Len(queue) :
          queue[i].call = c /\ queue[j].call = c /\ i < j => queue[i].n < queue[j].n
    /\ NextOf(c) <= sent[c] + 1

(***************************************************************************)
(* The dispatch of call c is the last one that began, and a lane has one   *)
(* to wait for.                                                            *)
(***************************************************************************)
Attended(c) ==
    /\ flight[c].pc # "idle" => flight[c].n = started[c] /\ started[c] >= 1
    /\ flight[c].pc = "idle" => lanes[c] = <<>>

(***************************************************************************)
(* The permits, counted: the numbers held for a call are an interval.      *)
(***************************************************************************)
First(c) == IF flight[c].pc = "handling" THEN started[c] ELSE started[c] + 1
Outstanding == {f \in Call \X (1..MaxInputs) : f[2] \in First(f[1])..sent[f[1]]}

PermitsOK ==
    /\ \A c \in Call : retained[c] = sent[c] + 1 - First(c)
    /\ IsFiniteSet(Outstanding)
    /\ free + Cardinality(Outstanding) = SessionBudget

SchedulerInv ==
    /\ SchedulerTypeOK
    /\ \A c \in Call : Ordered(c) /\ Attended(c)
    /\ PermitsOK

LEMMA OrderedIsLaneOrder ==
    ASSUME SchedulerTypeOK
    PROVE  LaneOrder <=> \A c \in Call : Ordered(c)
<1>1. /\ DOMAIN queue = 1..Len(queue)
      /\ \A c \in Call : DOMAIN lanes[c] = 1..Len(lanes[c])
  BY DEF SchedulerTypeOK
<1>2. ASSUME NEW c \in Call
      PROVE  ({queue[i].n : i \in QueuedOf(c)} = NextOf(c)..sent[c])
             <=> /\ \A i \in 1..Len(queue) : queue[i].call = c => queue[i].n \in NextOf(c)..sent[c]
                 /\ \A n \in NextOf(c)..sent[c] :
                       \E i \in 1..Len(queue) : queue[i].call = c /\ queue[i].n = n
  <2> DEFINE S == NextOf(c)..sent[c]
  <2> HIDE DEF S
  <2>1. ({queue[i].n : i \in QueuedOf(c)} = S)
        <=> /\ \A i \in 1..Len(queue) : queue[i].call = c => queue[i].n \in S
            /\ \A n \in S : \E i \in 1..Len(queue) : queue[i].call = c /\ queue[i].n = n
    BY <1>1, Zenon DEF QueuedOf
  <2> QED BY <2>1 DEF S
<1>3. ASSUME NEW c \in Call
      PROVE  (\A i, j \in QueuedOf(c) : i < j => queue[i].n < queue[j].n)
             <=> \A i, j \in 1..Len(queue) :
                    queue[i].call = c /\ queue[j].call = c /\ i < j => queue[i].n < queue[j].n
  BY <1>1 DEF QueuedOf
<1> QED BY <1>1, <1>2, <1>3, Zenon DEF LaneOrder, Ordered, NextOf

LEMMA HeldIsInterval ==
    ASSUME SchedulerTypeOK, NEW c \in Call, Ordered(c), Attended(c)
    PROVE  HeldOf(c) = First(c)..sent[c]
<1> DEFINE Q == {queue[i].n : i \in QueuedOf(c)}
           L == {lanes[c][i].n : i \in DOMAIN lanes[c]}
           H == {n \in {flight[c].n} : flight[c].pc = "handling"}
<1>1. /\ DOMAIN queue = 1..Len(queue)
      /\ DOMAIN lanes[c] = 1..Len(lanes[c])
      /\ Len(lanes[c]) \in Nat /\ started[c] \in Nat /\ sent[c] \in Nat
  BY DEF SchedulerTypeOK
<1>2. Q = NextOf(c)..sent[c]
  <2>1. \A i \in QueuedOf(c) : queue[i].n \in NextOf(c)..sent[c]
    BY <1>1 DEF QueuedOf, Ordered
  <2>2. \A n \in NextOf(c)..sent[c] : \E i \in QueuedOf(c) : queue[i].n = n
    BY <1>1 DEF QueuedOf, Ordered
  <2> QED BY <2>1, <2>2, Zenon
<1>3. L = (started[c] + 1)..(started[c] + Len(lanes[c]))
  <2>1. \A i \in DOMAIN lanes[c] :
           lanes[c][i].n \in (started[c] + 1)..(started[c] + Len(lanes[c]))
    BY <1>1 DEF Ordered
  <2>2. ASSUME NEW n \in (started[c] + 1)..(started[c] + Len(lanes[c]))
        PROVE  \E i \in DOMAIN lanes[c] : lanes[c][i].n = n
    <3>1. n - started[c] \in DOMAIN lanes[c] BY <1>1
    <3>2. lanes[c][n - started[c]].n = started[c] + (n - started[c])
      BY <1>1, <3>1 DEF Ordered
    <3>3. started[c] + (n - started[c]) = n BY <1>1
    <3> QED BY <3>1, <3>2, <3>3
  <2> QED BY <2>1, <2>2, Zenon
<1>4. H = IF flight[c].pc = "handling" THEN {started[c]} ELSE {}
  BY DEF Attended
<1>5. HeldOf(c) = Q \cup L \cup H BY Zenon DEF HeldOf
<1>6. NextOf(c) = started[c] + Len(lanes[c]) + 1 /\ NextOf(c) <= sent[c] + 1
  BY DEF Ordered, NextOf
<1> HIDE DEF Q, L, H
<1> QED BY <1>1, <1>2, <1>3, <1>4, <1>5, <1>6 DEF First

LEMMA HeldIsOutstanding ==
    ASSUME SchedulerTypeOK, \A c \in Call : Ordered(c) /\ Attended(c)
    PROVE  HeldFrames = Outstanding
<1>1. \A c \in Call : HeldOf(c) = First(c)..sent[c] BY HeldIsInterval
<1>2. \A f \in Call \X (1..MaxInputs) : f[1] \in Call OBVIOUS
<1> QED BY <1>1, <1>2, Zenon DEF HeldFrames, Outstanding

LEMMA InvImpliesPermits == SchedulerInv => PermitsMatchFrames
<1> SUFFICES ASSUME SchedulerInv PROVE PermitsMatchFrames OBVIOUS
<1>1. SchedulerTypeOK /\ PermitsOK /\ \A c \in Call : Ordered(c) /\ Attended(c)
  BY DEF SchedulerInv
<1>2. ASSUME NEW c \in Call PROVE retained[c] = Cardinality(HeldOf(c))
  <2>1. HeldOf(c) = First(c)..sent[c] BY <1>1, HeldIsInterval
  <2>2. First(c) \in Int /\ sent[c] \in Int /\ First(c) <= sent[c] + 1
    BY <1>1 DEF First, SchedulerTypeOK, Ordered, NextOf
  <2>3. Cardinality(First(c)..sent[c]) = sent[c] - First(c) + 1
    <3>1. Cardinality(First(c)..sent[c]) =
              IF First(c) > sent[c] THEN 0 ELSE sent[c] - First(c) + 1
      BY <2>2, FS_Interval, Zenon
    <3> QED BY <2>2, <3>1
  <2> QED BY <1>1, <2>1, <2>2, <2>3 DEF PermitsOK
<1>3. HeldFrames = Outstanding BY <1>1, HeldIsOutstanding
<1> QED BY <1>1, <1>2, <1>3 DEF PermitsMatchFrames, PermitsOK

LEMMA HeldWithinBudget ==
    ASSUME SchedulerInv, NEW c \in Call
    PROVE  /\ IsFiniteSet(HeldOf(c)) /\ Cardinality(HeldOf(c)) \in Nat
           /\ Cardinality(HeldOf(c)) < SessionBudget
<1>1. SchedulerTypeOK /\ Ordered(c) /\ Attended(c) /\ PermitsMatchFrames
  BY InvImpliesPermits DEF SchedulerInv
<1>2. HeldOf(c) = First(c)..sent[c] /\ First(c) \in Int /\ sent[c] \in Int
  BY <1>1, HeldIsInterval DEF First, SchedulerTypeOK
<1>3. IsFiniteSet(HeldOf(c)) BY <1>2, FS_Interval
<1>4. Cardinality(HeldOf(c)) = retained[c] /\ retained[c] \in 0..CallBudget
  BY <1>1 DEF PermitsMatchFrames, SchedulerTypeOK
<1> QED BY <1>3, <1>4, SchedulerAssumption

\* A session without a permit or without a queue slot has more frames than one
\* call may hold.
LEMMA InvImpliesRoom == SchedulerInv => StallLeavesRoom
<1> SUFFICES ASSUME SchedulerInv, free = 0 \/ ~QueueHasRoom,
                    \A c, d \in Call : c # d => HeldOf(c) = {} \/ HeldOf(d) = {}
             PROVE  FALSE
  BY DEF StallLeavesRoom
<1>0. /\ SchedulerTypeOK /\ PermitsMatchFrames /\ IsFiniteSet(HeldFrames)
      /\ \A c \in Call : Ordered(c) /\ Attended(c)
  BY InvImpliesPermits, HeldIsOutstanding DEF SchedulerInv, PermitsOK
<1>1. CASE free = 0
  <2>1. Cardinality(HeldFrames) = SessionBudget
    <3>1. Cardinality(HeldFrames) \in Nat BY <1>0, FS_CardinalityType
    <3> QED BY <1>0, <1>1, <3>1 DEF PermitsMatchFrames
  <2>2. HeldFrames # {} BY <2>1, FS_EmptySet, SchedulerAssumption
  <2>3. PICK g \in HeldFrames : TRUE BY <2>2
  <2>4. g[1] \in Call /\ HeldOf(g[1]) # {} BY <2>3 DEF HeldFrames
  <2>5. \A f \in HeldFrames : f \in Call \X (1..MaxInputs) /\ f[1] = g[1] /\ f[2] \in HeldOf(g[1])
    <3> SUFFICES ASSUME NEW f \in HeldFrames
                 PROVE  f \in Call \X (1..MaxInputs) /\ f[1] = g[1] /\ f[2] \in HeldOf(g[1])
      OBVIOUS
    <3>1. f \in Call \X (1..MaxInputs) /\ f[1] \in Call /\ f[2] \in HeldOf(f[1]) BY DEF HeldFrames
    <3> QED BY <2>4, <3>1
  <2> DEFINE number == [f \in HeldFrames |-> f[2]]
  <2>6. number \in Injection(HeldFrames, HeldOf(g[1]))
    <3>1. number \in [HeldFrames -> HeldOf(g[1])] BY <2>5
    <3>2. \A e, f \in HeldFrames : number[e] = number[f] => e = f BY <2>5
    <3> QED BY <3>1, <3>2, Zenon DEF Injection, IsInjective
  <2>7. Cardinality(HeldFrames) <= Cardinality(HeldOf(g[1]))
    BY <2>4, <2>6, HeldWithinBudget, FS_Injection
  <2> QED BY <2>1, <2>4, <2>7, HeldWithinBudget, SchedulerAssumption
<1>2. CASE ~QueueHasRoom
  <2>0. \A i \in 1..Len(queue) : queue[i] \in Frame BY <1>0 DEF SchedulerTypeOK
  <2>1. /\ Len(queue) \in Nat /\ Len(queue) >= SessionBudget /\ 1 \in 1..Len(queue)
        /\ \A i \in 1..Len(queue) : queue[i].call \in Call
    <3>1. Len(queue) \in Nat BY <1>0 DEF SchedulerTypeOK
    <3> QED BY <1>2, <2>0, <3>1, SchedulerAssumption DEF QueueHasRoom, Frame
  <2>2. ASSUME NEW i \in 1..Len(queue) PROVE queue[i].n \in HeldOf(queue[i].call)
    <3>1. DOMAIN queue = 1..Len(queue) BY <1>0 DEF SchedulerTypeOK
    <3>2. i \in QueuedOf(queue[i].call) BY <3>1 DEF QueuedOf
    <3> QED BY <3>2 DEF HeldOf
  <2> DEFINE c == queue[1].call
             number == [i \in 1..Len(queue) |-> queue[i].n]
  <2>3. \A i \in 1..Len(queue) : queue[i].call = c
    BY <2>1, <2>2
  <2>4. number \in [1..Len(queue) -> HeldOf(c)] BY <2>2, <2>3
  <2>5. ASSUME NEW i \in 1..Len(queue), NEW j \in 1..Len(queue), queue[i].n = queue[j].n
        PROVE  i = j
    <3>1. c \in Call /\ Ordered(c) BY <1>0, <2>1
    <3>2. queue[i].n \in Int /\ queue[j].n \in Int BY <2>0 DEF Frame
    <3>3. ~(i < j) /\ ~(j < i) BY <2>3, <2>5, <3>1, <3>2 DEF Ordered
    <3> QED BY <3>3
  <2>6. number \in Injection(1..Len(queue), HeldOf(c))
    <3>1. \A i, j \in 1..Len(queue) : number[i] = number[j] => i = j BY <2>5
    <3> QED BY <2>4, <3>1, Zenon DEF Injection, IsInjective
  <2>7. Cardinality(1..Len(queue)) <= Cardinality(HeldOf(c))
    BY <2>1, <2>6, HeldWithinBudget, FS_Injection
  <2>8. Cardinality(1..Len(queue)) = Len(queue)
    <3>1. Cardinality(1..Len(queue)) = IF 1 > Len(queue) THEN 0 ELSE Len(queue) - 1 + 1
      BY <2>1, FS_Interval
    <3> QED BY <2>1, <3>1
  <2> QED BY <2>1, <2>7, <2>8, HeldWithinBudget, SchedulerAssumption
<1> QED BY <1>1, <1>2

-----------------------------------------------------------------------------
LEMMA SchedulerInvInit == SchedulerInit => SchedulerInv
<1> SUFFICES ASSUME SchedulerInit PROVE SchedulerInv OBVIOUS
<1>1. SchedulerTypeOK
  BY SchedulerAssumption DEF SchedulerInit, EmptyScheduler, SchedulerTypeOK, IdleSlot, Slot
<1>2. ASSUME NEW c \in Call PROVE Ordered(c) /\ Attended(c)
  BY DEF SchedulerInit, EmptyScheduler, Ordered, Attended, NextOf, IdleSlot
<1>3. Outstanding = {}
  BY DEF SchedulerInit, EmptyScheduler, Outstanding, First, IdleSlot
<1>4. PermitsOK
  BY <1>3, SchedulerAssumption, FS_EmptySet
  DEF PermitsOK, SchedulerInit, EmptyScheduler, First, IdleSlot
<1> QED BY <1>1, <1>2, <1>4 DEF SchedulerInv

\* A step that moves no call's interval moves no permit.
LEMMA PermitsStay ==
    ASSUME PermitsOK, UNCHANGED <<retained, free, sent>>,
           \A c \in Call : First(c)' = First(c)
    PROVE  PermitsOK'
<1>1. Outstanding' = Outstanding
  <2>1. \A f \in Call \X (1..MaxInputs) : f[1] \in Call OBVIOUS
  <2> QED BY <2>1, Zenon DEF Outstanding
<1> QED BY <1>1 DEF PermitsOK

LEMMA RouteKeepsInv ==
    ASSUME SchedulerInv, NEW c \in Call, NEW eof \in BOOLEAN, RouteInput(c, eof)
    PROVE  SchedulerInv' /\ \A d \in Call : First(d)' = First(d)
<1>0. SchedulerTypeOK /\ PermitsOK /\ \A d \in Call : Ordered(d) /\ Attended(d)
  BY DEF SchedulerInv
<1> DEFINE f == [call |-> c, n |-> sent[c] + 1, eof |-> eof]
<1>1. f \in Frame
  BY <1>0, SchedulerAssumption DEF RouteInput, SchedulerTypeOK, Frame
<1>2. queue' = Append(queue, f) BY DEF RouteInput
<1> HIDE DEF f
<1>3. SchedulerTypeOK'
  BY <1>0, <1>1, <1>2, SchedulerAssumption DEF RouteInput, CanReserve, SchedulerTypeOK
<1>4. /\ Len(queue) \in Nat /\ Len(queue') = Len(queue) + 1
      /\ \A i \in 1..Len(queue) : queue'[i] = queue[i]
      /\ queue'[Len(queue) + 1] = f
  BY <1>0, <1>1, <1>2 DEF SchedulerTypeOK
<1>5. f.call = c /\ f.n = sent[c] + 1 BY DEF f
<1>6. \A d \in Call : /\ sent[d] \in Nat /\ sent'[d] = IF d = c THEN sent[d] + 1 ELSE sent[d]
                      /\ started'[d] = started[d] /\ lanes'[d] = lanes[d]
                      /\ flight'[d] = flight[d]
                      /\ NextOf(d) \in Nat /\ NextOf(d)' = NextOf(d)
                      /\ First(d) \in Nat /\ First(d)' = First(d)
  BY <1>0 DEF RouteInput, SchedulerTypeOK, NextOf, First
<1>7. ASSUME NEW d \in Call PROVE Ordered(d)' /\ Attended(d)'
  <2>0. Ordered(d) /\ Attended(d) BY <1>0
  <2>1. Attended(d)' BY <2>0, <1>6 DEF Attended
  <2>2. \A i \in 1..Len(lanes[d])' : lanes'[d][i].n = started'[d] + i
    BY <2>0, <1>6 DEF Ordered
  <2>3. \A i \in 1..Len(queue') : queue'[i].call = d => queue'[i].n \in NextOf(d)'..sent'[d]
    <3> SUFFICES ASSUME NEW i \in 1..Len(queue'), queue'[i].call = d
                 PROVE  queue'[i].n \in NextOf(d)'..sent'[d]
      OBVIOUS
    <3>1. CASE i \in 1..Len(queue)
      <4>1. queue[i].n \in NextOf(d)..sent[d] BY <2>0, <3>1, <1>4 DEF Ordered
      <4> QED BY <4>1, <3>1, <1>4, <1>6
    <3>2. CASE i = Len(queue) + 1
      <4>1. d = c /\ queue'[i].n = sent[c] + 1 BY <3>2, <1>4, <1>5
      <4>2. NextOf(d) <= sent[d] + 1 BY <2>0 DEF Ordered
      <4> QED BY <4>1, <4>2, <1>6
    <3> QED BY <3>1, <3>2, <1>4
  <2>4. ASSUME NEW n \in NextOf(d)'..sent'[d]
        PROVE  \E i \in 1..Len(queue') : queue'[i].call = d /\ queue'[i].n = n
    <3>1. CASE n \in NextOf(d)..sent[d]
      <4>1. PICK i \in 1..Len(queue) : queue[i].call = d /\ queue[i].n = n
        BY <2>0, <3>1 DEF Ordered
      <4> QED BY <4>1, <1>4
    <3>2. CASE n \notin NextOf(d)..sent[d]
      <4>1. d = c /\ n = sent[c] + 1 BY <3>2, <1>6
      <4> QED BY <4>1, <1>4, <1>5
    <3> QED BY <3>1, <3>2
  <2>5. \A i, j \in 1..Len(queue') :
           queue'[i].call = d /\ queue'[j].call = d /\ i < j => queue'[i].n < queue'[j].n
    <3> SUFFICES ASSUME NEW i \in 1..Len(queue'), NEW j \in 1..Len(queue'),
                        queue'[i].call = d, queue'[j].call = d, i < j
                 PROVE  queue'[i].n < queue'[j].n
      OBVIOUS
    <3>1. i \in 1..Len(queue) /\ queue'[i] = queue[i] BY <1>4
    <3>2. CASE j \in 1..Len(queue) BY <2>0, <3>1, <3>2, <1>4 DEF Ordered
    <3>3. CASE j = Len(queue) + 1
      <4>1. d = c /\ queue'[j].n = sent[c] + 1 BY <3>3, <1>4, <1>5
      <4>2. queue[i].n \in NextOf(d)..sent[d] BY <2>0, <3>1 DEF Ordered
      <4> QED BY <3>1, <4>1, <4>2, <1>6
    <3> QED BY <3>2, <3>3, <1>4
  <2>6. NextOf(d)' <= sent'[d] + 1 BY <2>0, <1>6 DEF Ordered
  <2> QED BY <2>1, <2>2, <2>3, <2>4, <2>5, <2>6 DEF Ordered
<1>8. PermitsOK'
  <2> DEFINE x == <<c, sent[c] + 1>>
  <2>1. Outstanding' = Outstanding \cup {x} /\ x \notin Outstanding
    <3>1. sent[c] + 1 \in 1..MaxInputs
      BY <1>0, SchedulerAssumption DEF RouteInput, SchedulerTypeOK
    <3>2. First(c) \in Nat /\ First(c) <= sent[c] + 1
      BY <1>0, <1>6 DEF First, SchedulerTypeOK, Ordered, NextOf
    <3>4. x \notin Outstanding BY <1>6 DEF Outstanding
    <3>5. \A d \in Call, n \in 1..MaxInputs :
             n \in First(d)'..sent'[d] <=> n \in First(d)..sent[d] \/ <<d, n>> = x
      BY <1>6, <3>2
    <3> QED BY <3>1, <3>4, <3>5 DEF Outstanding
  <2> HIDE DEF x
  <2>2. IsFiniteSet(Outstanding') /\ Cardinality(Outstanding') = Cardinality(Outstanding) + 1
    BY <1>0, <2>1, FS_AddElement DEF PermitsOK
  <2>3. \A d \in Call : retained'[d] = sent'[d] + 1 - First(d)'
    <3>1. \A d \in Call : /\ retained[d] \in Nat /\ retained[d] = sent[d] + 1 - First(d)
                          /\ retained'[d] = IF d = c THEN retained[d] + 1 ELSE retained[d]
      BY <1>0 DEF RouteInput, PermitsOK, SchedulerTypeOK
    <3> QED BY <1>6, <3>1
  <2>4. Cardinality(Outstanding) \in Nat BY <1>0, FS_CardinalityType DEF PermitsOK
  <2> QED BY <1>0, <2>2, <2>3, <2>4 DEF PermitsOK, RouteInput, SchedulerTypeOK
<1> QED BY <1>3, <1>6, <1>7, <1>8 DEF SchedulerInv

LEMMA RecvKeepsInv ==
    ASSUME SchedulerInv, Recv
    PROVE  SchedulerInv' /\ \A d \in Call : First(d)' = First(d)
<1>0. SchedulerTypeOK /\ PermitsOK /\ \A d \in Call : Ordered(d) /\ Attended(d)
  BY DEF SchedulerInv
<1>f. PICK f \in Frame : f = Head(queue) BY <1>0 DEF Recv, SchedulerTypeOK
<1>c. PICK c \in Call : c = f.call BY DEF Frame
<1>1. /\ f = queue[1] /\ Len(queue) \in Nat /\ Len(queue) >= 1
      /\ queue' = Tail(queue) /\ Len(queue') = Len(queue) - 1
      /\ \A i \in 1..Len(queue') : i + 1 \in 1..Len(queue) /\ queue'[i] = queue[i + 1]
      /\ \A i \in 2..Len(queue) : i - 1 \in 1..Len(queue') /\ queue'[i - 1] = queue[i]
  BY <1>0, <1>f DEF Recv, SchedulerTypeOK
<1>2. c \in Call /\ f.n \in 1..MaxInputs BY DEF Frame
<1>3. \A d \in Call : /\ sent[d] \in Nat /\ started[d] \in Nat /\ lanes[d] \in Seq(Frame)
                      /\ Len(lanes[d]) \in Nat /\ NextOf(d) \in Nat
                      /\ NextOf(d) = started[d] + Len(lanes[d]) + 1
  BY <1>0 DEF SchedulerTypeOK, NextOf
<1>4. f.n = NextOf(c)
  <2>1. Ordered(c) BY <1>0, <1>2
  <2>2. f.n \in NextOf(c)..sent[c] BY <2>1, <1>1, <1>c DEF Ordered
  <2>3. PICK i \in 1..Len(queue) : queue[i].call = c /\ queue[i].n = NextOf(c)
    BY <2>1, <2>2, <1>2, <1>3 DEF Ordered
  <2>4. 1 < i => f.n < queue[i].n BY <2>1, <2>3, <1>1, <1>c DEF Ordered
  <2> QED BY <2>2, <2>3, <2>4, <1>1, <1>2, <1>3
<1>5. /\ UNCHANGED <<retained, free, sent>>
      /\ \/ /\ flight[c].pc = "idle" /\ UNCHANGED lanes
            /\ flight' = [flight EXCEPT ![c] = Handling(f)]
            /\ started' = [started EXCEPT ![c] = f.n]
         \/ /\ flight[c].pc # "idle" /\ UNCHANGED <<flight, started>>
            /\ lanes' = [lanes EXCEPT ![c] = Append(@, f)]
  BY <1>f, <1>c DEF Recv
<1>6. SchedulerTypeOK'
  <2>1. queue' \in Seq(Frame) BY <1>0, <1>1 DEF SchedulerTypeOK
  <2>2. Handling(f) \in Slot BY <1>1, SchedulerAssumption DEF Handling, Frame, Slot
  <2>3. lanes' \in [Call -> Seq(Frame)]
    <3>1. Append(lanes[c], f) \in Seq(Frame) BY <1>1, <1>2, <1>3
    <3> QED BY <1>0, <1>2, <1>5, <3>1 DEF SchedulerTypeOK
  <2>4. flight' \in [Call -> Slot] BY <1>0, <1>2, <1>5, <2>2 DEF SchedulerTypeOK
  <2>5. started' \in [Call -> 0..MaxInputs]
    <3>1. f.n \in 0..MaxInputs BY <1>2, SchedulerAssumption
    <3> QED BY <1>0, <1>2, <1>5, <3>1 DEF SchedulerTypeOK
  <2> QED BY <1>0, <1>5, <2>1, <2>3, <2>4, <2>5 DEF SchedulerTypeOK
\* The lane of c grows or its head starts: the next number moves on by one.
<1>7. \A d \in Call : /\ NextOf(d)' = IF d = c THEN NextOf(d) + 1 ELSE NextOf(d)
                      /\ First(d)' = First(d)
                      /\ Attended(d)'
                      /\ \A i \in 1..Len(lanes'[d]) : lanes'[d][i].n = started'[d] + i
  <2>1. CASE flight[c].pc = "idle"
    <3>1. lanes[c] = <<>> BY <1>0, <1>2, <2>1 DEF Attended
    <3>2. f.n = started[c] + 1 BY <3>1, <1>2, <1>3, <1>4
    <3>3. \A d \in Call : /\ lanes'[d] = lanes[d]
                          /\ started'[d] = IF d = c THEN started[d] + 1 ELSE started[d]
                          /\ flight'[d] = IF d = c THEN Handling(f) ELSE flight[d]
      <4>1. /\ lanes' = lanes /\ flight' = [flight EXCEPT ![c] = Handling(f)]
            /\ started' = [started EXCEPT ![c] = f.n]
        BY <1>5, <2>1
      <4> QED BY <1>0, <1>2, <3>2, <4>1 DEF SchedulerTypeOK
    <3>4. Handling(f).pc = "handling" /\ Handling(f).n = f.n BY DEF Handling
    <3>5. ASSUME NEW d \in Call, d # c
          PROVE  /\ NextOf(d)' = NextOf(d) /\ First(d)' = First(d) /\ Attended(d)'
                 /\ \A i \in 1..Len(lanes'[d]) : lanes'[d][i].n = started'[d] + i
      BY <1>0, <3>3, <3>5 DEF NextOf, First, Attended, Ordered
    <3>6. /\ NextOf(c)' = NextOf(c) + 1 /\ First(c)' = First(c) /\ Attended(c)'
          /\ Len(lanes'[c]) = 0
      BY <1>2, <1>3, <2>1, <3>1, <3>2, <3>3, <3>4 DEF NextOf, First, Attended
    <3> QED BY <3>5, <3>6
  <2>2. CASE flight[c].pc # "idle"
    <3>1. \A d \in Call : /\ lanes'[d] = IF d = c THEN Append(lanes[d], f) ELSE lanes[d]
                          /\ started'[d] = started[d] /\ flight'[d] = flight[d]
      BY <1>0, <1>2, <1>5, <2>2 DEF SchedulerTypeOK
    <3>2. \A d \in Call : First(d)' = First(d) /\ Attended(d)'
      BY <1>0, <2>2, <3>1 DEF First, Attended
    <3>0. /\ Len(lanes'[c]) = Len(lanes[c]) + 1 /\ lanes'[c][Len(lanes[c]) + 1] = f
          /\ \A i \in 1..Len(lanes[c]) : lanes'[c][i] = lanes[c][i]
      <4>1. lanes'[c] = Append(lanes[c], f) BY <3>1
      <4>2. lanes[c] \in Seq(Frame) BY <1>3
      <4> QED BY <4>1, <4>2
    <3>3. \A d \in Call : NextOf(d)' = IF d = c THEN NextOf(d) + 1 ELSE NextOf(d)
      <4>1. ASSUME NEW d \in Call, d # c PROVE NextOf(d)' = NextOf(d)
        BY <3>1, <4>1 DEF NextOf
      <4>2. NextOf(c)' = NextOf(c) + 1
        <5>1. started'[c] = started[c] BY <3>1
        <5> QED BY <1>3, <3>0, <5>1 DEF NextOf
      <4> QED BY <4>1, <4>2
    <3>4. ASSUME NEW d \in Call
          PROVE  \A i \in 1..Len(lanes'[d]) : lanes'[d][i].n = started'[d] + i
      <4>1. \A i \in 1..Len(lanes[d]) : lanes[d][i].n = started[d] + i
        BY <1>0 DEF Ordered
      <4>2. CASE d # c BY <3>1, <4>1, <4>2
      <4>3. CASE d = c
        <5>1. f.n = started[c] + (Len(lanes[c]) + 1) /\ Len(lanes[c]) \in Nat
          <6>1. /\ started[c] \in Nat /\ Len(lanes[c]) \in Nat
                /\ NextOf(c) = started[c] + Len(lanes[c]) + 1
            BY <1>3
          <6> QED BY <1>4, <6>1
        <5>2. started'[c] = started[c] BY <3>1
        <5>3. ASSUME NEW i \in 1..Len(lanes'[c]) PROVE lanes'[c][i].n = started'[c] + i
          <6>1. CASE i \in 1..Len(lanes[c]) BY <3>0, <4>1, <4>3, <5>2, <6>1
          <6>2. CASE i = Len(lanes[c]) + 1 BY <3>0, <5>1, <5>2, <6>2
          <6> QED BY <3>0, <5>1, <6>1, <6>2
        <5> QED BY <4>3, <5>3
      <4> QED BY <4>2, <4>3
    <3> QED BY <3>2, <3>3, <3>4
  <2> QED BY <2>1, <2>2
<1>8. ASSUME NEW d \in Call PROVE Ordered(d)'
  <2>0. Ordered(d) BY <1>0
  <2>1. sent'[d] = sent[d] BY <1>5
  <2>2. \A i \in 1..Len(queue') : queue'[i].call = d => queue'[i].n \in NextOf(d)'..sent'[d]
    <3> SUFFICES ASSUME NEW i \in 1..Len(queue'), queue'[i].call = d
                 PROVE  queue'[i].n \in NextOf(d)'..sent'[d]
      OBVIOUS
    <3>1. i + 1 \in 1..Len(queue) /\ queue'[i] = queue[i + 1] BY <1>1
    <3>2. queue[i + 1].n \in NextOf(d)..sent[d] BY <2>0, <3>1 DEF Ordered
    <3>3. d = c => f.n < queue[i + 1].n
      BY <2>0, <3>1, <1>1, <1>c DEF Ordered
    <3> QED BY <3>1, <3>2, <3>3, <1>3, <1>4, <1>7, <2>1
  <2>3. ASSUME NEW n \in NextOf(d)'..sent'[d]
        PROVE  \E i \in 1..Len(queue') : queue'[i].call = d /\ queue'[i].n = n
    <3>1. n \in NextOf(d)..sent[d] /\ (d = c => n # NextOf(d)) BY <1>3, <1>7, <2>1
    <3>2. PICK i \in 1..Len(queue) : queue[i].call = d /\ queue[i].n = n
      BY <2>0, <3>1 DEF Ordered
    <3>3. i # 1 BY <3>1, <3>2, <1>1, <1>4, <1>c
    <3>4. i \in 2..Len(queue) BY <3>2, <3>3, <1>1
    <3> QED BY <3>2, <3>4, <1>1
  <2>4. \A i, j \in 1..Len(queue') :
           queue'[i].call = d /\ queue'[j].call = d /\ i < j => queue'[i].n < queue'[j].n
    <3> SUFFICES ASSUME NEW i \in 1..Len(queue'), NEW j \in 1..Len(queue'),
                        queue'[i].call = d, queue'[j].call = d, i < j
                 PROVE  queue'[i].n < queue'[j].n
      OBVIOUS
    <3>1. /\ i + 1 \in 1..Len(queue) /\ queue'[i] = queue[i + 1]
          /\ j + 1 \in 1..Len(queue) /\ queue'[j] = queue[j + 1]
          /\ i + 1 < j + 1
      BY <1>1
    <3> QED BY <2>0, <3>1 DEF Ordered
  <2>5. NextOf(d)' <= sent'[d] + 1
    <3>1. NextOf(d) <= sent[d] + 1 BY <2>0 DEF Ordered
    <3>2. d = c => NextOf(d) <= sent[d] BY <2>0, <1>1, <1>4, <1>c DEF Ordered
    <3> QED BY <3>1, <3>2, <1>3, <1>7, <2>1
  <2> QED BY <2>2, <2>3, <2>4, <2>5, <1>7 DEF Ordered
<1> QED BY <1>0, <1>5, <1>6, <1>7, <1>8, PermitsStay DEF SchedulerInv

LEMMA ReturnKeepsInv ==
    ASSUME SchedulerInv, NEW c \in Call, HandlerReturned(c)
    PROVE  SchedulerInv'
<1>0. SchedulerTypeOK /\ PermitsOK /\ \A d \in Call : Ordered(d) /\ Attended(d)
  BY DEF SchedulerInv
<1> DEFINE s == [flight[c] EXCEPT !.pc = "returned"]
<1>1. flight' = [flight EXCEPT ![c] = s] BY DEF HandlerReturned
<1>2. flight[c] \in Slot /\ flight[c].pc = "handling" BY <1>0 DEF SchedulerTypeOK, HandlerReturned
<1>3. s \in Slot /\ s.pc = "returned" /\ s.n = flight[c].n BY <1>2 DEF Slot
<1> HIDE DEF s
<1>4. \A d \in Call : /\ sent'[d] = sent[d] /\ started'[d] = started[d] /\ lanes'[d] = lanes[d]
                      /\ sent[d] \in Nat /\ started[d] \in Nat
                      /\ flight'[d] = IF d = c THEN s ELSE flight[d]
  BY <1>0, <1>1 DEF HandlerReturned, SchedulerTypeOK
<1>5. queue' = queue BY DEF HandlerReturned
<1>6. ASSUME NEW d \in Call PROVE Ordered(d)' /\ Attended(d)'
  <2>1. Ordered(d) /\ Attended(d) BY <1>0
  <2>2. NextOf(d)' = NextOf(d) BY <1>4 DEF NextOf
  <2>3. Ordered(d)' BY <2>1, <2>2, <1>4, <1>5 DEF Ordered
  <2>4. Attended(d)' BY <2>1, <1>2, <1>3, <1>4 DEF Attended
  <2> QED BY <2>3, <2>4
<1>7. started[c] >= 1 /\ started[c] <= sent[c] /\ started[c] \in 1..MaxInputs
  <2>1. Ordered(c) /\ Attended(c) /\ Len(lanes[c]) \in Nat BY <1>0 DEF SchedulerTypeOK
  <2>2. started[c] \in 0..MaxInputs BY <1>0 DEF SchedulerTypeOK
  <2> QED BY <2>1, <2>2, <1>2, <1>4, SchedulerAssumption DEF Ordered, Attended, NextOf
<1>8. \A d \in Call : /\ First(d) \in Nat
                      /\ First(d)' = IF d = c THEN First(d) + 1 ELSE First(d)
  BY <1>2, <1>3, <1>4 DEF First
<1>9. First(c) = started[c] BY <1>2 DEF First
<1>10. \A d \in Call : /\ retained[d] \in 0..CallBudget /\ retained[d] = sent[d] + 1 - First(d)
                       /\ retained'[d] = IF d = c THEN retained[d] - 1 ELSE retained[d]
  BY <1>0 DEF HandlerReturned, SchedulerTypeOK, PermitsOK
<1>11. retained[c] >= 1 BY <1>4, <1>7, <1>9, <1>10
<1>12. PermitsOK' /\ free' \in 0..SessionBudget
  <2> DEFINE x == <<c, started[c]>>
  <2>1. Outstanding' = Outstanding \ {x} /\ x \in Outstanding
    <3>1. x \in Outstanding BY <1>4, <1>7, <1>9 DEF Outstanding
    <3>2. \A d \in Call, n \in 1..MaxInputs :
             n \in First(d)'..sent'[d] <=> n \in First(d)..sent[d] /\ <<d, n>> # x
      BY <1>4, <1>8, <1>9
    <3> QED BY <3>1, <3>2 DEF Outstanding
  <2> HIDE DEF x
  <2>2. /\ IsFiniteSet(Outstanding') /\ Cardinality(Outstanding') = Cardinality(Outstanding) - 1
        /\ Cardinality(Outstanding') \in Nat
    BY <1>0, <2>1, FS_RemoveElement, FS_CardinalityType DEF PermitsOK
  <2>3. Cardinality(Outstanding) \in Nat BY <1>0, FS_CardinalityType DEF PermitsOK
  <2>4. \A d \in Call : retained'[d] = sent'[d] + 1 - First(d)'
    BY <1>4, <1>8, <1>10
  <2>5. free' = free + 1 /\ free \in Nat /\ free + Cardinality(Outstanding) = SessionBudget
    BY <1>0 DEF HandlerReturned, PermitsOK, SchedulerTypeOK
  <2> QED BY <2>2, <2>3, <2>4, <2>5, SchedulerAssumption DEF PermitsOK
<1>13. SchedulerTypeOK'
  <2>1. flight' \in [Call -> Slot] BY <1>0, <1>1, <1>3 DEF SchedulerTypeOK
  <2>2. retained' \in [Call -> 0..CallBudget]
    <3>1. retained[c] - 1 \in 0..CallBudget BY <1>10, <1>11, SchedulerAssumption
    <3> QED BY <1>0, <3>1 DEF SchedulerTypeOK, HandlerReturned
  <2> QED BY <1>0, <1>12, <2>1, <2>2 DEF SchedulerTypeOK, HandlerReturned
<1> QED BY <1>6, <1>12, <1>13 DEF SchedulerInv

LEMMA CompletedKeepsInv ==
    ASSUME SchedulerInv, NEW c \in Call, Completed(c)
    PROVE  SchedulerInv' /\ \A d \in Call : First(d)' = First(d)
<1>0. SchedulerTypeOK /\ PermitsOK /\ \A d \in Call : Ordered(d) /\ Attended(d)
  BY DEF SchedulerInv
<1>1. /\ UNCHANGED <<queue, retained, free, sent>> /\ flight[c].pc = "returned"
      /\ lanes[c] \in Seq(Frame) /\ started[c] \in Nat /\ sent[c] \in Nat
  BY <1>0 DEF Completed, SchedulerTypeOK
<1>2. Ordered(c) /\ Attended(c) BY <1>0
<1>3. CASE lanes[c] # <<>>
  <2> DEFINE f == Head(lanes[c])
  <2>1. /\ f \in Frame /\ f = lanes[c][1] /\ Tail(lanes[c]) \in Seq(Frame)
        /\ Len(lanes[c]) \in Nat /\ Len(lanes[c]) >= 1
        /\ Len(Tail(lanes[c])) = Len(lanes[c]) - 1
        /\ \A i \in 1..Len(Tail(lanes[c])) :
              i + 1 \in 1..Len(lanes[c]) /\ Tail(lanes[c])[i] = lanes[c][i + 1]
    BY <1>1, <1>3
  <2>2. /\ flight' = [flight EXCEPT ![c] = Handling(f)]
        /\ started' = [started EXCEPT ![c] = f.n]
        /\ lanes' = [lanes EXCEPT ![c] = Tail(@)]
    BY <1>3 DEF Completed
  <2> HIDE DEF f
  <2>3. f.n = started[c] + 1 BY <1>2, <2>1 DEF Ordered
  <2>4. f.n \in 1..MaxInputs /\ Handling(f) \in Slot
    BY <2>1, SchedulerAssumption DEF Frame, Handling, Slot
  <2>5. SchedulerTypeOK'
    <3>1. f.n \in 0..MaxInputs BY <2>4, SchedulerAssumption
    <3> QED BY <1>0, <1>1, <2>1, <2>2, <2>4, <3>1 DEF SchedulerTypeOK
  <2>6. /\ lanes'[c] = Tail(lanes[c]) /\ started'[c] = started[c] + 1
        /\ flight'[c] = Handling(f)
    BY <1>0, <2>2, <2>3 DEF SchedulerTypeOK
  <2>7. ASSUME NEW d \in Call, d # c
        PROVE  lanes'[d] = lanes[d] /\ started'[d] = started[d] /\ flight'[d] = flight[d]
    BY <1>0, <2>2, <2>7 DEF SchedulerTypeOK
  <2>8. Handling(f).pc = "handling" /\ Handling(f).n = f.n BY DEF Handling
  <2>9. NextOf(c)' = NextOf(c) /\ First(c)' = First(c) /\ Attended(c)'
    BY <1>1, <2>1, <2>3, <2>6, <2>8 DEF NextOf, First, Attended
  <2>10. Ordered(c)'
    <3>1. \A i \in 1..Len(lanes'[c]) : lanes'[c][i].n = started'[c] + i
      BY <1>1, <1>2, <2>1, <2>6 DEF Ordered
    <3> QED BY <1>1, <1>2, <2>9, <3>1 DEF Ordered
  <2>11. ASSUME NEW d \in Call, d # c PROVE Ordered(d)' /\ Attended(d)' /\ First(d)' = First(d)
    <3>1. NextOf(d)' = NextOf(d) BY <2>7, <2>11 DEF NextOf
    <3>2. Ordered(d) /\ Attended(d) BY <1>0
    <3> QED BY <1>1, <2>7, <2>11, <3>1, <3>2 DEF Ordered, Attended, First
  <2> QED BY <1>0, <1>1, <2>5, <2>9, <2>10, <2>11, PermitsStay DEF SchedulerInv
<1>4. CASE lanes[c] = <<>>
  <2>1. /\ flight' = [flight EXCEPT ![c] = IdleSlot] /\ UNCHANGED <<lanes, started>>
        /\ IdleSlot.pc = "idle" /\ IdleSlot \in Slot
    BY <1>4, SchedulerAssumption DEF Completed, IdleSlot, Slot
  <2>2. SchedulerTypeOK' BY <1>0, <1>1, <2>1 DEF SchedulerTypeOK
  <2>3. \A d \in Call : flight'[d] = IF d = c THEN IdleSlot ELSE flight[d]
    BY <1>0, <2>1 DEF SchedulerTypeOK
  <2>4. ASSUME NEW d \in Call PROVE Ordered(d)' /\ Attended(d)' /\ First(d)' = First(d)
    <3>1. NextOf(d)' = NextOf(d) BY <2>1 DEF NextOf
    <3>2. Ordered(d) /\ Attended(d) BY <1>0
    <3>3. Ordered(d)' BY <1>1, <2>1, <3>1, <3>2 DEF Ordered
    <3>4. Attended(d)' /\ First(d)' = First(d)
      BY <1>1, <1>4, <2>1, <2>3, <3>2 DEF Attended, First
    <3> QED BY <3>3, <3>4
  <2> QED BY <1>0, <1>1, <2>2, <2>4, PermitsStay DEF SchedulerInv
<1> QED BY <1>3, <1>4

LEMMA AbortKeepsInv == ASSUME Abort PROVE SchedulerInv'
<1>1. SchedulerTypeOK'
  BY SchedulerAssumption DEF Abort, SchedulerTypeOK, IdleSlot, Slot
<1>2. ASSUME NEW c \in Call PROVE Ordered(c)' /\ Attended(c)'
  BY DEF Abort, Ordered, Attended, NextOf, IdleSlot
<1>3. Outstanding' = {} BY DEF Abort, Outstanding, First, IdleSlot
<1>4. PermitsOK'
  BY <1>3, SchedulerAssumption, FS_EmptySet DEF PermitsOK, Abort, First, IdleSlot
<1> QED BY <1>1, <1>2, <1>4 DEF SchedulerInv

LEMMA SchedulerInvStep == SchedulerInv /\ [SchedulerNext]_schedulerVars => SchedulerInv'
<1> SUFFICES ASSUME SchedulerInv, [SchedulerNext]_schedulerVars PROVE SchedulerInv' OBVIOUS
<1>1. CASE UNCHANGED schedulerVars
  <2>1. UNCHANGED <<queue, lanes, flight, retained, free, sent, started>>
    BY <1>1 DEF schedulerVars
  <2> QED BY <2>1
    DEF SchedulerInv, SchedulerTypeOK, Ordered, Attended, NextOf, PermitsOK, Outstanding, First
<1> QED BY <1>1, RouteKeepsInv, RecvKeepsInv, ReturnKeepsInv, CompletedKeepsInv, AbortKeepsInv
        DEF SchedulerNext

-----------------------------------------------------------------------------
\* What the scheduler keeps is well formed, its permit counts within their
\* budgets: SessionBidiBudget never goes below zero nor above its capacity.
THEOREM SchedulerTypes == SchedulerSpec => []SchedulerTypeOK
<1>1. SchedulerInv => SchedulerTypeOK BY DEF SchedulerInv
<1> QED BY <1>1, SchedulerInvInit, SchedulerInvStep, PTL DEF SchedulerSpec

\* run_bidi_scheduler dispatches the inputs of each call in the order the hub
\* sent them and skips none, for any number of calls and any budgets.
THEOREM LanesAreOrdered == SchedulerSpec => []LaneOrder
<1>1. SchedulerInv => LaneOrder BY OrderedIsLaneOrder DEF SchedulerInv
<1> QED BY <1>1, SchedulerInvInit, SchedulerInvStep, PTL DEF SchedulerSpec

\* No permit leaks and none is lost: each frame held has exactly one permit
\* of its call and one of the session (SessionBidiPermit).
THEOREM PermitsMatch == SchedulerSpec => []PermitsMatchFrames
BY InvImpliesPermits, SchedulerInvInit, SchedulerInvStep, PTL DEF SchedulerSpec

\* A call that stalls leaves the session room for the others: it takes frames
\* of two calls to use up the session's permits or its queue
\* (SessionBidiBudget::reserve).
THEOREM RoomForOthers == SchedulerSpec => []StallLeavesRoom
BY InvImpliesRoom, SchedulerInvInit, SchedulerInvStep, PTL DEF SchedulerSpec
=============================================================================
