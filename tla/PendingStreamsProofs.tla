------------------------ MODULE PendingStreamsProofs ------------------------
(***************************************************************************)
(* Proofs about PendingStreams, for every set of calls, every mix of the   *)
(* two delivery policies and every capacity.                               *)
(***************************************************************************)
EXTENDS PendingStreams, TLAPS

(***************************************************************************)
(* The drain's current delivery names a call unless it is idle: needed for *)
(* the channel that DrainDeliver appends to.                               *)
(***************************************************************************)
DrainIsTargeted == drain.call = NoCall => drain = Idle

TypeInv == TypeOK /\ DrainIsTargeted

LEMMA TypeInvInit == Init => TypeInv
BY StreamAssumption
DEF Init, TypeInv, TypeOK, DrainIsTargeted, Idle, NewRelay, RelayRecord, Event, Item, NoCall

\* Appending to, and taking from, a bounded channel.
LEMMA SendTyped ==
    ASSUME TypeOK, NEW c \in Stream, NEW e \in Event, HasRoom(c), Send(c, e)
    PROVE  chan' \in [Stream -> Seq(Event)] /\ \A d \in Stream : Len(chan'[d]) <= ChanCapacity
BY StreamAssumption DEF TypeOK, HasRoom, Send

LEMMA TrySendTyped ==
    ASSUME TypeOK, NEW c \in Stream, NEW e \in Event, TrySend(c, e)
    PROVE  chan' \in [Stream -> Seq(Event)] /\ \A d \in Stream : Len(chan'[d]) <= ChanCapacity
<1>1. CASE Open(c) /\ HasRoom(c) BY <1>1, SendTyped DEF TrySend
<1>2. CASE ~(Open(c) /\ HasRoom(c)) BY <1>2 DEF TrySend, TypeOK
<1> QED BY <1>1, <1>2

LEMMA DropHandleTyped ==
    ASSUME TypeOK, NEW c \in Stream, DropHandle(c)
    PROVE  /\ entries' \subseteq Stream
           /\ chan' \in [Stream -> Seq(Event)]
           /\ \A d \in Stream : Len(chan'[d]) <= ChanCapacity
BY StreamAssumption DEF TypeOK, DropHandle

Pc == {"absent", "registered", "reading", "sending", "cancelling", "stopped"}

\* The relay's record stays a record when its fields are set.
LEMMA RelayMoves ==
    ASSUME TypeOK, NEW c \in Stream, NEW p \in Pc,
           relay' = [relay EXCEPT ![c].pc = p]
    PROVE  relay' \in [Stream -> RelayRecord]
<1>1. relay \in [Stream -> RelayRecord] BY DEF TypeOK
<1>2. relay' = [relay EXCEPT ![c] = [relay[c] EXCEPT !.pc = p]] OBVIOUS
<1>3. \A r \in RelayRecord : [r EXCEPT !.pc = p] \in RelayRecord BY DEF RelayRecord, Pc
<1> QED BY <1>1, <1>2, <1>3

LEMMA RelayDisconnects ==
    ASSUME TypeOK, NEW c \in Stream, NEW p \in Pc,
           relay' = [relay EXCEPT ![c].connected = FALSE, ![c].pc = p]
    PROVE  relay' \in [Stream -> RelayRecord]
<1>1. relay \in [Stream -> RelayRecord] BY DEF TypeOK
<1> DEFINE r == [relay[c] EXCEPT !.connected = FALSE, !.pc = p]
<1>2. relay' = [relay EXCEPT ![c] = r] OBVIOUS
<1>3. r \in RelayRecord BY <1>1 DEF RelayRecord, Pc
<1> HIDE DEF r
<1> QED BY <1>1, <1>2, <1>3

LEMMA StopTyped ==
    ASSUME TypeOK, NEW c \in Stream, Stop(c)
    PROVE  /\ entries' \subseteq Stream
           /\ chan' \in [Stream -> Seq(Event)]
           /\ \A d \in Stream : Len(chan'[d]) <= ChanCapacity
           /\ relay' \in [Stream -> RelayRecord]
<1>1. relay' \in [Stream -> RelayRecord] BY RelayMoves DEF Stop, Pc
<1> QED BY <1>1, DropHandleTyped DEF Stop

LEMMA AfterSendTyped ==
    ASSUME TypeOK, NEW c \in Stream, AfterSend(c)
    PROVE  /\ entries' \subseteq Stream
           /\ chan' \in [Stream -> Seq(Event)]
           /\ \A d \in Stream : Len(chan'[d]) <= ChanCapacity
           /\ relay' \in [Stream -> RelayRecord]
<1>1. CASE relay[c].last BY <1>1, StopTyped DEF AfterSend
<1>2. CASE ~relay[c].last
  <2>1. relay' \in [Stream -> RelayRecord] BY <1>2, RelayMoves DEF AfterSend, Pc
  <2> QED BY <1>2, <2>1 DEF AfterSend, TypeOK
<1> QED BY <1>1, <1>2

\* What the client was sent only grows.
LEMMA OutTyped ==
    ASSUME TypeOK, NEW c \in Stream, NEW i \in Item,
           out' = [out EXCEPT ![c] = Append(@, i)], UNCHANGED client
    PROVE  /\ out' \in [Stream -> Seq(Item)]
           /\ client' \in [Stream -> [linked : BOOLEAN, read : Nat]]
           /\ \A d \in Stream : client'[d].read <= Len(out'[d])
BY DEF TypeOK

LEMMA TypeInvStep == TypeInv /\ [Next]_vars => TypeInv'
<1> SUFFICES ASSUME TypeInv, [Next]_vars PROVE TypeInv' OBVIOUS
<1>0. TypeOK /\ DrainIsTargeted BY DEF TypeInv
<1> USE DEF TypeInv, DrainIsTargeted
<1>1. CASE DrainRead
  <2>1. Head(wire) \in Stream \X DeviceFrame /\ wire' \in Seq(Stream \X DeviceFrame)
    BY <1>0, <1>1 DEF DrainRead, TypeOK
  <2> DEFINE c == Head(wire)[1]
             e == Classify(Head(wire)[2])
  <2>2. c \in Stream /\ e \in Event
    BY <2>1 DEF Classify, DeviceFrame, Event
  <2>3. \/ UNCHANGED <<drain, entries>>
        \/ /\ drain' = [call |-> c, event |-> e]
           /\ entries' \subseteq entries
    BY <1>1 DEF DrainRead
  <2>4. c # NoCall BY <2>2, StreamAssumption DEF NoCall
  <2> HIDE DEF c, e
  <2>5. /\ drain' \in [call : Stream \cup {NoCall}, event : Event]
        /\ DrainIsTargeted'
        /\ entries' \subseteq Stream
    <3>1. CASE UNCHANGED <<drain, entries>> BY <1>0, <3>1 DEF TypeOK
    <3>2. CASE drain' = [call |-> c, event |-> e] /\ entries' \subseteq entries
      BY <1>0, <2>2, <2>4, <3>2 DEF TypeOK
    <3> QED BY <2>3, <3>1, <3>2
  <2> QED BY <1>0, <1>1, <2>1, <2>5 DEF DrainRead, TypeOK
<1>2. CASE DrainDeliver
  <2>1. drain.call \in Stream /\ drain.event \in Event
    BY <1>0, <1>2 DEF DrainDeliver, TypeOK
  <2>2. /\ chan' \in [Stream -> Seq(Event)]
        /\ \A d \in Stream : Len(chan'[d]) <= ChanCapacity
        /\ entries' \subseteq Stream
    <3>1. CASE DeliverNoMatch(drain.call) BY <1>0, <3>1 DEF DeliverNoMatch, TypeOK
    <3>2. CASE DeliverSent(drain.call)
      BY <1>0, <2>1, <3>2, SendTyped DEF DeliverSent, TypeOK
    <3>3. CASE DeliverStalled(drain.call) BY <1>0, <3>3 DEF DeliverStalled, TypeOK
    <3> QED BY <1>2, <3>1, <3>2, <3>3 DEF DrainDeliver
  <2>3. drain' = Idle /\ Idle \in [call : Stream \cup {NoCall}, event : Event]
    BY <1>2 DEF DrainDeliver, Idle, Event
  <2> QED BY <1>0, <1>2, <2>2, <2>3 DEF DrainDeliver, TypeOK
<1>3. CASE GoOffline BY <1>0, <1>3 DEF GoOffline, TypeOK
<1>4. ASSUME NEW c \in Stream, Register(c) PROVE TypeInv'
  <2>1. relay' \in [Stream -> RelayRecord] BY <1>0, <1>4, RelayMoves DEF Register, Pc
  <2> QED BY <1>0, <1>4, <2>1 DEF Register, TypeOK
<1>5. ASSUME NEW c \in Stream, OpenFails(c) PROVE TypeInv'
  <2>1. relay' \in [Stream -> RelayRecord] BY <1>0, <1>5, RelayMoves DEF OpenFails, Pc
  <2> QED BY <1>0, <1>5, <2>1, DropHandleTyped, OutTyped DEF OpenFails, TypeOK, Item
<1>6. ASSUME NEW c \in Stream, OpenSent(c) PROVE TypeInv'
  <2>1. relay' \in [Stream -> RelayRecord] BY <1>0, <1>6, RelayMoves DEF OpenSent, Pc
  <2> QED BY <1>0, <1>6, <2>1 DEF OpenSent, TypeOK
<1>7. ASSUME NEW c \in Stream, NEW f \in Sends, DeviceSend(c, f) PROVE TypeInv'
  <2>1. f \in DeviceFrame BY StreamAssumption DEF DeviceFrame
  <2> QED BY <1>0, <1>7, <2>1 DEF DeviceSend, TypeOK
<1>8. ASSUME NEW c \in Stream, CancelOne(c) PROVE TypeInv'
  <2>1. chan' \in [Stream -> Seq(Event)] /\ \A d \in Stream : Len(chan'[d]) <= ChanCapacity
    <3>1. CASE c \in entries BY <1>0, <1>8, <3>1, TrySendTyped DEF CancelOne, Event
    <3>2. CASE c \notin entries BY <1>0, <1>8, <3>2 DEF CancelOne, TypeOK
    <3> QED BY <3>1, <3>2
  <2> QED BY <1>0, <1>8, <2>1 DEF CancelOne, TypeOK
<1>9. ASSUME NEW c \in Stream, RelayRecv(c) PROVE TypeInv'
  <2>1. chan[c] \in Seq(Event) /\ Len(Tail(chan[c])) <= ChanCapacity /\ Tail(chan[c]) \in Seq(Event)
    BY <1>0, <1>9, StreamAssumption DEF RelayRecv, TypeOK
  <2>2. chan' \in [Stream -> Seq(Event)] /\ \A d \in Stream : Len(chan'[d]) <= ChanCapacity
    BY <1>0, <1>9, <2>1 DEF RelayRecv, TypeOK
  <2>3. \A ok \in BOOLEAN : Verdict(c, Head(chan[c]), ok) \in Item
    BY <1>9, <2>1 DEF RelayRecv, Verdict, Event, Item
  <2>4. \A i \in Item : IsLast(i) \in BOOLEAN BY DEF IsLast
  <2>5. PICK ok \in BOOLEAN :
           LET item == Verdict(c, Head(chan[c]), ok) IN
           relay' = [relay EXCEPT ![c].pc = "sending",
                                  ![c].item = item,
                                  ![c].last = IsLast(item),
                                  ![c].admitted = @ \/ item = "admission"]
    BY <1>9 DEF RelayRecv
  <2> DEFINE v == Verdict(c, Head(chan[c]), ok)
             l == IsLast(v)
  <2>6. v \in Item /\ l \in BOOLEAN BY <2>3, <2>4
  <2>7. relay' = [relay EXCEPT ![c].pc = "sending",
                               ![c].item = v,
                               ![c].last = l,
                               ![c].admitted = @ \/ v = "admission"] BY <2>5
  <2> HIDE DEF v, l
  <2>8. relay' \in [Stream -> RelayRecord]
    <3>1. relay \in [Stream -> RelayRecord] BY <1>0 DEF TypeOK
    <3> DEFINE a == relay[c].admitted \/ v = "admission"
    <3>2. relay' = [relay EXCEPT ![c] = [relay[c] EXCEPT !.pc = "sending", !.item = v,
                                                         !.last = l, !.admitted = a]]
      BY <2>7
    <3>3. a \in BOOLEAN OBVIOUS
    <3> HIDE DEF a
    <3>4. \A r \in RelayRecord : [r EXCEPT !.pc = "sending", !.item = v,
                                           !.last = l, !.admitted = a] \in RelayRecord
      BY <2>6, <3>3 DEF RelayRecord
    <3> QED BY <3>1, <3>2, <3>4
  <2> QED BY <1>0, <1>9, <2>2, <2>8 DEF RelayRecv, TypeOK
<1>10. ASSUME NEW c \in Stream, RelaySend(c) PROVE TypeInv'
  <2>1. relay[c].item \in Item BY <1>0 DEF TypeOK, RelayRecord
  <2> QED BY <1>0, <1>10, <2>1, AfterSendTyped, OutTyped DEF RelaySend, TypeOK
<1>11. ASSUME NEW c \in Stream, RelaySkip(c) PROVE TypeInv'
  BY <1>0, <1>11, AfterSendTyped DEF RelaySkip, TypeOK
<1>12. ASSUME NEW c \in Stream, RelaySendFails(c) PROVE TypeInv'
  <2>1. CASE Stop(c) BY <1>0, <1>12, <2>1, StopTyped DEF RelaySendFails, TypeOK
  <2>2. CASE ~(c \in Lossless \/ relay[c].last)
    <3>1. relay' \in [Stream -> RelayRecord]
      BY <1>0, <1>12, <2>2, RelayDisconnects DEF RelaySendFails, Pc
    <3> QED BY <1>0, <1>12, <2>2, <3>1 DEF RelaySendFails, TypeOK
  <2> QED BY <1>12, <2>1, <2>2 DEF RelaySendFails
<1>13. ASSUME NEW c \in Stream, RelaySourceClosed(c) PROVE TypeInv'
  <2>1. /\ out' \in [Stream -> Seq(Item)]
        /\ client' \in [Stream -> [linked : BOOLEAN, read : Nat]]
        /\ \A d \in Stream : client'[d].read <= Len(out'[d])
    <3>1. CASE UNCHANGED out BY <1>0, <1>13, <3>1 DEF RelaySourceClosed, TypeOK
    <3>2. CASE out' = [out EXCEPT ![c] = Append(@, "error")]
      BY <1>0, <1>13, <3>2, OutTyped DEF RelaySourceClosed, Item
    <3> QED BY <1>13, <3>1, <3>2 DEF RelaySourceClosed
  <2> QED BY <1>0, <1>13, <2>1, StopTyped DEF RelaySourceClosed, TypeOK
<1>14. ASSUME NEW c \in Stream, RelayConsumerClosed(c) PROVE TypeInv'
  <2>1. relay' \in [Stream -> RelayRecord]
    BY <1>0, <1>14, RelayDisconnects DEF RelayConsumerClosed, Pc
  <2> QED BY <1>0, <1>14, <2>1 DEF RelayConsumerClosed, TypeOK
<1>15. ASSUME NEW c \in Stream, RelayDeadline(c) PROVE TypeInv'
  <2>1. /\ out' \in [Stream -> Seq(Item)]
        /\ client' \in [Stream -> [linked : BOOLEAN, read : Nat]]
        /\ \A d \in Stream : client'[d].read <= Len(out'[d])
    <3>1. CASE UNCHANGED out BY <1>0, <1>15, <3>1 DEF RelayDeadline, TypeOK
    <3>2. CASE out' = [out EXCEPT ![c] = Append(@, "error")]
      BY <1>0, <1>15, <3>2, OutTyped DEF RelayDeadline, Item
    <3> QED BY <1>15, <3>1, <3>2 DEF RelayDeadline
  <2>2. relay' \in [Stream -> RelayRecord]
    BY <1>0, <1>15, RelayDisconnects DEF RelayDeadline, Pc
  <2> QED BY <1>0, <1>15, <2>1, <2>2 DEF RelayDeadline, TypeOK
<1>16. ASSUME NEW c \in Stream, RelayCancelSent(c) PROVE TypeInv'
  <2>1. relay' \in [Stream -> RelayRecord]
    <3>1. relay \in [Stream -> RelayRecord] BY <1>0 DEF TypeOK
    <3>2. relay' = [relay EXCEPT ![c] = [relay[c] EXCEPT !.pc = "reading", !.asked = TRUE]]
      BY <1>16 DEF RelayCancelSent
    <3>3. \A r \in RelayRecord : [r EXCEPT !.pc = "reading", !.asked = TRUE] \in RelayRecord
      BY DEF RelayRecord
    <3> QED BY <3>1, <3>2, <3>3
  <2> QED BY <1>0, <1>16, <2>1 DEF RelayCancelSent, TypeOK
<1>17. ASSUME NEW c \in Stream, RelayGivesUp(c) PROVE TypeInv'
  BY <1>0, <1>17, StopTyped DEF RelayGivesUp, TypeOK
<1>18. ASSUME NEW c \in Stream, CallerFails(c) \/ CallerEnds(c) PROVE TypeInv'
  BY <1>0, <1>18 DEF CallerFails, CallerEnds, TypeOK
<1>19. ASSUME NEW c \in Stream, CallerFinishes(c) PROVE TypeInv'
  <2>1. chan' \in [Stream -> Seq(Event)] /\ \A d \in Stream : Len(chan'[d]) <= ChanCapacity
    BY <1>0, <1>19, TrySendTyped DEF CallerFinishes, Event
  <2> QED BY <1>0, <1>19, <2>1 DEF CallerFinishes, TypeOK
<1>20. ASSUME NEW c \in Stream, ClientReads(c) \/ ClientLeaves(c) PROVE TypeInv'
  <2>1. client \in [Stream -> [linked : BOOLEAN, read : Nat]] /\ out \in [Stream -> Seq(Item)]
    BY <1>0 DEF TypeOK
  <2>2. CASE ClientReads(c)
    <3>1. client[c].read + 1 \in Nat /\ client[c].read + 1 <= Len(out[c])
      BY <2>1, <2>2 DEF ClientReads, Unread
    <3>2. client' = [client EXCEPT ![c] = [client[c] EXCEPT !.read = client[c].read + 1]]
      BY <2>2 DEF ClientReads
    <3>3. [client[c] EXCEPT !.read = client[c].read + 1] \in [linked : BOOLEAN, read : Nat]
      BY <2>1, <3>1
    <3> QED BY <1>0, <2>1, <2>2, <3>1, <3>2, <3>3 DEF ClientReads, TypeOK
  <2>3. CASE ClientLeaves(c)
    <3>1. client' = [client EXCEPT ![c] = [client[c] EXCEPT !.linked = FALSE]]
      BY <2>3 DEF ClientLeaves
    <3>2. [client[c] EXCEPT !.linked = FALSE] \in [linked : BOOLEAN, read : Nat] BY <2>1
    <3> QED BY <1>0, <2>1, <2>3, <3>1, <3>2 DEF ClientLeaves, TypeOK
  <2> QED BY <1>20, <2>2, <2>3
<1>21. CASE UNCHANGED vars BY <1>0, <1>21 DEF vars, TypeOK
<1> QED
  BY <1>1, <1>2, <1>3, <1>4, <1>5, <1>6, <1>7, <1>8, <1>9, <1>10, <1>11, <1>12, <1>13,
     <1>14, <1>15, <1>16, <1>17, <1>18, <1>19, <1>20, <1>21
  DEF Next, RelayStep

LEMMA TypeInvInvariant == Spec => []TypeInv
BY TypeInvInit, TypeInvStep, PTL DEF Spec

(***************************************************************************)
(* Every reachable state is well typed and no per-call channel of          *)
(* PendingStreamDispatchMap ever holds more than its capacity.             *)
(***************************************************************************)
THEOREM StreamTypeCorrect == Spec => []TypeOK
<1>1. TypeInv => TypeOK BY DEF TypeInv
<1> QED BY <1>1, TypeInvInvariant, PTL

-----------------------------------------------------------------------------
(***************************************************************************)
(* The table does not leak.                                                *)
(***************************************************************************)

LEMMA EntryHasHandleStep == TypeInv /\ EntryHasHandle /\ [Next]_vars => EntryHasHandle'
<1> SUFFICES ASSUME TypeInv, EntryHasHandle, [Next]_vars PROVE EntryHasHandle' OBVIOUS
<1>0. relay \in [Stream -> RelayRecord] /\ entries \subseteq Stream
  BY DEF TypeInv, TypeOK
<1> USE DEF EntryHasHandle, Open
<1>1. ASSUME entries' \subseteq entries, UNCHANGED relay PROVE EntryHasHandle'
  BY <1>1
<1>2. ASSUME NEW c \in Stream, NEW p \in Pc \ {"absent", "stopped"}, entries' \subseteq entries,
             relay' = [relay EXCEPT ![c].pc = p]
      PROVE  EntryHasHandle'
  <2>1. \A d \in Stream : d # c => relay'[d] = relay[d] BY <1>0, <1>2
  <2>2. relay'[c].pc = p BY <1>0, <1>2 DEF RelayRecord
  <2> QED BY <1>0, <1>2, <2>1, <2>2 DEF Pc
<1>3. ASSUME NEW c \in Stream, Stop(c) PROVE EntryHasHandle'
  BY <1>0, <1>3 DEF Stop, DropHandle
<1>4. ASSUME NEW c \in Stream, AfterSend(c) PROVE EntryHasHandle'
  BY <1>2, <1>3, <1>4 DEF AfterSend, Pc
<1>5. CASE DrainRead
  <2>1. entries' \subseteq entries BY <1>5 DEF DrainRead
  <2> QED BY <1>1, <1>5, <2>1 DEF DrainRead
<1>6. CASE DrainDeliver
  BY <1>1, <1>6 DEF DrainDeliver, DeliverNoMatch, DeliverSent, DeliverStalled
<1>7. ASSUME NEW c \in Stream, Register(c) PROVE EntryHasHandle'
  <2>1. \A d \in Stream : d # c => relay'[d] = relay[d] BY <1>0, <1>7 DEF Register
  <2>2. relay'[c].pc = "registered" BY <1>0, <1>7 DEF Register, RelayRecord
  <2> QED BY <1>0, <1>7, <2>1, <2>2 DEF Register
<1>8. ASSUME NEW c \in Stream, OpenFails(c) PROVE EntryHasHandle'
  BY <1>0, <1>8 DEF OpenFails, DropHandle
<1>9. ASSUME NEW c \in Stream, OpenSent(c) PROVE EntryHasHandle'
  BY <1>2, <1>9 DEF OpenSent, Pc
<1>10. ASSUME NEW c \in Stream, RelayRecv(c) PROVE EntryHasHandle'
  <2>1. \A d \in Stream : d # c => relay'[d] = relay[d] BY <1>0, <1>10 DEF RelayRecv
  <2>2. relay'[c].pc = "sending" BY <1>0, <1>10 DEF RelayRecv, RelayRecord
  <2> QED BY <1>0, <1>10, <2>1, <2>2 DEF RelayRecv
<1>11. ASSUME NEW c \in Stream, RelaySend(c) \/ RelaySkip(c) PROVE EntryHasHandle'
  BY <1>4, <1>11 DEF RelaySend, RelaySkip
<1>12. ASSUME NEW c \in Stream, NEW p \in {"reading", "cancelling"}, entries' = entries,
              relay' = [relay EXCEPT ![c].connected = FALSE, ![c].pc = p]
       PROVE  EntryHasHandle'
  <2>1. \A d \in Stream : d # c => relay'[d] = relay[d] BY <1>0, <1>12
  <2>2. relay'[c].pc = p BY <1>0, <1>12 DEF RelayRecord
  <2> QED BY <1>0, <1>12, <2>1, <2>2
<1>13. ASSUME NEW c \in Stream,
              RelaySendFails(c) \/ RelayConsumerClosed(c) \/ RelayDeadline(c)
       PROVE  EntryHasHandle'
  BY <1>3, <1>12, <1>13 DEF RelaySendFails, RelayConsumerClosed, RelayDeadline
<1>14. ASSUME NEW c \in Stream, RelaySourceClosed(c) \/ RelayGivesUp(c) PROVE EntryHasHandle'
  BY <1>3, <1>14 DEF RelaySourceClosed, RelayGivesUp
<1>15. ASSUME NEW c \in Stream, RelayCancelSent(c) PROVE EntryHasHandle'
  <2>1. \A d \in Stream : d # c => relay'[d] = relay[d] BY <1>0, <1>15 DEF RelayCancelSent
  <2>2. relay'[c].pc = "reading" BY <1>0, <1>15 DEF RelayCancelSent, RelayRecord
  <2> QED BY <1>0, <1>15, <2>1, <2>2 DEF RelayCancelSent
<1>16. ASSUME NEW c \in Stream,
              \/ CancelOne(c) \/ CallerFails(c) \/ CallerFinishes(c) \/ CallerEnds(c)
              \/ ClientReads(c) \/ ClientLeaves(c) \/ \E f \in Sends : DeviceSend(c, f)
       PROVE  EntryHasHandle'
  BY <1>1, <1>16
  DEF CancelOne, CallerFails, CallerFinishes, CallerEnds, ClientReads, ClientLeaves, DeviceSend
<1>17. CASE GoOffline \/ UNCHANGED vars BY <1>1, <1>17 DEF GoOffline, vars
<1> QED
  BY <1>5, <1>6, <1>7, <1>8, <1>9, <1>10, <1>11, <1>13, <1>14, <1>15, <1>16, <1>17
  DEF Next, RelayStep

(***************************************************************************)
(* However evictions, cancellations, finishes and late frames interleave,  *)
(* PendingStreamDispatchMap keeps an entry only while the call's           *)
(* PendingStreamHandle exists.                                             *)
(***************************************************************************)
THEOREM StreamTableDoesNotLeak == Spec => []EntryHasHandle
<1>1. Init => EntryHasHandle BY DEF Init, EntryHasHandle
<1> QED BY <1>1, EntryHasHandleStep, TypeInvInvariant, PTL DEF Spec

-----------------------------------------------------------------------------
(***************************************************************************)
(* A bounded stream is concluded.  Inductively: an item the loop breaks    *)
(* after is a terminal or an error, and a relay that stopped, or gave up   *)
(* on a client that is still connected, has sent such an item.             *)
(***************************************************************************)
HasConclusion(c) == \E i \in 1..Len(out[c]) : IsLast(out[c][i])

GaveUp(c) ==
    \/ relay[c].pc \in {"cancelling", "stopped"}
    \/ relay[c].asked
    \/ ~relay[c].connected

LastConcludes(c) == relay[c].pc = "sending" /\ relay[c].last => IsLast(relay[c].item)
GivingUpIsTold(c) == c \in Bounded /\ client[c].linked /\ GaveUp(c) => HasConclusion(c)

ConclusionInv == \A c \in Stream : LastConcludes(c) /\ GivingUpIsTold(c)

\* What was sent to a client stays sent.
LEMMA ConclusionStays ==
    ASSUME TypeOK, NEW c \in Stream, NEW i \in Item,
           out' = [out EXCEPT ![c] = Append(@, i)]
    PROVE  /\ \A d \in Stream : HasConclusion(d) => HasConclusion(d)'
           /\ IsLast(i) => HasConclusion(c)'
<1>1. out \in [Stream -> Seq(Item)] BY DEF TypeOK
<1>2. \A d \in Stream : /\ Len(out'[d]) >= Len(out[d])
                        /\ \A j \in 1..Len(out[d]) : out'[d][j] = out[d][j]
  BY <1>1
<1>3. Len(out'[c]) = Len(out[c]) + 1 /\ out'[c][Len(out[c]) + 1] = i BY <1>1
<1>4. ASSUME NEW d \in Stream, HasConclusion(d) PROVE HasConclusion(d)'
  <2>1. PICK j \in 1..Len(out[d]) : IsLast(out[d][j]) BY <1>4 DEF HasConclusion
  <2>2. j \in 1..Len(out'[d]) /\ out'[d][j] = out[d][j] BY <1>1, <1>2, <2>1
  <2> QED BY <2>1, <2>2 DEF HasConclusion, IsLast
<1>5. ASSUME IsLast(i) PROVE HasConclusion(c)'
  <2>1. Len(out[c]) + 1 \in 1..Len(out'[c]) BY <1>1, <1>3
  <2> QED BY <1>3, <1>5, <2>1 DEF HasConclusion, IsLast
<1> QED BY <1>4, <1>5

\* A step of call c's tasks leaves the other calls' conclusions alone.
LEMMA ConclusionAtOne ==
    ASSUME ConclusionInv, NEW c \in Stream,
           \A d \in Stream : d # c => relay'[d] = relay[d],
           \A d \in Stream : client'[d].linked => client[d].linked,
           \A d \in Stream : HasConclusion(d) => HasConclusion(d)',
           LastConcludes(c)', GivingUpIsTold(c)'
    PROVE  ConclusionInv'
BY DEF ConclusionInv, LastConcludes, GivingUpIsTold, GaveUp

LEMMA ConclusionFrame ==
    ASSUME ConclusionInv, UNCHANGED <<relay, out>>,
           \A d \in Stream : client'[d].linked => client[d].linked
    PROVE  ConclusionInv'
BY DEF ConclusionInv, LastConcludes, GivingUpIsTold, GaveUp, HasConclusion

LEMMA ConclusionStep == TypeInv /\ ConclusionInv /\ [Next]_vars => ConclusionInv'
<1> SUFFICES ASSUME TypeInv, ConclusionInv, [Next]_vars PROVE ConclusionInv' OBVIOUS
<1>0. /\ TypeOK
      /\ relay \in [Stream -> RelayRecord]
      /\ client \in [Stream -> [linked : BOOLEAN, read : Nat]]
  BY DEF TypeInv, TypeOK
<1>1. UNCHANGED out => \A d \in Stream : HasConclusion(d) => HasConclusion(d)'
  BY DEF HasConclusion
<1>2. UNCHANGED client => \A d \in Stream : client'[d].linked => client[d].linked
  OBVIOUS
\* The relay moves on with its item sent, or skips it.
<1>3. ASSUME NEW c \in Stream, NEW p \in Pc, UNCHANGED client,
             relay' = [relay EXCEPT ![c].pc = p], p # "sending",
             \A d \in Stream : HasConclusion(d) => HasConclusion(d)',
             c \in Bounded /\ client[c].linked /\ p \in {"cancelling", "stopped"} => HasConclusion(c)'
      PROVE  ConclusionInv'
  <2>1. \A d \in Stream : d # c => relay'[d] = relay[d] BY <1>0, <1>3
  <2>2. /\ relay'[c].pc = p
        /\ relay'[c].asked = relay[c].asked
        /\ relay'[c].connected = relay[c].connected
    BY <1>0, <1>3 DEF RelayRecord
  <2>3. LastConcludes(c)' BY <1>3, <2>2 DEF LastConcludes
  <2>4. GivingUpIsTold(c)'
    BY <1>0, <1>3, <2>2 DEF GivingUpIsTold, GaveUp, ConclusionInv
  <2> QED BY <1>2, <1>3, <2>1, <2>3, <2>4, ConclusionAtOne
<1>4. ASSUME NEW c \in Stream, NEW p \in {"reading", "cancelling"}, UNCHANGED client,
             relay' = [relay EXCEPT ![c].connected = FALSE, ![c].pc = p],
             \A d \in Stream : HasConclusion(d) => HasConclusion(d)',
             c \in Bounded /\ client[c].linked => HasConclusion(c)'
      PROVE  ConclusionInv'
  <2>1. \A d \in Stream : d # c => relay'[d] = relay[d] BY <1>0, <1>4
  <2>2. relay'[c].pc = p BY <1>0, <1>4 DEF RelayRecord
  <2>3. LastConcludes(c)' BY <1>4, <2>2 DEF LastConcludes
  <2>4. GivingUpIsTold(c)' BY <1>4 DEF GivingUpIsTold
  <2> QED BY <1>2, <1>4, <2>1, <2>3, <2>4, ConclusionAtOne
<1>5. ASSUME NEW c \in Stream, Register(c) PROVE ConclusionInv'
  BY <1>1, <1>3, <1>5 DEF Register, Pc
<1>6. ASSUME NEW c \in Stream, OpenFails(c) PROVE ConclusionInv'
  <2>1. /\ \A d \in Stream : HasConclusion(d) => HasConclusion(d)'
        /\ HasConclusion(c)'
    BY <1>0, <1>6, ConclusionStays DEF OpenFails, Item, IsLast
  <2> QED BY <1>3, <1>6, <2>1 DEF OpenFails, Pc
<1>7. ASSUME NEW c \in Stream, OpenSent(c) PROVE ConclusionInv'
  BY <1>1, <1>3, <1>7 DEF OpenSent, Pc
<1>8. ASSUME NEW c \in Stream, RelayRecv(c) PROVE ConclusionInv'
  <2>1. PICK ok \in BOOLEAN :
           LET item == Verdict(c, Head(chan[c]), ok) IN
           relay' = [relay EXCEPT ![c].pc = "sending",
                                  ![c].item = item,
                                  ![c].last = IsLast(item),
                                  ![c].admitted = @ \/ item = "admission"]
    BY <1>8 DEF RelayRecv
  <2> DEFINE v == Verdict(c, Head(chan[c]), ok)
  <2>2. relay' = [relay EXCEPT ![c].pc = "sending",
                               ![c].item = v,
                               ![c].last = IsLast(v),
                               ![c].admitted = @ \/ v = "admission"] BY <2>1
  <2> HIDE DEF v
  <2>3. \A d \in Stream : d # c => relay'[d] = relay[d] BY <1>0, <2>2
  <2>4. /\ relay'[c].pc = "sending"
        /\ relay'[c].item = v
        /\ relay'[c].last = IsLast(v)
        /\ relay'[c].asked = relay[c].asked
        /\ relay'[c].connected = relay[c].connected
    BY <1>0, <2>2 DEF RelayRecord
  <2>5. LastConcludes(c)' BY <2>4 DEF LastConcludes, IsLast
  <2>6. GivingUpIsTold(c)'
    BY <1>0, <1>1, <1>8, <2>4 DEF RelayRecv, GivingUpIsTold, GaveUp, ConclusionInv
  <2> QED BY <1>1, <1>2, <1>8, <2>3, <2>5, <2>6, ConclusionAtOne DEF RelayRecv
<1>9. ASSUME NEW c \in Stream, RelaySend(c) PROVE ConclusionInv'
  <2>1. relay[c].item \in Item BY <1>0 DEF RelayRecord
  <2>2. /\ \A d \in Stream : HasConclusion(d) => HasConclusion(d)'
        /\ IsLast(relay[c].item) => HasConclusion(c)'
    BY <1>0, <1>9, <2>1, ConclusionStays DEF RelaySend
  <2>3. relay[c].last => HasConclusion(c)'
    BY <1>9, <2>2 DEF RelaySend, ConclusionInv, LastConcludes
  <2>4. CASE relay[c].last BY <1>3, <1>9, <2>2, <2>3, <2>4 DEF RelaySend, AfterSend, Stop, Pc
  <2>5. CASE ~relay[c].last BY <1>3, <1>9, <2>2, <2>5 DEF RelaySend, AfterSend, Pc
  <2> QED BY <2>4, <2>5
<1>10. ASSUME NEW c \in Stream, RelaySkip(c) PROVE ConclusionInv'
  <2>1. c \in Bounded /\ client[c].linked => HasConclusion(c)'
    BY <1>1, <1>10 DEF RelaySkip, ConclusionInv, GivingUpIsTold, GaveUp
  <2>2. CASE relay[c].last BY <1>1, <1>3, <1>10, <2>1, <2>2 DEF RelaySkip, AfterSend, Stop, Pc
  <2>3. CASE ~relay[c].last BY <1>1, <1>3, <1>10, <2>3 DEF RelaySkip, AfterSend, Pc
  <2> QED BY <2>2, <2>3
<1>11. ASSUME NEW c \in Stream, RelaySendFails(c) PROVE ConclusionInv'
  <2>1. ~client[c].linked /\ UNCHANGED <<out, client>> BY <1>11 DEF RelaySendFails
  <2>2. CASE Stop(c) BY <1>1, <1>3, <2>1, <2>2 DEF Stop, Pc
  <2>3. CASE ~(c \in Lossless \/ relay[c].last)
    BY <1>1, <1>4, <1>11, <2>1, <2>3 DEF RelaySendFails
  <2> QED BY <1>11, <2>2, <2>3 DEF RelaySendFails
<1>12. ASSUME NEW c \in Stream, RelaySourceClosed(c) PROVE ConclusionInv'
  <2>1. CASE c \in Bounded /\ relay[c].connected /\ client[c].linked
    <3>1. /\ \A d \in Stream : HasConclusion(d) => HasConclusion(d)'
          /\ HasConclusion(c)'
      BY <1>0, <1>12, <2>1, ConclusionStays DEF RelaySourceClosed, Item, IsLast
    <3> QED BY <1>3, <1>12, <3>1 DEF RelaySourceClosed, Stop, Pc
  <2>2. CASE ~(c \in Bounded /\ relay[c].connected /\ client[c].linked)
    <3>1. UNCHANGED out BY <1>12, <2>2 DEF RelaySourceClosed
    <3>2. c \in Bounded /\ client[c].linked => HasConclusion(c)'
      BY <1>1, <2>2, <3>1 DEF ConclusionInv, GivingUpIsTold, GaveUp
    <3> QED BY <1>1, <1>3, <1>12, <3>1, <3>2 DEF RelaySourceClosed, Stop, Pc
  <2> QED BY <2>1, <2>2
<1>13. ASSUME NEW c \in Stream, RelayConsumerClosed(c) PROVE ConclusionInv'
  BY <1>1, <1>4, <1>13 DEF RelayConsumerClosed
<1>14. ASSUME NEW c \in Stream, RelayDeadline(c) PROVE ConclusionInv'
  <2>1. CASE relay[c].connected /\ client[c].linked
    <3>1. /\ \A d \in Stream : HasConclusion(d) => HasConclusion(d)'
          /\ HasConclusion(c)'
      BY <1>0, <1>14, <2>1, ConclusionStays DEF RelayDeadline, Item, IsLast
    <3> QED BY <1>4, <1>14, <3>1 DEF RelayDeadline
  <2>2. CASE ~(relay[c].connected /\ client[c].linked)
    <3>1. UNCHANGED out BY <1>14, <2>2 DEF RelayDeadline
    <3>2. c \in Bounded /\ client[c].linked => HasConclusion(c)'
      BY <1>1, <2>2, <3>1 DEF ConclusionInv, GivingUpIsTold, GaveUp
    <3> QED BY <1>1, <1>4, <1>14, <3>1, <3>2 DEF RelayDeadline
  <2> QED BY <2>1, <2>2
<1>15. ASSUME NEW c \in Stream, RelayCancelSent(c) PROVE ConclusionInv'
  <2>1. \A d \in Stream : d # c => relay'[d] = relay[d] BY <1>0, <1>15 DEF RelayCancelSent
  <2>2. relay'[c].pc = "reading" BY <1>0, <1>15 DEF RelayCancelSent, RelayRecord
  <2>3. LastConcludes(c)' BY <2>2 DEF LastConcludes
  <2>4. GivingUpIsTold(c)'
    BY <1>1, <1>15 DEF RelayCancelSent, ConclusionInv, GivingUpIsTold, GaveUp
  <2> QED BY <1>1, <1>2, <1>15, <2>1, <2>3, <2>4, ConclusionAtOne DEF RelayCancelSent
<1>16. ASSUME NEW c \in Stream, RelayGivesUp(c) PROVE ConclusionInv'
  <2>1. c \in Bounded /\ client[c].linked => HasConclusion(c)'
    BY <1>1, <1>16 DEF RelayGivesUp, ConclusionInv, GivingUpIsTold, GaveUp
  <2> QED BY <1>1, <1>3, <1>16, <2>1 DEF RelayGivesUp, Stop, Pc
<1>17. ASSUME NEW c \in Stream, ClientReads(c) \/ ClientLeaves(c) PROVE ConclusionInv'
  <2>1. \A d \in Stream : client'[d].linked => client[d].linked
    BY <1>0, <1>17 DEF ClientReads, ClientLeaves
  <2> QED BY <1>17, <2>1, ConclusionFrame DEF ClientReads, ClientLeaves
<1>18. CASE UNCHANGED <<relay, out, client>> BY <1>18, ConclusionFrame
<1>19. ASSUME NEW c \in Stream,
              \/ CancelOne(c) \/ CallerFails(c) \/ CallerFinishes(c) \/ CallerEnds(c)
              \/ \E f \in Sends : DeviceSend(c, f)
       PROVE  ConclusionInv'
  BY <1>18, <1>19 DEF CancelOne, CallerFails, CallerFinishes, CallerEnds, DeviceSend
<1>20. CASE DrainRead \/ DrainDeliver \/ GoOffline \/ UNCHANGED vars
  BY <1>18, <1>20 DEF DrainRead, DrainDeliver, GoOffline, vars
<1> QED
  BY <1>5, <1>6, <1>7, <1>8, <1>9, <1>10, <1>11, <1>12, <1>13, <1>14, <1>15, <1>16, <1>17,
     <1>19, <1>20
  DEF Next, RelayStep

(***************************************************************************)
(* An InvokeStream whose client is still connected never just stops: its   *)
(* relay (project_forwarded_remote_stream) has sent a terminal or an       *)
(* error, whatever was evicted, cancelled or timed out before.             *)
(***************************************************************************)
THEOREM BoundedStreamsAreConcluded == Spec => []BoundedIsConcluded
<1>1. Init => ConclusionInv
  BY DEF Init, NewRelay, ConclusionInv, LastConcludes, GivingUpIsTold, GaveUp
<1>2. ConclusionInv => BoundedIsConcluded
  BY DEF ConclusionInv, GivingUpIsTold, GaveUp, HasConclusion, BoundedIsConcluded, Concluded,
         Bounded
<1> QED BY <1>1, <1>2, ConclusionStep, TypeInvInvariant, PTL DEF Spec

-----------------------------------------------------------------------------
(***************************************************************************)
(* What a step may do to a call's relay and to what its client was sent.   *)
(***************************************************************************)
RelayStays(c) == relay'[c] = relay[c] /\ out'[c] = out[c]

\* It stops, or gives up on its client, with an error or without a word.
RelayQuits(c) ==
    /\ relay[c].pc # "stopped"
    /\ relay'[c].pc \notin {"sending", "absent", "registered"}
    /\ relay'[c].pc = "stopped" \/ ~relay'[c].connected
    /\ out'[c] = out[c] \/ out'[c] = Append(out[c], "error")

\* It moves on between two items.
RelayTurns(c) ==
    /\ relay[c].pc \notin {"sending", "stopped"}
    /\ relay'[c].pc \notin {"sending", "stopped", "absent"}
    /\ relay'[c].pc = "registered" => relay[c].pc = "absent"
    /\ relay'[c].connected = relay[c].connected
    /\ relay'[c].admitted = relay[c].admitted
    /\ out'[c] = out[c]

\* It takes an event and has an item to send.
RelayTakes(c) ==
    /\ relay[c].pc = "reading"
    /\ chan[c] # << >>
    /\ \E ok \in BOOLEAN :
          /\ relay'[c].item = Verdict(c, Head(chan[c]), ok)
          /\ relay'[c].last = IsLast(relay'[c].item)
          /\ relay'[c].admitted <=> (relay[c].admitted \/ relay'[c].item = "admission")
    /\ relay'[c].pc = "sending"
    /\ relay'[c].connected = relay[c].connected
    /\ out'[c] = out[c]

\* It sends the item.
RelayGives(c) ==
    /\ relay[c].pc = "sending"
    /\ relay[c].connected \/ relay[c].item = "error"
    /\ out'[c] = Append(out[c], relay[c].item)
    /\ relay'[c].pc = IF relay[c].last THEN "stopped" ELSE "reading"
    /\ relay'[c].connected = relay[c].connected
    /\ relay'[c].admitted = relay[c].admitted

LEMMA RelayMovesAlone ==
    ASSUME TypeOK, NEW c \in Stream, NEW p \in Pc, relay' = [relay EXCEPT ![c].pc = p]
    PROVE  /\ relay'[c].pc = p /\ relay'[c].connected = relay[c].connected
           /\ relay'[c].admitted = relay[c].admitted
           /\ \A d \in Stream \ {c} : relay'[d] = relay[d]
BY DEF TypeOK, RelayRecord

LEMMA RelayDisconnectsAlone ==
    ASSUME TypeOK, NEW c \in Stream, NEW p \in Pc,
           relay' = [relay EXCEPT ![c].connected = FALSE, ![c].pc = p]
    PROVE  /\ relay'[c].pc = p /\ ~relay'[c].connected
           /\ \A d \in Stream \ {c} : relay'[d] = relay[d]
BY DEF TypeOK, RelayRecord

LEMMA OutGrowsAlone ==
    ASSUME TypeOK, NEW c \in Stream, NEW i, out' = [out EXCEPT ![c] = Append(@, i)]
    PROVE  out'[c] = Append(out[c], i) /\ \A d \in Stream \ {c} : out'[d] = out[d]
BY DEF TypeOK

LEMMA OthersStay ==
    ASSUME NEW c \in Stream,
           \A d \in Stream \ {c} : relay'[d] = relay[d], \A d \in Stream \ {c} : out'[d] = out[d]
    PROVE  \A d \in Stream \ {c} : RelayStays(d)
BY DEF RelayStays

LEMMA OpenFailsMoves ==
    ASSUME TypeOK, NEW c \in Stream, OpenFails(c)
    PROVE  RelayQuits(c) /\ \A d \in Stream \ {c} : RelayStays(d)
<1>1. relay' = [relay EXCEPT ![c].pc = "stopped"] /\ out' = [out EXCEPT ![c] = Append(@, "error")]
  BY DEF OpenFails
<1>2. relay'[c].pc = "stopped" /\ \A d \in Stream \ {c} : relay'[d] = relay[d]
  BY <1>1, RelayMovesAlone DEF Pc
<1> QED BY <1>1, <1>2, OutGrowsAlone, OthersStay DEF OpenFails, RelayQuits

LEMMA TurnMoves ==
    ASSUME TypeOK, NEW c \in Stream, Register(c) \/ OpenSent(c) \/ RelayCancelSent(c)
    PROVE  RelayTurns(c) /\ \A d \in Stream \ {c} : RelayStays(d)
<1>0. out' = out BY DEF Register, OpenSent, RelayCancelSent
<1>1. CASE Register(c)
  <2>1. relay' = [relay EXCEPT ![c].pc = "registered"] /\ relay[c].pc = "absent"
    BY <1>1 DEF Register
  <2> QED BY <1>0, <2>1, RelayMovesAlone, OthersStay DEF RelayTurns, Pc
<1>2. CASE OpenSent(c)
  <2>1. relay' = [relay EXCEPT ![c].pc = "reading"] /\ relay[c].pc = "registered"
    BY <1>2 DEF OpenSent
  <2> QED BY <1>0, <2>1, RelayMovesAlone, OthersStay DEF RelayTurns, Pc
<1>3. CASE RelayCancelSent(c)
  <2>1. /\ relay'[c].pc = "reading" /\ relay'[c].connected = relay[c].connected
        /\ relay'[c].admitted = relay[c].admitted
        /\ \A d \in Stream \ {c} : relay'[d] = relay[d]
    BY <1>3 DEF RelayCancelSent, TypeOK, RelayRecord
  <2> QED BY <1>0, <1>3, <2>1, OthersStay DEF RelayTurns, RelayCancelSent
<1> QED BY <1>1, <1>2, <1>3

LEMMA RecvMoves ==
    ASSUME TypeOK, NEW c \in Stream, RelayRecv(c)
    PROVE  RelayTakes(c) /\ \A d \in Stream \ {c} : RelayStays(d)
<1>1. PICK ok \in BOOLEAN :
         LET item == Verdict(c, Head(chan[c]), ok) IN
         relay' = [relay EXCEPT ![c].pc = "sending",
                                ![c].item = item,
                                ![c].last = IsLast(item),
                                ![c].admitted = @ \/ item = "admission"]
  BY DEF RelayRecv
<1>2. PICK v : v = Verdict(c, Head(chan[c]), ok) OBVIOUS
<1>3. relay' = [relay EXCEPT ![c].pc = "sending", ![c].item = v, ![c].last = IsLast(v),
                             ![c].admitted = @ \/ v = "admission"]
  BY <1>1, <1>2
<1>4. relay \in [Stream -> RelayRecord] BY DEF TypeOK
<1>5. /\ relay'[c].pc = "sending" /\ relay'[c].item = v /\ relay'[c].last = IsLast(v)
      /\ relay'[c].admitted <=> (relay[c].admitted \/ v = "admission")
      /\ relay'[c].connected = relay[c].connected
      /\ \A d \in Stream \ {c} : relay'[d] = relay[d]
  BY <1>3, <1>4 DEF RelayRecord
<1>6. out' = out /\ relay[c].pc = "reading" /\ chan[c] # << >> BY DEF RelayRecv
<1>7. RelayTakes(c) BY <1>2, <1>5, <1>6 DEF RelayTakes
<1> QED BY <1>5, <1>6, <1>7, OthersStay

LEMMA SendMoves ==
    ASSUME TypeOK, NEW c \in Stream, RelaySend(c)
    PROVE  RelayGives(c) /\ \A d \in Stream \ {c} : RelayStays(d)
<1>1. PICK p \in Pc : /\ p = IF relay[c].last THEN "stopped" ELSE "reading"
                      /\ relay' = [relay EXCEPT ![c].pc = p]
  BY DEF RelaySend, AfterSend, Stop, Pc
<1>2. /\ out' = [out EXCEPT ![c] = Append(@, relay[c].item)] /\ relay[c].pc = "sending"
      /\ relay[c].connected \/ relay[c].item = "error"
  BY DEF RelaySend
<1> QED BY <1>1, <1>2, RelayMovesAlone, OutGrowsAlone, OthersStay DEF RelayGives

LEMMA QuitMoves ==
    ASSUME TypeOK, NEW c \in Stream,
           \/ RelaySkip(c) \/ RelaySendFails(c) \/ RelaySourceClosed(c)
           \/ RelayConsumerClosed(c) \/ RelayDeadline(c) \/ RelayGivesUp(c)
    PROVE  RelayQuits(c) /\ \A d \in Stream \ {c} : RelayStays(d)
<1>1. out' = out \/ out' = [out EXCEPT ![c] = Append(@, "error")]
  BY DEF RelaySkip, RelaySendFails, RelaySourceClosed, RelayConsumerClosed, RelayDeadline,
         RelayGivesUp
<1>2. /\ out'[c] = out[c] \/ out'[c] = Append(out[c], "error")
      /\ \A d \in Stream \ {c} : out'[d] = out[d]
  BY <1>1, OutGrowsAlone
<1>3. relay[c].pc # "stopped"
  BY DEF RelaySkip, RelaySendFails, RelaySourceClosed, RelayConsumerClosed, RelayDeadline,
         RelayGivesUp
<1>4. CASE relay' = [relay EXCEPT ![c].pc = "stopped"]
  BY <1>2, <1>3, <1>4, RelayMovesAlone, OthersStay DEF RelayQuits, Pc
<1>5. ASSUME NEW p \in {"reading", "cancelling"},
             relay' = [relay EXCEPT ![c].connected = FALSE, ![c].pc = p]
      PROVE  RelayQuits(c) /\ \A d \in Stream \ {c} : RelayStays(d)
  BY <1>2, <1>3, <1>5, RelayDisconnectsAlone, OthersStay DEF RelayQuits, Pc
<1>6. CASE RelaySkip(c) /\ ~relay[c].last
  <2>1. relay' = [relay EXCEPT ![c].pc = "reading"] /\ ~relay[c].connected
    BY <1>6 DEF RelaySkip, AfterSend
  <2> QED BY <1>2, <1>3, <2>1, RelayMovesAlone, OthersStay DEF RelayQuits, Pc
<1> QED
  BY <1>4, <1>5, <1>6
  DEF RelaySkip, RelaySendFails, RelaySourceClosed, RelayConsumerClosed, RelayDeadline,
      RelayGivesUp, AfterSend, Stop

\* Every other step leaves all the relays alone.
Elsewhere ==
    \/ DrainRead \/ DrainDeliver \/ GoOffline
    \/ \E c \in Stream :
          \/ \E f \in Sends : DeviceSend(c, f)
          \/ CancelOne(c) \/ CallerFails(c) \/ CallerFinishes(c) \/ CallerEnds(c)
          \/ ClientReads(c) \/ ClientLeaves(c)

LEMMA ElsewhereStays ==
    ASSUME Elsewhere
    PROVE  relay' = relay /\ out' = out
BY DEF Elsewhere, DrainRead, DrainDeliver, GoOffline, DeviceSend, CancelOne, CallerFails,
       CallerFinishes, CallerEnds, ClientReads, ClientLeaves

LEMMA StreamMoves ==
    ASSUME TypeOK, [Next]_vars
    PROVE  \A c \in Stream :
             RelayStays(c) \/ RelayQuits(c) \/ RelayTurns(c) \/ RelayTakes(c) \/ RelayGives(c)
<1>1. CASE Elsewhere BY <1>1, ElsewhereStays DEF RelayStays
<1>2. CASE UNCHANGED vars BY <1>2 DEF vars, RelayStays
<1>3. CASE \E c \in Stream :
              \/ Register(c) \/ OpenSent(c) \/ OpenFails(c) \/ RelayCancelSent(c) \/ RelayStep(c)
              \/ RelayDeadline(c) \/ RelayGivesUp(c)
  BY <1>3, OpenFailsMoves, TurnMoves, RecvMoves, SendMoves, QuitMoves DEF RelayStep
<1> QED BY <1>1, <1>2, <1>3 DEF Next, Elsewhere

-----------------------------------------------------------------------------
(***************************************************************************)
(* The client sees a canonical stream.  The relay's `admitted` and what it *)
(* has sent say the same as long as its client may still be shown more.    *)
(***************************************************************************)
NoError(c) == \A i \in 1..Len(out[c]) : out[c][i] # "error"
Live(c) == relay[c].connected /\ relay[c].pc # "stopped" /\ NoError(c)

OrderOf(c) ==
    /\ \A i \in 1..Len(out[c]) : Shown(c, i) =>
         /\ out[c][i] = "admission" => i = 1
         /\ out[c][i] \in {"chunk", "terminal"} => i > 1
         /\ out[c][i] = "terminal" => i = Len(out[c])
    /\ relay[c].pc # "stopped" => \A i \in 1..Len(out[c]) : out[c][i] # "terminal"
    /\ relay[c].pc = "sending" => relay[c].last = IsLast(relay[c].item)
    /\ Live(c) /\ relay[c].pc = "sending" =>
         /\ relay[c].item = "admission" => relay[c].admitted /\ Len(out[c]) = 0
         /\ relay[c].item \in {"chunk", "terminal"} => relay[c].admitted /\ Len(out[c]) > 0
    /\ Live(c) /\ relay[c].pc # "sending" => (relay[c].admitted <=> Len(out[c]) > 0)

OrderInv == \A c \in Stream : OrderOf(c)

\* Appending an item shows the earlier ones as before.
LEMMA ShownStays ==
    ASSUME NEW c, NEW item, out[c] \in Seq(Item), item \in Item, out'[c] = Append(out[c], item)
    PROVE  /\ Len(out'[c]) = Len(out[c]) + 1 /\ out'[c][Len(out[c]) + 1] = item
           /\ \A i \in 1..Len(out[c]) : out'[c][i] = out[c][i] /\ (Shown(c, i)' => Shown(c, i))
           /\ \A i : i = Len(out[c]) + 1 /\ Shown(c, i)' => NoError(c)
<1>1. /\ Len(out'[c]) = Len(out[c]) + 1 /\ out'[c][Len(out[c]) + 1] = item
      /\ \A i \in 1..Len(out[c]) : out'[c][i] = out[c][i]
      /\ Len(out[c]) \in Nat
  OBVIOUS
<1>2. ASSUME NEW i \in 1..(Len(out[c]) + 1), NEW j \in 1..(i - 1)
      PROVE  j \in 1..Len(out[c])
  BY <1>1
<1>3. \A i \in 1..Len(out[c]) : Shown(c, i)' => Shown(c, i)
  BY <1>1, <1>2 DEF Shown
<1>4. \A i : i = Len(out[c]) + 1 /\ Shown(c, i)' => NoError(c) BY <1>1 DEF Shown, NoError
<1> QED BY <1>1, <1>3, <1>4

LEMMA OrderStep == TypeInv /\ OrderInv /\ [Next]_vars => OrderInv'
<1> SUFFICES ASSUME TypeInv, OrderInv, [Next]_vars, NEW c \in Stream PROVE OrderOf(c)'
  BY DEF OrderInv
<1>0. TypeOK /\ OrderOf(c) BY DEF TypeInv, OrderInv
<1>1. out[c] \in Seq(Item) /\ Len(out[c]) \in Nat /\ relay[c].item \in Item
      /\ relay[c].admitted \in BOOLEAN
  BY <1>0 DEF TypeOK, RelayRecord
<1>2. CASE RelayStays(c) BY <1>0, <1>2 DEF RelayStays, OrderOf, Shown, Live, NoError
<1>3. CASE RelayQuits(c)
  <2>1. ~Live(c)' /\ relay'[c].pc # "sending" BY <1>3 DEF RelayQuits, Live
  <2>2. CASE out'[c] = out[c] BY <1>0, <1>3, <2>1, <2>2 DEF OrderOf, Shown, RelayQuits
  <2>3. CASE out'[c] = Append(out[c], "error")
    <3>1. /\ Len(out'[c]) = Len(out[c]) + 1 /\ out'[c][Len(out[c]) + 1] = "error"
          /\ \A i \in 1..Len(out[c]) : out'[c][i] = out[c][i] /\ (Shown(c, i)' => Shown(c, i))
      BY <1>1, <2>3, ShownStays DEF Item
    <3>2. \A i \in 1..Len(out[c]) : out[c][i] # "terminal" BY <1>0, <1>3 DEF OrderOf, RelayQuits
    <3> QED BY <1>0, <1>1, <2>1, <3>1, <3>2 DEF OrderOf
  <2> QED BY <1>3, <2>2, <2>3 DEF RelayQuits
<1>4. CASE RelayTurns(c) BY <1>0, <1>4 DEF RelayTurns, OrderOf, Shown, Live, NoError
<1>5. CASE RelayTakes(c)
  <2>1. PICK ok \in BOOLEAN : relay'[c].item = Verdict(c, Head(chan[c]), ok) BY <1>5 DEF RelayTakes
  <2>2. chan[c] # << >> /\ chan[c] \in Seq(Event) BY <1>0, <1>5 DEF RelayTakes, TypeOK
  <2>3. Head(chan[c]) \in Event BY <2>2
  <2>4. /\ relay'[c].item = "admission" => ~relay[c].admitted
        /\ relay'[c].item \in {"chunk", "terminal"} => relay[c].admitted
    BY <2>1, <2>3 DEF Verdict, Event
  <2>5. Live(c)' => Live(c) BY <1>5 DEF RelayTakes, Live, NoError
  <2>6. Live(c) => (relay[c].admitted <=> Len(out[c]) > 0) BY <1>0, <1>5 DEF OrderOf, RelayTakes
  <2>7. relay'[c].last = IsLast(relay'[c].item) BY <1>5 DEF RelayTakes
  <2>8. relay'[c].admitted <=> (relay[c].admitted \/ relay'[c].item = "admission")
    BY <1>5 DEF RelayTakes
  <2>9. relay'[c].pc = "sending" /\ out'[c] = out[c] /\ relay[c].pc = "reading"
    BY <1>5 DEF RelayTakes
  <2>10. \A i \in 1..Len(out[c]) : Shown(c, i)' <=> Shown(c, i) BY <2>9 DEF Shown
  <2>11. Live(c)' =>
           /\ relay'[c].item = "admission" => relay'[c].admitted /\ Len(out[c]) = 0
           /\ relay'[c].item \in {"chunk", "terminal"} => relay'[c].admitted /\ Len(out[c]) > 0
    BY <1>1, <2>4, <2>5, <2>6, <2>8
  <2> QED BY <1>0, <2>7, <2>9, <2>10, <2>11 DEF OrderOf, IsLast
<1>6. CASE RelayGives(c)
  <2>1. PICK item \in Item : item = relay[c].item BY <1>1
  <2>2. /\ Len(out'[c]) = Len(out[c]) + 1 /\ out'[c][Len(out[c]) + 1] = item
        /\ \A i \in 1..Len(out[c]) : out'[c][i] = out[c][i] /\ (Shown(c, i)' => Shown(c, i))
        /\ \A i : i = Len(out[c]) + 1 /\ Shown(c, i)' => NoError(c)
    BY <1>1, <1>6, <2>1, ShownStays DEF RelayGives
  <2>3. \A i \in 1..Len(out[c]) : out[c][i] # "terminal" BY <1>0, <1>6 DEF OrderOf, RelayGives
  <2>4. relay[c].last = IsLast(item) BY <1>0, <1>6, <2>1 DEF OrderOf, RelayGives
  <2>5. NoError(c) /\ item # "error" => Live(c) BY <1>6, <2>1 DEF RelayGives, Live
  <2>6. NoError(c) /\ item = "admission" => relay[c].admitted /\ Len(out[c]) = 0
    BY <1>0, <1>6, <2>1, <2>5 DEF OrderOf, RelayGives
  <2>7. NoError(c) /\ item \in {"chunk", "terminal"} => relay[c].admitted /\ Len(out[c]) > 0
    BY <1>0, <1>6, <2>1, <2>5 DEF OrderOf, RelayGives
  <2>8. relay'[c].pc # "stopped" => item \in {"admission", "chunk"}
    BY <1>6, <2>4 DEF RelayGives, IsLast, Item
  <2>9. NoError(c)' => NoError(c) BY <1>1, <2>2 DEF NoError
  <2>10. Live(c)' /\ relay'[c].pc # "sending" => (relay'[c].admitted <=> Len(out'[c]) > 0)
    BY <1>1, <1>6, <2>2, <2>6, <2>7, <2>8, <2>9 DEF Live, RelayGives
  <2>11. \A i \in 1..Len(out'[c]) : Shown(c, i)' =>
           /\ out'[c][i] = "admission" => i = 1
           /\ out'[c][i] \in {"chunk", "terminal"} => i > 1
           /\ out'[c][i] = "terminal" => i = Len(out'[c])
    <3> SUFFICES ASSUME NEW i \in 1..Len(out'[c]), Shown(c, i)'
                 PROVE  /\ out'[c][i] = "admission" => i = 1
                        /\ out'[c][i] \in {"chunk", "terminal"} => i > 1
                        /\ out'[c][i] = "terminal" => i = Len(out'[c])
      OBVIOUS
    <3>1. CASE i \in 1..Len(out[c]) BY <1>0, <2>2, <2>3, <3>1 DEF OrderOf
    <3>2. CASE i = Len(out[c]) + 1 BY <1>1, <2>2, <2>6, <2>7, <3>2
    <3> QED BY <1>1, <2>2, <3>1, <3>2
  <2>12. relay'[c].pc # "stopped" => \A i \in 1..Len(out'[c]) : out'[c][i] # "terminal"
    BY <1>1, <2>2, <2>3, <2>8
  <2>13. relay'[c].pc # "sending" BY <1>6 DEF RelayGives
  <2> QED BY <2>10, <2>11, <2>12, <2>13 DEF OrderOf
<1> QED BY <1>0, <1>2, <1>3, <1>4, <1>5, <1>6, StreamMoves

(***************************************************************************)
(* Whatever the device sends, a client is shown one admission, first, then *)
(* data, then at most one terminal, last: ForwardedFinalizationVerifier    *)
(* and the relay loops let nothing else through.                           *)
(***************************************************************************)
THEOREM StreamsAreCanonical == Spec => []CanonicalOrder
<1>1. Init => OrderInv
  BY DEF Init, NewRelay, OrderInv, OrderOf
<1>2. OrderInv => CanonicalOrder
  BY DEF OrderInv, OrderOf, CanonicalOrder
<1> QED BY <1>1, <1>2, OrderStep, TypeInvInvariant, PTL DEF Spec

-----------------------------------------------------------------------------
(***************************************************************************)
(* The client sees what its device sent.  While a call is live its frames  *)
(* lie on one tape: those sent to the client, the one in the relay's hand, *)
(* those in the channel, the one the drain delivers, those on the wire.    *)
(* R counts, per call, the frames the drain has read, and P gives every    *)
(* frame on the wire its place in the script of its call.                  *)
(***************************************************************************)
Taken(c) == IF relay[c].pc = "sending" THEN Len(out[c]) + 1 ELSE Len(out[c])

Clean(c) == Live(c) /\ ~(relay[c].pc = "sending" /\ relay[c].item = "error")

\* The first j events of the channel are all frames of the device.
Whole(c, j) == \A k \in 1..j : chan[c][k] # "failed"

Faithful(c) ==
    \A i \in 1..Len(out[c]) :
       Shown(c, i) /\ out[c][i] # "error" =>
          i \in 1..Len(script[c]) /\ out[c][i] = script[c][i]

InHand(c) ==
    relay[c].pc = "sending" =>
       Taken(c) \in 1..Len(script[c]) /\ relay[c].item = script[c][Taken(c)]

InChannel(c) ==
    \A j \in 1..Len(chan[c]) : Whole(c, j) =>
       Taken(c) + j <= Len(script[c]) /\ chan[c][j] = script[c][Taken(c) + j]

\* The drain is at the frame that follows, unless the call lost its entry.
UpTo(c, n) ==
    Whole(c, Len(chan[c])) =>
       /\ drain.call = c => n = Taken(c) + Len(chan[c]) + 1
       /\ c \in entries /\ drain.call # c => n = Taken(c) + Len(chan[c])

TapeOf(c, n) ==
    /\ n \in 0..Len(script[c])
    /\ relay[c].pc \in {"absent", "registered"} => script[c] = << >>
    /\ drain.call = c => n > 0 /\ drain.event = Classify(script[c][n])
    /\ Faithful(c)
    /\ Clean(c) => InHand(c) /\ InChannel(c) /\ UpTo(c, n)

WireOf(R, P) ==
    /\ \A k \in 1..Len(wire) :
         /\ P[k] \in (R[wire[k][1]] + 1)..Len(script[wire[k][1]])
         /\ script[wire[k][1]][P[k]] = wire[k][2]
    /\ \A k, l \in 1..Len(wire) : k < l /\ wire[k][1] = wire[l][1] => P[k] < P[l]
    /\ \A c \in Stream : \A n \in (R[c] + 1)..Len(script[c]) :
         \E k \in 1..Len(wire) : wire[k][1] = c /\ P[k] = n

TapeInv ==
    \E R \in [Stream -> Nat] :
       /\ \E P \in [1..Len(wire) -> Nat] : WireOf(R, P)
       /\ \A c \in Stream : TapeOf(c, R[c])

\* The types of a call's tape.
LEMMA TapeTypes ==
    ASSUME TypeInv, NEW c \in Stream
    PROVE  /\ out[c] \in Seq(Item) /\ Len(out[c]) \in Nat
           /\ chan[c] \in Seq(Event) /\ Len(chan[c]) \in Nat
           /\ script[c] \in Seq(DeviceFrame) /\ Len(script[c]) \in Nat
           /\ relay[c].item \in Item
           /\ Taken(c) \in Nat
<1>1. /\ out[c] \in Seq(Item) /\ chan[c] \in Seq(Event) /\ script[c] \in Seq(DeviceFrame)
      /\ relay[c] \in RelayRecord
  BY DEF TypeInv, TypeOK
<1>2. Len(out[c]) \in Nat /\ Len(chan[c]) \in Nat /\ Len(script[c]) \in Nat /\ relay[c].item \in Item
  BY <1>1 DEF RelayRecord
<1>3. Taken(c) \in Nat BY <1>2 DEF Taken
<1> QED BY <1>1, <1>2, <1>3

\* A frame is put on the wire.
LEMMA WirePushes ==
    ASSUME TypeInv, NEW R \in [Stream -> Nat], NEW P \in [1..Len(wire) -> Nat], WireOf(R, P),
           NEW c \in Stream, NEW f \in DeviceFrame, R[c] <= Len(script[c]),
           wire' = Append(wire, <<c, f>>),
           script' = [script EXCEPT ![c] = Append(@, f)]
    PROVE  \E Q \in [1..Len(wire') -> Nat] : WireOf(R, Q)'
<1>1. wire \in Seq(Stream \X DeviceFrame) /\ Len(wire) \in Nat
      /\ script \in [Stream -> Seq(DeviceFrame)]
      /\ \A d \in Stream : Len(script[d]) \in Nat
  BY DEF TypeInv, TypeOK
<1>2. PICK m, n : m = Len(wire) /\ n = Len(script[c]) + 1 OBVIOUS
<1>3. m \in Nat /\ n \in Nat BY <1>1, <1>2
<1>4. PICK Q : Q = [k \in 1..(m + 1) |-> IF k <= m THEN P[k] ELSE n] OBVIOUS
<1>5. Len(wire') = m + 1 /\ wire'[m + 1] = <<c, f>> /\ \A k \in 1..m : wire'[k] = wire[k]
  BY <1>1, <1>2
<1>6. /\ Len(script'[c]) = n /\ script'[c][n] = f
      /\ \A i \in 1..(n - 1) : script'[c][i] = script[c][i]
      /\ \A d \in Stream \ {c} : script'[d] = script[d]
  BY <1>1, <1>2
<1>7. Q \in [1..Len(wire') -> Nat] /\ Q[m + 1] = n /\ \A k \in 1..m : Q[k] = P[k]
  BY <1>2, <1>3, <1>4, <1>5
<1>8. \A k \in 1..m : wire[k][1] \in Stream BY <1>1, <1>2
<1>9. ASSUME NEW k \in 1..m
      PROVE  /\ P[k] \in (R[wire[k][1]] + 1)..Len(script[wire[k][1]])
             /\ script[wire[k][1]][P[k]] = wire[k][2]
             /\ P[k] \in Nat
  BY <1>2 DEF WireOf
<1>10. ASSUME NEW k \in 1..(m + 1)
       PROVE  /\ Q[k] \in (R[wire'[k][1]] + 1)..Len(script'[wire'[k][1]])
              /\ script'[wire'[k][1]][Q[k]] = wire'[k][2]
  <2>1. CASE k = m + 1
    <3>1. wire'[k][1] = c /\ wire'[k][2] = f /\ Q[k] = n BY <1>5, <1>7, <2>1
    <3>2. n \in (R[c] + 1)..n BY <1>1, <1>2
    <3> QED BY <1>6, <3>1, <3>2
  <2>2. CASE k \in 1..m
    <3>1. wire'[k] = wire[k] /\ Q[k] = P[k] BY <1>5, <1>7, <2>2
    <3>2. PICK d \in Stream : d = wire[k][1] BY <1>8, <2>2
    <3>3. P[k] \in (R[d] + 1)..Len(script[d]) /\ script[d][P[k]] = wire[k][2]
      BY <1>9, <2>2, <3>2
    <3>4. Len(script[d]) <= Len(script'[d]) /\ script'[d][P[k]] = script[d][P[k]]
      BY <1>1, <1>2, <1>6, <3>3
    <3>5. P[k] \in (R[d] + 1)..Len(script'[d])
      BY <1>1, <1>2, <1>3, <1>6, <3>3, <3>4
    <3> QED BY <3>1, <3>2, <3>3, <3>4, <3>5
  <2>3. k = m + 1 \/ k \in 1..m BY <1>3
  <2> QED BY <2>1, <2>2, <2>3
<1>11. ASSUME NEW k \in 1..(m + 1), NEW l \in 1..(m + 1), k < l, wire'[k][1] = wire'[l][1]
       PROVE  Q[k] < Q[l]
  <2>1. k \in 1..m BY <1>3, <1>11
  <2>2. CASE l = m + 1
    <3>1. wire[k][1] = c BY <1>5, <1>11, <2>1, <2>2
    <3>2. P[k] <= Len(script[c]) /\ P[k] \in Nat BY <1>1, <1>9, <2>1, <3>1
    <3> QED BY <1>1, <1>2, <1>7, <2>1, <2>2, <3>2
  <2>3. CASE l \in 1..m
    <3>1. wire[k][1] = wire[l][1] BY <1>5, <1>11, <2>1, <2>3
    <3> QED BY <1>2, <1>7, <1>11, <2>1, <2>3, <3>1 DEF WireOf
  <2> QED BY <1>3, <2>2, <2>3
<1>12. ASSUME NEW d \in Stream, NEW i \in (R[d] + 1)..Len(script'[d])
       PROVE  \E k \in 1..(m + 1) : wire'[k][1] = d /\ Q[k] = i
  <2>1. CASE d = c /\ i = n
    <3>1. m + 1 \in 1..(m + 1) /\ wire'[m + 1][1] = d /\ Q[m + 1] = i BY <1>3, <1>5, <1>7, <2>1
    <3> QED BY <3>1
  <2>2. CASE ~(d = c /\ i = n)
    <3>1. i \in (R[d] + 1)..Len(script[d]) BY <1>1, <1>2, <1>6, <2>2
    <3>2. PICK k \in 1..m : wire[k][1] = d /\ P[k] = i BY <1>2, <3>1 DEF WireOf
    <3>3. k \in 1..(m + 1) /\ wire'[k][1] = d /\ Q[k] = i BY <1>3, <1>5, <1>7, <3>2
    <3> QED BY <3>3
  <2> QED BY <2>1, <2>2
<1>13. WireOf(R, Q)'
  <2>1. \A k \in 1..Len(wire') :
          /\ Q[k] \in (R[wire'[k][1]] + 1)..Len(script'[wire'[k][1]])
          /\ script'[wire'[k][1]][Q[k]] = wire'[k][2]
    BY <1>5, <1>10
  <2>2. \A k, l \in 1..Len(wire') : k < l /\ wire'[k][1] = wire'[l][1] => Q[k] < Q[l]
    BY <1>5, <1>11
  <2>3. \A d \in Stream : \A i \in (R[d] + 1)..Len(script'[d]) :
          \E k \in 1..Len(wire') : wire'[k][1] = d /\ Q[k] = i
    <3> SUFFICES ASSUME NEW d \in Stream, NEW i \in (R[d] + 1)..Len(script'[d])
                 PROVE  \E k \in 1..Len(wire') : wire'[k][1] = d /\ Q[k] = i
      OBVIOUS
    <3>1. PICK k \in 1..(m + 1) : wire'[k][1] = d /\ Q[k] = i BY <1>12
    <3> QED BY <1>5, <3>1
  <2> QED BY <2>1, <2>2, <2>3 DEF WireOf
<1> QED BY <1>7, <1>13

\* The drain takes the first frame off the wire: the next one of its call.
LEMMA WirePops ==
    ASSUME TypeInv, NEW R \in [Stream -> Nat], NEW P \in [1..Len(wire) -> Nat], WireOf(R, P),
           NEW c \in Stream, NEW f, wire # << >>, Head(wire) = <<c, f>>, NEW S,
           S = [R EXCEPT ![c] = R[c] + 1], wire' = Tail(wire), script' = script
    PROVE  /\ R[c] + 1 \in 1..Len(script[c]) /\ script[c][R[c] + 1] = f
           /\ \E Q \in [1..Len(wire') -> Nat] : WireOf(S, Q)'
<1>0. wire \in Seq(Stream \X DeviceFrame) /\ script \in [Stream -> Seq(DeviceFrame)]
  BY DEF TypeInv, TypeOK
<1>1. wire \in Seq(Stream \X DeviceFrame) /\ Len(wire) \in Nat
      /\ \A d \in Stream : Len(script[d]) \in Nat
  BY <1>0
<1>2. PICK m : m = Len(wire) OBVIOUS
<1>3. m \in Nat /\ m > 0 /\ wire[1] = <<c, f>> BY <1>1, <1>2
<1>4. wire[1][1] = c /\ wire[1][2] = f BY <1>3
<1>5. P[1] \in (R[c] + 1)..Len(script[c]) /\ script[c][P[1]] = f
  BY <1>2, <1>3, <1>4 DEF WireOf
<1>6. P[1] = R[c] + 1
  <2>1. R[c] + 1 \in (R[c] + 1)..Len(script[c]) BY <1>1, <1>5
  <2>2. PICK k \in 1..m : wire[k][1] = c /\ P[k] = R[c] + 1 BY <1>2, <2>1 DEF WireOf
  <2>3. k > 1 => P[1] < P[k] BY <1>2, <1>3, <1>4, <2>2 DEF WireOf
  <2> QED BY <1>1, <1>3, <1>5, <2>2, <2>3
<1>7. PICK Q : Q = [k \in 1..(m - 1) |-> P[k + 1]] OBVIOUS
<1>8. Len(wire') = m - 1 /\ \A k \in 1..(m - 1) : wire'[k] = wire[k + 1] BY <1>1, <1>2, <1>3
<1>9. Q \in [1..(m - 1) -> Nat] /\ \A k \in 1..(m - 1) : Q[k] = P[k + 1] BY <1>2, <1>3, <1>7
<1>10. \A k \in 1..(m - 1) : k + 1 \in 1..m /\ k + 1 > 1 BY <1>3
<1>11. S[c] = R[c] + 1 /\ \A d \in Stream \ {c} : S[d] = R[d] OBVIOUS
<1>12. ASSUME NEW k \in 1..(m - 1)
       PROVE  /\ Q[k] \in (S[wire'[k][1]] + 1)..Len(script'[wire'[k][1]])
              /\ script'[wire'[k][1]][Q[k]] = wire'[k][2]
  <2>1. PICK d \in Stream : d = wire[k + 1][1] BY <1>1, <1>2, <1>10
  <2>2. wire'[k] = wire[k + 1] /\ Q[k] = P[k + 1] BY <1>8, <1>9
  <2>3. P[k + 1] \in (R[d] + 1)..Len(script[d]) /\ script[d][P[k + 1]] = wire[k + 1][2]
    BY <1>2, <1>10, <2>1 DEF WireOf
  <2>4. ASSUME d = c PROVE P[1] < P[k + 1]
    <3>1. 1 \in 1..m /\ k + 1 \in 1..m /\ 1 < k + 1 BY <1>3, <1>10
    <3>2. wire[1][1] = wire[k + 1][1] BY <1>4, <2>1, <2>4
    <3> QED BY <1>2, <3>1, <3>2 DEF WireOf
  <2>5. P[k + 1] \in (S[d] + 1)..Len(script[d])
    <3>1. R[d] \in Nat /\ Len(script[d]) \in Nat /\ P[k + 1] \in Nat BY <1>1, <1>2, <1>10
    <3>2. CASE d = c BY <1>6, <1>11, <2>3, <2>4, <3>1, <3>2
    <3>3. CASE d # c BY <1>11, <2>3, <3>1, <3>3
    <3> QED BY <3>2, <3>3
  <2> QED BY <2>1, <2>2, <2>3, <2>5
<1>13. ASSUME NEW k \in 1..(m - 1), NEW l \in 1..(m - 1), k < l, wire'[k][1] = wire'[l][1]
       PROVE  Q[k] < Q[l]
  <2>1. wire[k + 1][1] = wire[l + 1][1] /\ k + 1 < l + 1 BY <1>3, <1>8, <1>13
  <2>2. P[k + 1] < P[l + 1] BY <1>2, <1>10, <2>1 DEF WireOf
  <2> QED BY <1>9, <2>2
<1>14. ASSUME NEW d \in Stream, NEW i \in (S[d] + 1)..Len(script[d])
       PROVE  \E k \in 1..(m - 1) : wire'[k][1] = d /\ Q[k] = i
  <2>1. i \in (R[d] + 1)..Len(script[d]) /\ (d = c => i # R[c] + 1) BY <1>1, <1>11
  <2>2. PICK k \in 1..m : wire[k][1] = d /\ P[k] = i BY <1>2, <2>1 DEF WireOf
  <2>3. k # 1 BY <1>4, <1>6, <2>1, <2>2
  <2>4. k - 1 \in 1..(m - 1) /\ (k - 1) + 1 = k BY <1>3, <2>2, <2>3
  <2>5. wire'[k - 1] = wire[k] /\ Q[k - 1] = P[k] BY <1>8, <1>9, <2>4
  <2> QED BY <2>2, <2>4, <2>5
<1>15. WireOf(S, Q)'
  <2>1. \A k \in 1..Len(wire') :
          /\ Q[k] \in (S[wire'[k][1]] + 1)..Len(script'[wire'[k][1]])
          /\ script'[wire'[k][1]][Q[k]] = wire'[k][2]
    BY <1>8, <1>12
  <2>2. \A k, l \in 1..Len(wire') : k < l /\ wire'[k][1] = wire'[l][1] => Q[k] < Q[l]
    BY <1>8, <1>13
  <2>3. \A d \in Stream : \A i \in (S[d] + 1)..Len(script'[d]) :
          \E k \in 1..Len(wire') : wire'[k][1] = d /\ Q[k] = i
    <3> SUFFICES ASSUME NEW d \in Stream, NEW i \in (S[d] + 1)..Len(script'[d])
                 PROVE  \E k \in 1..Len(wire') : wire'[k][1] = d /\ Q[k] = i
      OBVIOUS
    <3>1. PICK k \in 1..(m - 1) : wire'[k][1] = d /\ Q[k] = i BY <1>14
    <3> QED BY <1>8, <3>1
  <2> QED BY <2>1, <2>2, <2>3 DEF WireOf
<1>16. R[c] + 1 \in 1..Len(script[c]) BY <1>1, <1>5
<1> QED BY <1>5, <1>6, <1>8, <1>9, <1>15, <1>16

LEMMA WireStays ==
    ASSUME NEW R, NEW P, WireOf(R, P), UNCHANGED <<wire, script>>
    PROVE  WireOf(R, P)'
BY DEF WireOf

\* Nothing moves on the tape of the call; the drain may be done with it.
LEMMA TapeRests ==
    ASSUME TypeInv, NEW c \in Stream, NEW n, NEW m, TapeOf(c, n), RelayStays(c),
           chan'[c] = chan[c], script'[c] = script[c],
           \/ /\ m = n
              /\ drain'.call = c => drain' = drain
              /\ c \in entries' /\ drain'.call # c => c \in entries /\ drain.call # c
           \/ m \in 0..Len(script[c]) /\ drain'.call # c /\ c \notin entries'
    PROVE  TapeOf(c, m)'
<1>1. Taken(c)' = Taken(c) BY DEF Taken, RelayStays
<1>2. (Clean(c)' <=> Clean(c)) /\ (Faithful(c)' <=> Faithful(c))
  BY DEF Clean, Live, NoError, RelayStays, Faithful, Shown
<1>3. \A j : Whole(c, j)' <=> Whole(c, j) BY DEF Whole
<1>4. (InHand(c)' <=> InHand(c)) /\ (InChannel(c)' <=> InChannel(c))
  BY <1>1, <1>3 DEF InHand, InChannel, RelayStays
<1>5. Whole(c, Len(chan[c]))' <=> Whole(c, Len(chan[c])) BY DEF Whole
<1>6. UpTo(c, n) => UpTo(c, m)' BY <1>1, <1>5 DEF UpTo
<1>7. m \in 0..Len(script[c]) BY DEF TapeOf
<1>8. relay'[c].pc \in {"absent", "registered"} => script[c] = << >> BY DEF TapeOf, RelayStays
<1>9. drain'.call = c => m > 0 /\ drain'.event = Classify(script[c][m]) BY DEF TapeOf
<1> QED BY <1>2, <1>4, <1>6, <1>7, <1>8, <1>9 DEF TapeOf

\* The device sends a frame of the call.
LEMMA TapeGrows ==
    ASSUME TypeInv, NEW c \in Stream, NEW n, TapeOf(c, n), RelayStays(c), NEW f \in DeviceFrame,
           relay[c].pc \notin {"absent", "registered"},
           chan'[c] = chan[c], script'[c] = Append(script[c], f),
           UNCHANGED <<drain, entries>>
    PROVE  TapeOf(c, n)'
<1>0. /\ script[c] \in Seq(DeviceFrame) /\ Len(script[c]) \in Nat /\ Taken(c) \in Nat
      /\ Len(chan[c]) \in Nat
  BY TapeTypes
<1>1. Taken(c)' = Taken(c) BY DEF Taken, RelayStays
<1>2. Clean(c)' <=> Clean(c) BY DEF Clean, Live, NoError, RelayStays
<1>3. \A j : Whole(c, j)' <=> Whole(c, j) BY DEF Whole
<1>4. Len(script'[c]) = Len(script[c]) + 1 /\ \A i \in 1..Len(script[c]) : script'[c][i] = script[c][i]
  BY <1>0
<1>5. Faithful(c)' BY <1>0, <1>4 DEF Faithful, TapeOf, Shown, RelayStays
<1>6. InHand(c) => InHand(c)' BY <1>0, <1>1, <1>4 DEF InHand, RelayStays
<1>7. InChannel(c) => InChannel(c)'
  <2> SUFFICES ASSUME InChannel(c), NEW j \in 1..Len(chan[c]), Whole(c, j)
               PROVE  Taken(c) + j <= Len(script'[c]) /\ chan[c][j] = script'[c][Taken(c) + j]
    BY <1>1, <1>3 DEF InChannel
  <2>1. Taken(c) + j <= Len(script[c]) /\ chan[c][j] = script[c][Taken(c) + j] BY DEF InChannel
  <2>2. Taken(c) + j \in 1..Len(script[c]) BY <1>0, <2>1
  <2> QED BY <1>0, <1>4, <2>1, <2>2
<1>8. Whole(c, Len(chan[c]))' <=> Whole(c, Len(chan[c])) BY DEF Whole
<1>9. UpTo(c, n) => UpTo(c, n)' BY <1>1, <1>8 DEF UpTo
<1>10. n \in 0..Len(script'[c]) BY <1>0, <1>4 DEF TapeOf
<1>11. drain'.call = c => n > 0 /\ drain'.event = Classify(script'[c][n])
  BY <1>0, <1>4 DEF TapeOf
<1>12. relay'[c].pc \notin {"absent", "registered"} BY DEF RelayStays
<1> QED BY <1>2, <1>5, <1>6, <1>7, <1>9, <1>10, <1>11, <1>12 DEF TapeOf

\* The drain reads a frame of a call that has its entry.
LEMMA TapeReads ==
    ASSUME TypeInv, NEW c \in Stream, NEW n, NEW m, TapeOf(c, n), RelayStays(c), m = n + 1,
           m \in 1..Len(script[c]),
           c \in entries, drain.call # c, drain'.call = c, drain'.event = Classify(script[c][m]),
           chan'[c] = chan[c], script'[c] = script[c]
    PROVE  TapeOf(c, m)'
<1>0. Len(script[c]) \in Nat /\ Taken(c) \in Nat /\ Len(chan[c]) \in Nat BY TapeTypes
<1>1. Taken(c)' = Taken(c) BY DEF Taken, RelayStays
<1>2. (Clean(c)' <=> Clean(c)) /\ (Faithful(c)' <=> Faithful(c))
  BY DEF Clean, Live, NoError, RelayStays, Faithful, Shown
<1>3. \A j : Whole(c, j)' <=> Whole(c, j) BY DEF Whole
<1>4. (InHand(c)' <=> InHand(c)) /\ (InChannel(c)' <=> InChannel(c))
  BY <1>1, <1>3 DEF InHand, InChannel, RelayStays
<1>5. Whole(c, Len(chan[c]))' <=> Whole(c, Len(chan[c])) BY DEF Whole
<1>6. UpTo(c, n) => UpTo(c, m)' BY <1>0, <1>1, <1>5 DEF UpTo
<1>7. m \in 0..Len(script[c]) /\ m > 0 BY <1>0
<1>8. relay'[c].pc \in {"absent", "registered"} => script[c] = << >> BY DEF TapeOf, RelayStays
<1> QED BY <1>2, <1>4, <1>6, <1>7, <1>8 DEF TapeOf

\* An event is put into the channel: the drain's, or one that is no frame.
LEMMA TapeFills ==
    ASSUME TypeInv, NEW c \in Stream, NEW n, TapeOf(c, n), RelayStays(c), NEW e,
           chan'[c] = Append(chan[c], e), script'[c] = script[c],
           \/ drain.call = c /\ e = drain.event /\ drain'.call # c
           \/ e = "failed" /\ drain' = drain
    PROVE  TapeOf(c, n)'
<1>0. /\ Len(script[c]) \in Nat /\ Taken(c) \in Nat /\ Len(chan[c]) \in Nat
      /\ chan[c] \in Seq(Event) /\ script[c] \in Seq(DeviceFrame)
  BY TapeTypes
<1>1. Taken(c)' = Taken(c) BY DEF Taken, RelayStays
<1>2. (Clean(c)' <=> Clean(c)) /\ (Faithful(c)' <=> Faithful(c)) /\ (InHand(c)' <=> InHand(c))
  BY <1>1 DEF Clean, Live, NoError, RelayStays, Faithful, Shown, InHand
<1>3. PICK l : l = Len(chan[c]) OBVIOUS
<1>4. l \in Nat /\ Len(chan'[c]) = l + 1 /\ chan'[c][l + 1] = e
      /\ \A k \in 1..l : chan'[c][k] = chan[c][k]
  BY <1>0, <1>3
<1>5. \A j \in 1..l : Whole(c, j)' => Whole(c, j) BY <1>4 DEF Whole
<1>6. \A j : j = l + 1 /\ Whole(c, j)' => Whole(c, l) /\ e # "failed"
  BY <1>4 DEF Whole
<1>7. e # "failed" /\ Clean(c) /\ Whole(c, l) =>
        n = Taken(c) + l + 1 /\ e = script[c][n] /\ n \in 1..Len(script[c])
  <2> SUFFICES ASSUME e # "failed", Clean(c), Whole(c, l)
               PROVE  n = Taken(c) + l + 1 /\ e = script[c][n] /\ n \in 1..Len(script[c])
    OBVIOUS
  <2>1. drain.call = c /\ e = drain.event OBVIOUS
  <2>2. n = Taken(c) + l + 1 BY <1>3, <2>1 DEF TapeOf, UpTo
  <2>3. e = Classify(script[c][n]) /\ n \in 1..Len(script[c]) BY <1>0, <2>1 DEF TapeOf
  <2> QED BY <2>2, <2>3 DEF Classify
<1>8. Clean(c) => InChannel(c)'
  <2> SUFFICES ASSUME Clean(c), NEW j \in 1..(l + 1), Whole(c, j)'
               PROVE  Taken(c) + j <= Len(script[c]) /\ chan'[c][j] = script[c][Taken(c) + j]
    BY <1>1, <1>4 DEF InChannel
  <2>1. CASE j \in 1..l
    <3>1. Whole(c, j) BY <1>5, <2>1
    <3> QED BY <1>3, <1>4, <2>1, <3>1 DEF TapeOf, InChannel
  <2>2. CASE j = l + 1
    <3>1. Whole(c, l) /\ e # "failed" BY <1>6, <2>2
    <3> QED BY <1>0, <1>4, <1>7, <2>2, <3>1
  <2>3. j \in 1..l \/ j = l + 1 BY <1>4
  <2> QED BY <2>1, <2>2, <2>3
<1>9. Clean(c) => UpTo(c, n)'
  <2> SUFFICES ASSUME Clean(c), Whole(c, Len(chan[c]))'
               PROVE  /\ drain'.call = c => n = Taken(c) + (l + 1) + 1
                      /\ c \in entries' /\ drain'.call # c => n = Taken(c) + (l + 1)
    BY <1>1, <1>4 DEF UpTo
  <2>1. Whole(c, l) /\ e # "failed" BY <1>4 DEF Whole
  <2>2. drain'.call # c BY <2>1
  <2>3. n = Taken(c) + l + 1 BY <1>7, <2>1
  <2>4. Taken(c) + l + 1 = Taken(c) + (l + 1) BY <1>0, <1>4
  <2> QED BY <2>2, <2>3, <2>4
<1>10. /\ n \in 0..Len(script[c])
       /\ relay'[c].pc \in {"absent", "registered"} => script[c] = << >>
       /\ drain'.call = c => n > 0 /\ drain'.event = Classify(script[c][n])
  BY DEF TapeOf, RelayStays
<1>11. Faithful(c) /\ (Clean(c) => InHand(c)) BY DEF TapeOf
<1> QED BY <1>2, <1>8, <1>9, <1>10, <1>11 DEF TapeOf

\* What was shown stays faithful when an error follows.
LEMMA TapeQuits ==
    ASSUME TypeInv, NEW c \in Stream, NEW n, TapeOf(c, n), RelayQuits(c),
           UNCHANGED <<script, drain>>
    PROVE  TapeOf(c, n)'
<1>0. out[c] \in Seq(Item) /\ Len(out[c]) \in Nat BY TapeTypes
<1>1. ~Clean(c)' BY DEF RelayQuits, Clean, Live
<1>2. Faithful(c)'
  <2>1. CASE out'[c] = out[c] BY <2>1 DEF TapeOf, Faithful, Shown
  <2>2. CASE out'[c] = Append(out[c], "error")
    <3>1. /\ Len(out'[c]) = Len(out[c]) + 1 /\ out'[c][Len(out[c]) + 1] = "error"
          /\ \A i \in 1..Len(out[c]) : out'[c][i] = out[c][i] /\ (Shown(c, i)' => Shown(c, i))
      BY <1>0, <2>2, ShownStays DEF Item
    <3> SUFFICES ASSUME NEW i \in 1..Len(out'[c]), Shown(c, i)', out'[c][i] # "error"
                 PROVE  i \in 1..Len(script[c]) /\ out'[c][i] = script[c][i]
      BY DEF Faithful
    <3>2. i \in 1..Len(out[c]) BY <1>0, <3>1
    <3> QED BY <3>1, <3>2 DEF TapeOf, Faithful
  <2> QED BY <2>1, <2>2 DEF RelayQuits
<1> QED BY <1>1, <1>2 DEF TapeOf, RelayQuits

\* The relay moves on; a call that is registered has sent nothing yet.
LEMMA TapeTurns ==
    ASSUME TypeInv, NEW c \in Stream, NEW n, TapeOf(c, n), RelayTurns(c),
           UNCHANGED <<chan, script, drain>>,
           c \in entries' => c \in entries \/ relay[c].pc = "absent"
    PROVE  TapeOf(c, n)'
<1>0. Len(script[c]) \in Nat /\ Len(chan[c]) \in Nat /\ Len(out[c]) \in Nat BY TapeTypes
<1>1. Taken(c)' = Taken(c) /\ Taken(c) = Len(out[c]) BY DEF Taken, RelayTurns
<1>2. (Clean(c)' => Clean(c)) /\ (Faithful(c)' <=> Faithful(c))
  BY DEF Clean, Live, NoError, RelayTurns, Faithful, Shown
<1>3. \A j : Whole(c, j)' <=> Whole(c, j) BY DEF Whole
<1>4. InHand(c)' /\ (InChannel(c)' <=> InChannel(c))
  BY <1>1, <1>3 DEF InHand, InChannel, RelayTurns
<1>5. Whole(c, Len(chan[c]))' <=> Whole(c, Len(chan[c])) BY DEF Whole
<1>6. Clean(c) /\ UpTo(c, n) => UpTo(c, n)'
  <2>1. CASE c \in entries' => c \in entries BY <1>1, <1>5, <2>1 DEF UpTo
  <2>2. CASE relay[c].pc = "absent"
    <3> SUFFICES ASSUME Clean(c), Whole(c, Len(chan[c]))
                 PROVE  /\ drain.call # c
                        /\ n = Taken(c) + Len(chan[c])
      BY <1>1, <1>5 DEF UpTo
    <3>1. script[c] = << >> /\ Len(script[c]) = 0 BY <2>2 DEF TapeOf
    <3>2. n = 0 /\ drain.call # c BY <3>1 DEF TapeOf
    <3>3. Len(out[c]) = 0
      <4> SUFFICES ASSUME Len(out[c]) # 0 PROVE FALSE OBVIOUS
      <4>1. 1 \in 1..Len(out[c]) BY <1>0
      <4>2. Shown(c, 1) BY DEF Shown
      <4>3. out[c][1] # "error" BY <4>1 DEF Clean, Live, NoError
      <4> QED BY <3>1, <4>1, <4>2, <4>3 DEF TapeOf, Faithful
    <3>4. Len(chan[c]) = 0
      <4> SUFFICES ASSUME Len(chan[c]) # 0 PROVE FALSE OBVIOUS
      <4>1. 1 \in 1..Len(chan[c]) BY <1>0
      <4>2. Whole(c, 1) BY <1>0, <4>1 DEF Whole
      <4>3. Taken(c) + 1 <= Len(script[c]) BY <4>1, <4>2 DEF TapeOf, InChannel
      <4> QED BY <1>0, <1>1, <3>1, <4>3
    <3> QED BY <1>1, <3>2, <3>3, <3>4
  <2> QED BY <2>1, <2>2
<1>7. relay'[c].pc \in {"absent", "registered"} => script[c] = << >> BY DEF TapeOf, RelayTurns
<1> QED BY <1>2, <1>4, <1>6, <1>7 DEF TapeOf

\* The relay takes the head of the channel into its hand.
LEMMA TapeTakes ==
    ASSUME TypeInv, NEW c \in Stream, NEW n, TapeOf(c, n), RelayTakes(c),
           chan'[c] = Tail(chan[c]), UNCHANGED <<script, drain>>,
           c \in entries' => c \in entries
    PROVE  TapeOf(c, n)'
<1>0. /\ Len(script[c]) \in Nat /\ Len(chan[c]) \in Nat /\ Len(out[c]) \in Nat
      /\ chan[c] \in Seq(Event)
  BY TapeTypes
<1>1. /\ relay[c].pc = "reading" /\ relay'[c].pc = "sending" /\ chan[c] # << >>
      /\ out'[c] = out[c]
  BY DEF RelayTakes
<1>2. PICK t : t = Taken(c) OBVIOUS
<1>3. t = Len(out[c]) /\ t \in Nat /\ Taken(c)' = t + 1 BY <1>0, <1>1, <1>2 DEF Taken
<1>4. PICK l : l = Len(chan[c]) OBVIOUS
<1>5. /\ l \in Nat /\ l > 0 /\ Len(chan'[c]) = l - 1
      /\ \A k \in 1..(l - 1) : chan'[c][k] = chan[c][k + 1]
      /\ chan[c][1] = Head(chan[c]) /\ chan[c][1] \in Event
  BY <1>0, <1>1, <1>4
<1>6. Faithful(c)' BY <1>1 DEF TapeOf, Faithful, Shown
<1>7. PICK ok \in BOOLEAN : relay'[c].item = Verdict(c, Head(chan[c]), ok) BY DEF RelayTakes
<1>8. relay'[c].item # "error" => chan[c][1] # "failed" /\ relay'[c].item = chan[c][1]
  BY <1>5, <1>7 DEF Verdict, Event
<1>9. Clean(c)' => Clean(c) /\ relay'[c].item # "error"
  BY <1>1 DEF Clean, Live, NoError, RelayTakes
<1>10. ASSUME Clean(c)' PROVE InHand(c)' /\ InChannel(c)' /\ UpTo(c, n)'
  <2>0. Clean(c) /\ chan[c][1] # "failed" /\ relay'[c].item = chan[c][1] BY <1>8, <1>9, <1>10
  <2>1. InChannel(c) /\ UpTo(c, n) BY <2>0 DEF TapeOf
  <2>2. Whole(c, 1) BY <2>0 DEF Whole
  <2>3. 1 \in 1..l BY <1>5
  <2>4. t + 1 <= Len(script[c]) /\ chan[c][1] = script[c][t + 1]
    BY <1>2, <1>4, <2>1, <2>2, <2>3 DEF InChannel
  <2>5. InHand(c)'
    <3>1. t + 1 \in 1..Len(script[c]) BY <1>0, <1>3, <2>4
    <3> QED BY <1>3, <2>0, <2>4, <3>1 DEF InHand
  <2>6. ASSUME NEW j \in 0..(l - 1), Whole(c, j)' PROVE Whole(c, j + 1)
    <3> SUFFICES ASSUME NEW k \in 1..(j + 1) PROVE chan[c][k] # "failed" BY DEF Whole
    <3>1. CASE k = 1 BY <2>0, <3>1
    <3>2. CASE k # 1
      <4>1. k - 1 \in 1..j /\ k - 1 \in 1..(l - 1) /\ (k - 1) + 1 = k BY <1>5, <3>2
      <4>2. chan'[c][k - 1] = chan[c][k] BY <1>5, <4>1
      <4> QED BY <2>6, <4>1, <4>2 DEF Whole
    <3> QED BY <3>1, <3>2
  <2>7. InChannel(c)'
    <3> SUFFICES ASSUME NEW j \in 1..(l - 1), Whole(c, j)'
                 PROVE  /\ t + 1 + j <= Len(script[c])
                        /\ chan'[c][j] = script[c][t + 1 + j]
      BY <1>3, <1>5 DEF InChannel
    <3>1. Whole(c, j + 1) /\ j + 1 \in 1..l BY <1>5, <2>6
    <3>2. t + (j + 1) <= Len(script[c]) /\ chan[c][j + 1] = script[c][t + (j + 1)]
      BY <1>2, <1>4, <2>1, <3>1 DEF InChannel
    <3>3. t \in Nat /\ j \in Nat BY <1>2, <1>5, TapeTypes
    <3>4. t + 1 + j = t + (j + 1) BY <3>3
    <3>5. chan'[c][j] = chan[c][j + 1] BY <1>5
    <3> QED BY <3>2, <3>4, <3>5
  <2>8. UpTo(c, n)'
    <3> SUFFICES ASSUME Whole(c, Len(chan[c]))'
                 PROVE  /\ drain.call = c => n = t + 1 + (l - 1) + 1
                        /\ c \in entries' /\ drain.call # c => n = t + 1 + (l - 1)
      BY <1>3, <1>5 DEF UpTo
    <3>1. PICK j \in 0..(l - 1) : j = l - 1 BY <1>5
    <3>2. Whole(c, j)' BY <1>5, <3>1 DEF Whole
    <3>3. Whole(c, l) BY <1>5, <2>6, <3>1, <3>2
    <3>4. /\ drain.call = c => n = t + l + 1
          /\ c \in entries /\ drain.call # c => n = t + l
      BY <1>2, <1>4, <2>1, <3>3 DEF UpTo
    <3>5. t + 1 + (l - 1) = t + l BY <1>3, <1>5
    <3> QED BY <3>4, <3>5
  <2> QED BY <2>5, <2>7, <2>8
<1> QED BY <1>1, <1>6, <1>10 DEF TapeOf

\* The relay sends what it has in its hand.
LEMMA TapeGives ==
    ASSUME TypeInv, NEW c \in Stream, NEW n, TapeOf(c, n), RelayGives(c),
           UNCHANGED <<script, drain>>,
           relay[c].last \/ (chan'[c] = chan[c] /\ (c \in entries' => c \in entries))
    PROVE  TapeOf(c, n)'
<1>0. out[c] \in Seq(Item) /\ Len(out[c]) \in Nat /\ relay[c].item \in Item BY TapeTypes
<1>1. PICK item \in Item : item = relay[c].item BY <1>0
<1>2. /\ Len(out'[c]) = Len(out[c]) + 1 /\ out'[c][Len(out[c]) + 1] = item
      /\ \A i \in 1..Len(out[c]) : out'[c][i] = out[c][i] /\ (Shown(c, i)' => Shown(c, i))
      /\ \A i : i = Len(out[c]) + 1 /\ Shown(c, i)' => NoError(c)
  BY <1>0, <1>1, ShownStays DEF RelayGives
<1>3. Taken(c) = Len(out[c]) + 1 BY DEF Taken, RelayGives
<1>4. NoError(c) /\ item # "error" => Clean(c) BY <1>1 DEF RelayGives, Clean, Live
<1>5. Clean(c) => Len(out[c]) + 1 \in 1..Len(script[c]) /\ item = script[c][Len(out[c]) + 1]
  BY <1>1, <1>3 DEF TapeOf, InHand, RelayGives
<1>6. Faithful(c)'
  <2> SUFFICES ASSUME NEW i \in 1..Len(out'[c]), Shown(c, i)', out'[c][i] # "error"
               PROVE  i \in 1..Len(script[c]) /\ out'[c][i] = script[c][i]
    BY DEF Faithful
  <2>1. CASE i \in 1..Len(out[c]) BY <1>2, <2>1 DEF TapeOf, Faithful
  <2>2. CASE i = Len(out[c]) + 1 BY <1>2, <1>4, <1>5, <2>2
  <2>3. i \in 1..Len(out[c]) \/ i = Len(out[c]) + 1 BY <1>0, <1>2
  <2> QED BY <2>1, <2>2, <2>3
<1>7. ASSUME Clean(c)' PROVE InHand(c)' /\ InChannel(c)' /\ UpTo(c, n)'
  <2>1. ~relay[c].last /\ relay'[c].pc = "reading" BY <1>7 DEF Clean, Live, RelayGives
  <2>2. NoError(c) /\ item # "error"
    <3>1. Len(out[c]) + 1 \in 1..Len(out'[c]) /\ 1..Len(out[c]) \subseteq 1..Len(out'[c])
      BY <1>0, <1>2
    <3> QED BY <1>2, <1>7, <3>1 DEF Clean, Live, NoError
  <2>3. InChannel(c) /\ UpTo(c, n) BY <1>4, <2>2 DEF TapeOf
  <2>4. Taken(c)' = Taken(c) BY <1>2, <1>3, <2>1 DEF Taken
  <2>5. \A j : Whole(c, j)' <=> Whole(c, j) BY <2>1 DEF Whole
  <2>6. Whole(c, Len(chan[c]))' <=> Whole(c, Len(chan[c])) BY <2>1 DEF Whole
  <2>7. InHand(c)' BY <2>1 DEF InHand
  <2>8. InChannel(c)' BY <2>1, <2>3, <2>4, <2>5 DEF InChannel
  <2>9. UpTo(c, n)' BY <2>1, <2>3, <2>4, <2>6 DEF UpTo
  <2> QED BY <2>7, <2>8, <2>9
<1> QED BY <1>6, <1>7 DEF TapeOf, RelayGives

\* A step at one call only, with nothing read from the wire.
LEMMA TapeAtOne ==
    ASSUME TypeInv, TapeInv, UNCHANGED <<wire, script>>, NEW c \in Stream,
           \A d \in Stream \ {c} :
              /\ RelayStays(d) /\ chan'[d] = chan[d]
              /\ d \in entries' => d \in entries
              /\ drain' = drain \/ (drain'.call # d /\ drain.call # d),
           \A n \in Nat : TapeOf(c, n) => TapeOf(c, n)'
    PROVE  TapeInv'
<1>1. PICK R \in [Stream -> Nat] : /\ \E P \in [1..Len(wire) -> Nat] : WireOf(R, P)
                                   /\ \A d \in Stream : TapeOf(d, R[d])
  BY DEF TapeInv
<1>2. PICK P \in [1..Len(wire) -> Nat] : WireOf(R, P) BY <1>1
<1>3. WireOf(R, P)' BY <1>2, WireStays
<1>4. ASSUME NEW d \in Stream PROVE \A n : n = R[d] => TapeOf(d, n)'
  <2> SUFFICES ASSUME NEW n, n = R[d] PROVE TapeOf(d, n)' OBVIOUS
  <2>1. TapeOf(d, n) /\ n \in Nat BY <1>1
  <2>2. CASE d = c BY <2>1, <2>2
  <2>3. CASE d # c
    <3>1. RelayStays(d) /\ chan'[d] = chan[d] /\ script'[d] = script[d] BY <2>3
    <3>2. /\ drain'.call = d => drain' = drain
          /\ d \in entries' /\ drain'.call # d => d \in entries /\ drain.call # d
      BY <2>3
    <3> QED BY <2>1, <3>1, <3>2, TapeRests
  <2> QED BY <2>2, <2>3
<1>5. \A d \in Stream : TapeOf(d, R[d])' BY <1>4
<1> QED BY <1>3, <1>5 DEF TapeInv

\* TrySend and Send fill one channel, or none.
LEMMA ChannelFills ==
    ASSUME TypeInv, NEW c \in Stream, NEW e, Send(c, e) \/ TrySend(c, e)
    PROVE  /\ \A d \in Stream \ {c} : chan'[d] = chan[d]
           /\ Send(c, e) => chan'[c] = Append(chan[c], e)
           /\ chan'[c] = chan[c] \/ chan'[c] = Append(chan[c], e)
<1>1. chan \in [Stream -> Seq(Event)] BY DEF TypeInv, TypeOK
<1> QED BY <1>1 DEF Send, TrySend

LEMMA DeviceSendTape ==
    ASSUME TypeInv, TapeInv, NEW c \in Stream, NEW f \in Sends, DeviceSend(c, f)
    PROVE  TapeInv'
<1>0. /\ wire' = Append(wire, <<c, f>>) /\ script' = [script EXCEPT ![c] = Append(@, f)]
      /\ UNCHANGED <<entries, chan, drain, relay, out>>
      /\ relay[c].pc \notin {"absent", "registered"}
  BY DEF DeviceSend
<1>1. f \in DeviceFrame BY StreamAssumption DEF DeviceFrame
<1>2. PICK R \in [Stream -> Nat] : /\ \E P \in [1..Len(wire) -> Nat] : WireOf(R, P)
                                   /\ \A d \in Stream : TapeOf(d, R[d])
  BY DEF TapeInv
<1>3. PICK P \in [1..Len(wire) -> Nat] : WireOf(R, P) BY <1>2
<1>4. R[c] <= Len(script[c])
  <2>1. R[c] \in 0..Len(script[c]) /\ Len(script[c]) \in Nat BY <1>2, TapeTypes DEF TapeOf
  <2> QED BY <2>1
<1>5. \E Q \in [1..Len(wire') -> Nat] : WireOf(R, Q)'
  BY <1>0, <1>1, <1>3, <1>4, WirePushes
<1>6. script'[c] = Append(script[c], f) /\ \A d \in Stream \ {c} : script'[d] = script[d]
  BY <1>0 DEF TypeInv, TypeOK
<1>7. ASSUME NEW d \in Stream PROVE \A n : n = R[d] => TapeOf(d, n)'
  <2> SUFFICES ASSUME NEW n, n = R[d] PROVE TapeOf(d, n)' OBVIOUS
  <2>1. TapeOf(d, n) /\ RelayStays(d) /\ chan'[d] = chan[d] BY <1>0, <1>2 DEF RelayStays
  <2>2. CASE d = c BY <1>0, <1>1, <1>6, <2>1, <2>2, TapeGrows
  <2>3. CASE d # c
    <3>1. script'[d] = script[d] /\ drain' = drain /\ entries' = entries BY <1>0, <1>6, <2>3
    <3> QED BY <2>1, <3>1, TapeRests
  <2> QED BY <2>2, <2>3
<1>8. \A d \in Stream : TapeOf(d, R[d])' BY <1>7
<1> QED BY <1>5, <1>8 DEF TapeInv

LEMMA DrainReadTape ==
    ASSUME TypeInv, TapeInv, DrainRead
    PROVE  TapeInv'
<1>0. /\ wire # << >> /\ wire' = Tail(wire) /\ drain = Idle
      /\ UNCHANGED <<chan, script, relay, out>>
  BY DEF DrainRead
<1>1. wire \in Seq(Stream \X DeviceFrame) /\ Head(wire) \in Stream \X DeviceFrame
  BY <1>0 DEF TypeInv, TypeOK
<1>2. PICK c \in Stream, f \in DeviceFrame : Head(wire) = <<c, f>> BY <1>1
<1>3. PICK e : e = Classify(f) OBVIOUS
<1>4. \/ c \notin entries /\ UNCHANGED <<drain, entries>>
      \/ /\ c \in entries /\ drain' = [call |-> c, event |-> e]
         /\ entries' = entries \/ entries' = entries \ {c}
  BY <1>2, <1>3 DEF DrainRead
<1>5. PICK R \in [Stream -> Nat] : /\ \E P \in [1..Len(wire) -> Nat] : WireOf(R, P)
                                   /\ \A d \in Stream : TapeOf(d, R[d])
  BY DEF TapeInv
<1>6. PICK P \in [1..Len(wire) -> Nat] : WireOf(R, P) BY <1>5
<1>7. PICK S : S = [R EXCEPT ![c] = R[c] + 1] OBVIOUS
<1>8. /\ S \in [Stream -> Nat] /\ S[c] = R[c] + 1
      /\ \A d \in Stream \ {c} : S[d] = R[d]
  BY <1>7
<1>9. /\ R[c] + 1 \in 1..Len(script[c]) /\ script[c][R[c] + 1] = f
      /\ \E Q \in [1..Len(wire') -> Nat] : WireOf(S, Q)'
  BY <1>0, <1>2, <1>6, <1>7, WirePops
<1>10. drain.call \notin Stream BY <1>0, StreamAssumption DEF Idle, NoCall
<1>11. ASSUME NEW d \in Stream PROVE \A m : m = S[d] => TapeOf(d, m)'
  <2> SUFFICES ASSUME NEW m, m = S[d] PROVE TapeOf(d, m)' OBVIOUS
  <2>1. PICK n : n = R[d] OBVIOUS
  <2>2. TapeOf(d, n) /\ RelayStays(d) /\ chan'[d] = chan[d] /\ script'[d] = script[d]
    BY <1>0, <1>5, <2>1 DEF RelayStays
  <2>3. CASE d # c
    <3>1. m = n BY <1>8, <2>1, <2>3
    <3>2. drain'.call # d BY <1>4, <1>10, <2>3
    <3>3. d \in entries' => d \in entries BY <1>4
    <3> QED BY <1>10, <2>2, <3>1, <3>2, <3>3, TapeRests
  <2>4. CASE d = c /\ c \notin entries
    <3>1. drain' = drain /\ entries' = entries BY <1>4, <2>4
    <3>2. Len(script[d]) \in Nat /\ m \in 1..Len(script[d])
      BY <1>8, <1>9, <2>4, TapeTypes
    <3>3. m \in 0..Len(script[d]) BY <3>2
    <3> QED BY <1>10, <2>2, <2>4, <3>1, <3>3, TapeRests
  <2>5. CASE d = c /\ c \in entries
    <3>1. drain'.call = d /\ drain'.event = e BY <1>4, <2>5
    <3>2. m = n + 1 /\ m \in 1..Len(script[d]) /\ script[d][m] = f BY <1>8, <1>9, <2>1, <2>5
    <3> QED BY <1>3, <1>10, <2>2, <2>5, <3>1, <3>2, TapeReads
  <2> QED BY <2>3, <2>4, <2>5
<1>12. \A d \in Stream : TapeOf(d, S[d])' BY <1>11
<1> QED BY <1>8, <1>9, <1>12 DEF TapeInv

LEMMA DrainDeliverTape ==
    ASSUME TypeInv, TapeInv, DrainDeliver
    PROVE  TapeInv'
<1>0. /\ drain # Idle /\ drain' = Idle /\ UNCHANGED <<wire, script, relay, out>>
  BY DEF DrainDeliver
<1>1. PICK c \in Stream : c = drain.call
  BY <1>0 DEF TypeInv, TypeOK, DrainIsTargeted
<1>2. drain'.call \notin Stream BY <1>0, StreamAssumption DEF Idle, NoCall
<1>3. \A d \in Stream : RelayStays(d) BY <1>0 DEF RelayStays
<1>4. \/ chan' = chan /\ entries' = entries \ {c}
      \/ Send(c, drain.event) /\ entries' = entries
  BY <1>1 DEF DrainDeliver, DeliverNoMatch, DeliverSent, DeliverStalled
<1>5. /\ \A d \in Stream \ {c} : chan'[d] = chan[d]
      /\ chan' = chan \/ chan'[c] = Append(chan[c], drain.event)
  BY <1>4, ChannelFills
<1>6. ASSUME NEW n \in Nat, TapeOf(c, n) PROVE TapeOf(c, n)'
  <2>1. CASE chan' = chan /\ entries' = entries \ {c}
    BY <1>0, <1>2, <1>3, <1>6, <2>1, TapeRests
  <2>2. CASE Send(c, drain.event)
    <3>1. chan'[c] = Append(chan[c], drain.event) BY <2>2, ChannelFills
    <3> QED BY <1>0, <1>1, <1>2, <1>3, <1>6, <3>1, TapeFills
  <2> QED BY <1>4, <2>1, <2>2
<1>7. \A d \in Stream \ {c} : d \in entries' => d \in entries BY <1>4
<1>8. \A d \in Stream \ {c} : drain'.call # d /\ drain.call # d BY <1>1, <1>2
<1> QED BY <1>0, <1>3, <1>5, <1>6, <1>7, <1>8, TapeAtOne

\* cancel_for and finish take the entry out and may put a failure after it.
LEMMA CutTape ==
    ASSUME TypeInv, TapeInv, NEW c \in Stream, CancelOne(c) \/ CallerFails(c) \/ CallerFinishes(c)
    PROVE  TapeInv'
<1>0. UNCHANGED <<wire, script, drain, relay, out>> /\ entries' \subseteq entries
  BY DEF CancelOne, CallerFails, CallerFinishes
<1>1. chan' = chan \/ TrySend(c, "failed") BY DEF CancelOne, CallerFails, CallerFinishes
<1>2. /\ \A d \in Stream \ {c} : chan'[d] = chan[d]
      /\ chan'[c] = chan[c] \/ chan'[c] = Append(chan[c], "failed")
  BY <1>1, ChannelFills
<1>3. \A d \in Stream : RelayStays(d) BY <1>0 DEF RelayStays
<1>4. ASSUME NEW n \in Nat, TapeOf(c, n) PROVE TapeOf(c, n)'
  <2>1. CASE chan'[c] = chan[c] BY <1>0, <1>3, <1>4, <2>1, TapeRests
  <2>2. CASE chan'[c] = Append(chan[c], "failed") BY <1>0, <1>3, <1>4, <2>2, TapeFills
  <2> QED BY <1>2, <2>1, <2>2
<1> QED BY <1>0, <1>2, <1>3, <1>4, TapeAtOne

\* A step of the call's relay.
LEMMA RelayTape ==
    ASSUME TypeInv, TapeInv, NEW c \in Stream, UNCHANGED <<wire, script, drain>>,
           \A d \in Stream \ {c} : RelayStays(d) /\ chan'[d] = chan[d] /\ (d \in entries' => d \in entries),
           \/ RelayQuits(c)
           \/ RelayTurns(c) /\ chan' = chan /\ (c \in entries' => c \in entries \/ relay[c].pc = "absent")
           \/ RelayTakes(c) /\ chan'[c] = Tail(chan[c]) /\ (c \in entries' => c \in entries)
           \/ /\ RelayGives(c)
              /\ relay[c].last \/ (chan'[c] = chan[c] /\ (c \in entries' => c \in entries))
    PROVE  TapeInv'
<1>1. ASSUME NEW n \in Nat, TapeOf(c, n) PROVE TapeOf(c, n)'
  BY <1>1, TapeQuits, TapeTurns, TapeTakes, TapeGives
<1> QED BY <1>1, TapeAtOne

LEMMA DropHandleAlone ==
    ASSUME TypeInv, NEW c \in Stream, DropHandle(c)
    PROVE  /\ \A d \in Stream \ {c} : chan'[d] = chan[d]
           /\ entries' = entries \ {c}
BY DEF DropHandle, TypeInv, TypeOK

LEMMA TapeStep == TypeInv /\ TapeInv /\ [Next]_vars => TapeInv'
<1> SUFFICES ASSUME TypeInv, TapeInv, [Next]_vars PROVE TapeInv' OBVIOUS
<1>0. TypeOK /\ chan \in [Stream -> Seq(Event)] BY DEF TypeInv, TypeOK
<1>1. ASSUME NEW c \in Stream, OpenFails(c) PROVE TapeInv'
  <2>1. RelayQuits(c) /\ \A d \in Stream \ {c} : RelayStays(d) BY <1>0, <1>1, OpenFailsMoves
  <2>2. UNCHANGED <<wire, script, drain>> /\ DropHandle(c) BY <1>1 DEF OpenFails
  <2> QED BY <2>1, <2>2, RelayTape, DropHandleAlone
<1>2. ASSUME NEW c \in Stream, Register(c) \/ OpenSent(c) \/ RelayCancelSent(c) PROVE TapeInv'
  <2>1. RelayTurns(c) /\ \A d \in Stream \ {c} : RelayStays(d) BY <1>0, <1>2, TurnMoves
  <2>2. /\ UNCHANGED <<wire, script, drain, chan>>
        /\ entries' = entries \/ (entries' = entries \cup {c} /\ relay[c].pc = "absent")
    BY <1>2 DEF Register, OpenSent, RelayCancelSent
  <2> QED BY <2>1, <2>2, RelayTape
<1>3. ASSUME NEW c \in Stream, RelayRecv(c) PROVE TapeInv'
  <2>1. RelayTakes(c) /\ \A d \in Stream \ {c} : RelayStays(d) BY <1>0, <1>3, RecvMoves
  <2>2. UNCHANGED <<wire, script, drain, entries>> /\ chan' = [chan EXCEPT ![c] = Tail(@)]
    BY <1>3 DEF RelayRecv
  <2>3. chan'[c] = Tail(chan[c]) /\ \A d \in Stream \ {c} : chan'[d] = chan[d] BY <1>0, <2>2
  <2> QED BY <2>1, <2>2, <2>3, RelayTape
<1>4. ASSUME NEW c \in Stream, RelaySend(c) PROVE TapeInv'
  <2>1. RelayGives(c) /\ \A d \in Stream \ {c} : RelayStays(d) BY <1>0, <1>4, SendMoves
  <2>2. /\ UNCHANGED <<wire, script, drain>>
        /\ \/ relay[c].last /\ DropHandle(c)
           \/ UNCHANGED <<entries, chan>>
    BY <1>4 DEF RelaySend, AfterSend, Stop
  <2>3. CASE relay[c].last /\ DropHandle(c) BY <2>1, <2>2, <2>3, RelayTape, DropHandleAlone
  <2>4. CASE UNCHANGED <<entries, chan>> BY <2>1, <2>2, <2>4, RelayTape
  <2> QED BY <2>2, <2>3, <2>4
<1>5. ASSUME NEW c \in Stream,
             \/ RelaySkip(c) \/ RelaySendFails(c) \/ RelaySourceClosed(c)
             \/ RelayConsumerClosed(c) \/ RelayDeadline(c) \/ RelayGivesUp(c)
      PROVE  TapeInv'
  <2>1. RelayQuits(c) /\ \A d \in Stream \ {c} : RelayStays(d) BY <1>0, <1>5, QuitMoves
  <2>2. UNCHANGED <<wire, script, drain>> /\ (DropHandle(c) \/ UNCHANGED <<entries, chan>>)
    BY <1>5 DEF RelaySkip, RelaySendFails, RelaySourceClosed, RelayConsumerClosed, RelayDeadline,
                RelayGivesUp, AfterSend, Stop
  <2>3. CASE DropHandle(c) BY <2>1, <2>2, <2>3, RelayTape, DropHandleAlone
  <2>4. CASE UNCHANGED <<entries, chan>> BY <2>1, <2>2, <2>4, RelayTape
  <2> QED BY <2>2, <2>3, <2>4
<1>6. ASSUME UNCHANGED <<entries, chan, wire, script, drain, relay, out>> PROVE TapeInv'
  <2>1. CASE Stream = {}
    <3>1. TapeInv' <=> TapeInv BY <1>6, <2>1 DEF TapeInv, WireOf
    <3> QED BY <3>1
  <2>2. CASE Stream # {}
    <3>1. PICK c \in Stream : TRUE BY <2>2
    <3>2. \A d \in Stream : RelayStays(d) BY <1>6 DEF RelayStays
    <3>3. ASSUME NEW n \in Nat, TapeOf(c, n) PROVE TapeOf(c, n)'
      BY <1>6, <3>2, <3>3, TapeRests
    <3> QED BY <1>6, <3>2, <3>3, TapeAtOne
  <2> QED BY <2>1, <2>2
<1>7. ASSUME NEW c \in Stream, CallerEnds(c) \/ ClientReads(c) \/ ClientLeaves(c) PROVE TapeInv'
  BY <1>6, <1>7 DEF CallerEnds, ClientReads, ClientLeaves
<1>8. CASE GoOffline \/ UNCHANGED vars BY <1>6, <1>8 DEF GoOffline, vars
<1> QED
  BY <1>1, <1>2, <1>3, <1>4, <1>5, <1>7, <1>8, DeviceSendTape, DrainReadTape, DrainDeliverTape,
     CutTape
  DEF Next, RelayStep

LEMMA TapeInit == Init => TapeInv
<1> SUFFICES ASSUME Init PROVE TapeInv OBVIOUS
<1>1. /\ wire = << >> /\ \A c \in Stream : out[c] = << >> /\ chan[c] = << >> /\ script[c] = << >>
      /\ \A c \in Stream : relay[c].pc = "absent" /\ c \notin entries
      /\ drain.call \notin Stream
  BY StreamAssumption DEF Init, NewRelay, Idle, NoCall
<1>2. PICK R \in [Stream -> Nat] : R = [c \in Stream |-> 0] OBVIOUS
<1>3. PICK P \in [1..Len(wire) -> Nat] : P = [k \in 1..Len(wire) |-> 0] OBVIOUS
<1>4. WireOf(R, P) BY <1>1, <1>2 DEF WireOf
<1>5. \A c \in Stream : TapeOf(c, R[c])
  <2> SUFFICES ASSUME NEW c \in Stream PROVE TapeOf(c, R[c]) OBVIOUS
  <2>1. /\ R[c] = 0 /\ Len(out[c]) = 0 /\ Len(chan[c]) = 0 /\ Len(script[c]) = 0
        /\ relay[c].pc = "absent" /\ c \notin entries /\ drain.call # c
    BY <1>1, <1>2
  <2>2. Faithful(c) BY <2>1 DEF Faithful
  <2>3. InHand(c) BY <2>1 DEF InHand
  <2>4. InChannel(c) BY <2>1 DEF InChannel
  <2>5. UpTo(c, R[c]) BY <2>1 DEF UpTo
  <2>6. R[c] \in 0..Len(script[c]) /\ script[c] = << >> BY <1>1, <2>1
  <2> QED BY <2>1, <2>2, <2>3, <2>4, <2>5, <2>6 DEF TapeOf
<1> QED BY <1>4, <1>5 DEF TapeInv

(***************************************************************************)
(* The client of a streamed call is shown a prefix of the frames its       *)
(* device sent, whatever is evicted by deliver_chunk, cancelled by         *)
(* cancel_for, failed by finish or cut by a deadline, and in whatever      *)
(* order they meet the delivery the drain is in the middle of.             *)
(***************************************************************************)
THEOREM StreamsAreFaithful == Spec => []StreamIsFaithful
<1>1. TapeInv => StreamIsFaithful
  BY DEF TapeInv, TapeOf, Faithful, StreamIsFaithful
<1> QED BY <1>1, TapeInit, TapeStep, TypeInvInvariant, PTL DEF Spec

-----------------------------------------------------------------------------
(***************************************************************************)
(* The contract with the client.  What it is shown ends at some place k:   *)
(* the first error, or the last item.                                      *)
(***************************************************************************)
EndsAt(c, k) ==
    /\ k \in 0..Len(out[c])
    /\ \A j \in 1..Len(out[c]) : j < k => out[c][j] # "error"
    /\ k = Len(out[c]) \/ (k > 0 /\ out[c][k] = "error")

ViewInv == \A c \in Stream : \E k \in Nat : EndsAt(c, k)

LEMMA VisibleIs ==
    ASSUME TypeInv, NEW c \in Stream, NEW k \in Nat, EndsAt(c, k)
    PROVE  /\ Visible(c) \in Seq(Item) /\ Len(Visible(c)) = k
           /\ \A i \in 1..k : Visible(c)[i] = out[c][i]
<1>1. out[c] \in Seq(Item) /\ Len(out[c]) \in Nat BY TapeTypes
<1>2. k <= Len(out[c]) BY <1>1 DEF EndsAt
<1>3. ASSUME NEW j \in 1..Len(out[c]) PROVE Shown(c, j) <=> j <= k
  <2>1. CASE j <= k BY <1>1, <1>2, <2>1 DEF EndsAt, Shown
  <2>2. CASE ~(j <= k)
    <3>1. k > 0 /\ out[c][k] = "error" /\ k \in 1..(j - 1) BY <1>1, <2>2 DEF EndsAt
    <3> QED BY <2>2, <3>1 DEF Shown
  <2> QED BY <2>1, <2>2
<1>4. {j \in 1..Len(out[c]) : Shown(c, j)} = 1..k BY <1>1, <1>2, <1>3
<1>5. Visible(c) = [i \in 1..k |-> out[c][i]] BY <1>4 DEF Visible
<1>6. \A i \in 1..k : out[c][i] \in Item BY <1>1, <1>2
<1>7. Visible(c) \in [1..k -> Item] BY <1>5, <1>6
<1>8. Visible(c) \in Seq(Item) /\ Len(Visible(c)) = k BY <1>7
<1> QED BY <1>5, <1>8

\* Without an error, everything sent is shown.
LEMMA AllIsVisible ==
    ASSUME TypeInv, NEW c \in Stream, NoError(c)
    PROVE  EndsAt(c, Len(out[c])) /\ Visible(c) = out[c]
<1>1. out[c] \in Seq(Item) /\ Len(out[c]) \in Nat BY TapeTypes
<1>2. EndsAt(c, Len(out[c])) BY <1>1 DEF EndsAt, NoError
<1>3. /\ Visible(c) \in Seq(Item) /\ Len(Visible(c)) = Len(out[c])
      /\ \A i \in 1..Len(out[c]) : Visible(c)[i] = out[c][i]
  BY <1>1, <1>2, VisibleIs
<1>4. Visible(c) = out[c] BY <1>1, <1>3
<1> QED BY <1>2, <1>4

\* An item after an error is not shown.
LEMMA ErrorHides ==
    ASSUME TypeInv, NEW c \in Stream, NEW x \in Item, ~NoError(c), out'[c] = Append(out[c], x)
    PROVE  Visible(c)' = Visible(c)
<1>1. out[c] \in Seq(Item) /\ Len(out[c]) \in Nat BY TapeTypes
<1>2. PICK e \in 1..Len(out[c]) : out[c][e] = "error" BY DEF NoError
<1>3. Len(out'[c]) = Len(out[c]) + 1 /\ \A j \in 1..Len(out[c]) : out'[c][j] = out[c][j]
  BY <1>1
<1>4. ASSUME NEW j \in 1..Len(out[c]) PROVE Shown(c, j)' <=> Shown(c, j)
  BY <1>1, <1>3 DEF Shown
<1>5. \A j : j = Len(out[c]) + 1 => ~(\A i \in 1..(j - 1) : out'[c][i] # "error")
  BY <1>1, <1>2, <1>3
<1>6. {j \in 1..Len(out'[c]) : \A i \in 1..(j - 1) : out'[c][i] # "error"}
        = {j \in 1..Len(out[c]) : \A i \in 1..(j - 1) : out[c][i] # "error"}
  BY <1>1, <1>3, <1>4, <1>5 DEF Shown
<1>7. PICK D : D = {j \in 1..Len(out[c]) : \A i \in 1..(j - 1) : out[c][i] # "error"} OBVIOUS
<1>8. Visible(c)' = [i \in D |-> out'[c][i]] /\ Visible(c) = [i \in D |-> out[c][i]]
  BY <1>6, <1>7 DEF Visible, Shown
<1>9. \A i \in D : out'[c][i] = out[c][i] BY <1>3, <1>7
<1> QED BY <1>8, <1>9

\* What may be appended keeps a place where the view ends.
LEMMA ViewGrows ==
    ASSUME TypeInv, NEW c \in Stream, NEW x \in Item, out'[c] = Append(out[c], x),
           NEW k \in Nat, EndsAt(c, k)
    PROVE  \E l \in Nat : EndsAt(c, l)'
<1>1. out[c] \in Seq(Item) /\ Len(out[c]) \in Nat BY TapeTypes
<1>2. Len(out'[c]) = Len(out[c]) + 1 /\ \A j \in 1..Len(out[c]) : out'[c][j] = out[c][j]
  BY <1>1
<1>3. CASE k > 0 /\ out[c][k] = "error"
  <2>1. EndsAt(c, k)' BY <1>1, <1>2, <1>3 DEF EndsAt
  <2> QED BY <2>1
<1>4. CASE k = Len(out[c]) /\ ~(k > 0 /\ out[c][k] = "error")
  <2>1. \A j \in 1..Len(out[c]) : out[c][j] # "error" BY <1>1, <1>4 DEF EndsAt
  <2>2. PICK l \in Nat : l = Len(out[c]) + 1 BY <1>1
  <2>3. EndsAt(c, l)' BY <1>1, <1>2, <2>1, <2>2 DEF EndsAt
  <2> QED BY <2>3
<1> QED BY <1>3, <1>4 DEF EndsAt

LEMMA ViewStays ==
    ASSUME NEW c \in Stream, out'[c] = out[c]
    PROVE  /\ Visible(c)' = Visible(c)
           /\ \A k : EndsAt(c, k) => EndsAt(c, k)'
BY DEF Visible, Shown, EndsAt

LEMMA ViewStep == TypeInv /\ ViewInv /\ [Next]_vars => ViewInv'
<1> SUFFICES ASSUME TypeInv, ViewInv, [Next]_vars, NEW c \in Stream
             PROVE  \E k \in Nat : EndsAt(c, k)'
  BY DEF ViewInv
<1>1. PICK k \in Nat : EndsAt(c, k) BY DEF ViewInv
<1>2. RelayStays(c) \/ RelayQuits(c) \/ RelayTurns(c) \/ RelayTakes(c) \/ RelayGives(c)
  BY StreamMoves DEF TypeInv
<1>3. \/ out'[c] = out[c]
      \/ \E x \in Item : out'[c] = Append(out[c], x)
  BY <1>2, TapeTypes DEF RelayStays, RelayQuits, RelayTurns, RelayTakes, RelayGives, Item
<1>4. CASE out'[c] = out[c] BY <1>1, <1>4, ViewStays
<1>5. CASE \E x \in Item : out'[c] = Append(out[c], x) BY <1>1, <1>5, ViewGrows
<1> QED BY <1>3, <1>4, <1>5

\* A view that was concluded ends with the conclusion, and no other does.
LEMMA ConclusionIsLast ==
    ASSUME TypeInv, NEW c \in Stream, OrderOf(c), NEW k \in Nat, EndsAt(c, k)
    PROVE  HasConclusion(c) <=> (Visible(c) # << >> /\ Contract!Final(Visible(c)[Len(Visible(c))]))
<1>1. out[c] \in Seq(Item) /\ Len(out[c]) \in Nat BY TapeTypes
<1>2. /\ Visible(c) \in Seq(Item) /\ Len(Visible(c)) = k
      /\ \A i \in 1..k : Visible(c)[i] = out[c][i]
  BY VisibleIs
<1>3. k \in 0..Len(out[c]) BY DEF EndsAt
<1>4. ASSUME HasConclusion(c) PROVE k > 0 /\ IsLast(out[c][k])
  <2>1. PICK i \in 1..Len(out[c]) : IsLast(out[c][i]) BY <1>4 DEF HasConclusion
  <2>2. CASE k > 0 /\ out[c][k] = "error" BY <2>2 DEF IsLast
  <2>3. CASE k = Len(out[c]) /\ ~(k > 0 /\ out[c][k] = "error")
    <3>1. \A j \in 1..Len(out[c]) : out[c][j] # "error" BY <1>1, <2>3 DEF EndsAt
    <3>2. Shown(c, i) /\ out[c][i] = "terminal" BY <1>1, <2>1, <3>1 DEF Shown, IsLast
    <3>3. i = Len(out[c]) BY <3>2 DEF OrderOf
    <3> QED BY <1>1, <2>1, <2>3, <3>3
  <2> QED BY <2>2, <2>3 DEF EndsAt
<1>5. ASSUME k > 0, IsLast(out[c][k]) PROVE HasConclusion(c)
  BY <1>1, <1>3, <1>5 DEF HasConclusion
<1>6. Visible(c) # << >> <=> k > 0 BY <1>2
<1>7. k > 0 => (Contract!Final(Visible(c)[Len(Visible(c))]) <=> IsLast(out[c][k]))
  <2>1. k > 0 => Visible(c)[Len(Visible(c))] = out[c][k] BY <1>2
  <2> QED BY <2>1 DEF Contract!Final, IsLast
<1> QED BY <1>4, <1>5, <1>6, <1>7

-----------------------------------------------------------------------------
(***************************************************************************)
(* Every step is one of the contract's, or it changes nothing the contract *)
(* speaks of.                                                              *)
(***************************************************************************)
ViewMap == [c \in Stream |-> Visible(c)]
ProgressMap == [c \in Stream |-> Progress(c)]
PresentMap == [c \in Stream |-> client[c].linked]

ContractStep == Contract!Next \/ UNCHANGED <<script, ViewMap, ProgressMap, PresentMap>>

ContractInv == TypeInv /\ ConclusionInv /\ OrderInv /\ TapeInv /\ ViewInv

\* Only the call c moves, and neither device nor client does.
OnlyRelay(c) ==
    /\ \A d \in Stream \ {c} : RelayStays(d)
    /\ UNCHANGED <<script, client>>

\* An item after which no error was sent is shown.
LEMMA ViewExtends ==
    ASSUME TypeInv, NEW c \in Stream, NEW x \in Item, NoError(c), out'[c] = Append(out[c], x)
    PROVE  Visible(c)' = Append(Visible(c), x)
<1>1. out[c] \in Seq(Item) /\ Len(out[c]) \in Nat BY TapeTypes
<1>2. /\ out'[c] \in Seq(Item) /\ Len(out'[c]) = Len(out[c]) + 1
      /\ \A j \in 1..Len(out[c]) : out'[c][j] = out[c][j]
  BY <1>1
<1>3. ASSUME NEW j \in 1..Len(out'[c]) PROVE \A i \in 1..(j - 1) : out'[c][i] # "error"
  BY <1>1, <1>2 DEF NoError
<1>4. {j \in 1..Len(out'[c]) : \A i \in 1..(j - 1) : out'[c][i] # "error"} = 1..Len(out'[c])
  BY <1>3
<1>5. Visible(c)' = [i \in 1..Len(out'[c]) |-> out'[c][i]] BY <1>4 DEF Visible, Shown
<1>6. PICK s \in Seq(Item) : s = out'[c] BY <1>2
<1>7. [i \in 1..Len(s) |-> s[i]] = s OBVIOUS
<1>8. Visible(c)' = out'[c] BY <1>5, <1>6, <1>7
<1> QED BY <1>8, AllIsVisible

LEMMA MapsMove ==
    ASSUME NEW c \in Stream, OnlyRelay(c)
    PROVE  /\ ViewMap' = [ViewMap EXCEPT ![c] = Visible(c)']
           /\ ProgressMap' = [ProgressMap EXCEPT ![c] = Progress(c)']
           /\ PresentMap' = PresentMap /\ script' = script
<1>1. \A d \in Stream \ {c} : Visible(d)' = Visible(d) BY ViewStays DEF OnlyRelay, RelayStays
<1>2. \A d \in Stream \ {c} : Progress(d)' = Progress(d) BY DEF OnlyRelay, RelayStays, Progress
<1> QED BY <1>1, <1>2 DEF OnlyRelay, ViewMap, ProgressMap, PresentMap

LEMMA ProgressIs ==
    ASSUME NEW c \in Stream
    PROVE  /\ relay[c].pc = "absent" <=> Progress(c) = "idle"
           /\ relay[c].pc = "stopped" <=> Progress(c) = "closed"
           /\ relay[c].pc \notin {"absent", "stopped"} <=> Progress(c) = "open"
BY DEF Progress

LEMMA ProgressBecomes ==
    ASSUME NEW c \in Stream
    PROVE  /\ relay'[c].pc = "stopped" => Progress(c)' = "closed"
           /\ relay'[c].pc \notin {"absent", "stopped"} => Progress(c)' = "open"
BY DEF Progress

LEMMA EndedIs ==
    ASSUME ContractInv, NEW c \in Stream
    PROVE  Contract!Ended(c) <=> HasConclusion(c)
<1>1. OrderOf(c) BY DEF ContractInv, OrderInv
<1>2. PICK k \in Nat : EndsAt(c, k) BY DEF ContractInv, ViewInv
<1>3. HasConclusion(c) <=> (Visible(c) # << >> /\ Contract!Final(Visible(c)[Len(Visible(c))]))
  BY <1>1, <1>2, ConclusionIsLast DEF ContractInv
<1> QED BY <1>3 DEF Contract!Ended

\* A step that shows the client nothing: the stream goes on, or is closed rightly.
LEMMA SilentStep ==
    ASSUME ContractInv, NEW c \in Stream, OnlyRelay(c), Visible(c)' = Visible(c),
           relay[c].pc \notin {"absent", "stopped"}, relay'[c].pc # "absent",
           relay'[c].pc = "stopped" /\ client[c].linked /\ c \notin Lossless => HasConclusion(c)
    PROVE  ContractStep
<1>1. /\ ViewMap' = ViewMap /\ PresentMap' = PresentMap /\ script' = script
      /\ ProgressMap' = [ProgressMap EXCEPT ![c] = Progress(c)']
  BY MapsMove DEF ViewMap
<1>2. ProgressMap[c] = "open" /\ PresentMap[c] = client[c].linked
  BY ProgressIs DEF ProgressMap, PresentMap
<1>3. CASE relay'[c].pc = "stopped"
  <2>1. ProgressMap' = [ProgressMap EXCEPT ![c] = "closed"] BY <1>1, <1>3, ProgressBecomes
  <2>2. PresentMap[c] /\ c \notin Lossless => Contract!Ended(c) BY <1>2, <1>3, EndedIs
  <2>3. Contract!Close(c)
    BY <1>1, <1>2, <2>1, <2>2 DEF Contract!Close, ViewMap, ProgressMap, PresentMap
  <2> QED BY <2>3 DEF ContractStep, Contract!Next
<1>4. CASE relay'[c].pc # "stopped"
  <2>1. Progress(c)' = "open" BY <1>4, ProgressBecomes
  <2>2. ProgressMap' = ProgressMap BY <1>1, <1>2, <2>1 DEF ProgressMap
  <2> QED BY <1>1, <2>2 DEF ContractStep
<1> QED BY <1>3, <1>4

\* An error goes out.
LEMMA ErrorStep ==
    ASSUME ContractInv, NEW c \in Stream, OnlyRelay(c), out'[c] = Append(out[c], "error"),
           relay[c].pc \notin {"absent", "stopped"}, relay'[c].pc # "absent"
    PROVE  ContractStep
<1>0. "error" \in Item /\ TypeInv BY DEF Item, ContractInv
<1>1. CASE ~NoError(c)
  <2>1. Visible(c)' = Visible(c) BY <1>0, <1>1, ErrorHides
  <2>2. HasConclusion(c) BY <1>1 DEF NoError, HasConclusion, IsLast
  <2> QED BY <2>1, <2>2, SilentStep
<1>2. CASE NoError(c)
  <2>1. OrderOf(c) BY DEF ContractInv, OrderInv
  <2>2. ~HasConclusion(c) BY <1>2, <2>1 DEF HasConclusion, OrderOf, NoError, IsLast
  <2>3. ~Contract!Ended(c) BY <2>2, EndedIs
  <2>4. Visible(c)' = Append(Visible(c), "error") BY <1>0, <1>2, ViewExtends
  <2>5. /\ ViewMap' = [ViewMap EXCEPT ![c] = Append(@, "error")]
        /\ PresentMap' = PresentMap /\ script' = script
    BY <2>4, MapsMove DEF ViewMap
  <2>6. ProgressMap[c] = "open" BY ProgressIs DEF ProgressMap
  <2>7. Progress(c)' \in {"open", "closed"} BY ProgressBecomes
  <2>8. \E s \in {"open", "closed"} : ProgressMap' = [ProgressMap EXCEPT ![c] = s]
    BY <2>7, MapsMove
  <2>9. Contract!Fail(c)
    BY <2>3, <2>5, <2>6, <2>8 DEF Contract!Fail, ViewMap, ProgressMap, PresentMap
  <2> QED BY <2>9 DEF ContractStep, Contract!Next
<1> QED BY <1>1, <1>2

LEMMA QuitsStep ==
    ASSUME ContractInv, ConclusionInv', NEW c \in Stream, OnlyRelay(c), RelayQuits(c),
           relay[c].pc # "absent"
    PROVE  ContractStep
<1>1. /\ relay[c].pc \notin {"absent", "stopped"} /\ relay'[c].pc # "absent"
      /\ out'[c] = out[c] \/ out'[c] = Append(out[c], "error")
  BY DEF RelayQuits
<1>2. CASE out'[c] = out[c]
  <2>1. Visible(c)' = Visible(c) BY <1>2, ViewStays
  <2>2. ASSUME relay'[c].pc = "stopped", client[c].linked, c \notin Lossless
        PROVE  HasConclusion(c)
    <3>1. GaveUp(c)' BY <2>2 DEF GaveUp
    <3>2. client'[c].linked /\ c \in Bounded BY <2>2 DEF OnlyRelay, Bounded
    <3>3. HasConclusion(c)' BY <3>1, <3>2 DEF ConclusionInv, GivingUpIsTold
    <3> QED BY <1>2, <3>3 DEF HasConclusion
  <2> QED BY <1>1, <2>1, <2>2, SilentStep
<1>3. CASE out'[c] = Append(out[c], "error") BY <1>1, <1>3, ErrorStep
<1> QED BY <1>1, <1>2, <1>3

LEMMA TurnsStep ==
    ASSUME ContractInv, NEW c \in Stream, OnlyRelay(c), RelayTurns(c) \/ RelayTakes(c)
    PROVE  ContractStep
<1>1. /\ out'[c] = out[c] /\ relay[c].pc # "stopped"
      /\ relay'[c].pc \notin {"absent", "stopped"}
  BY DEF RelayTurns, RelayTakes
<1>2. Visible(c)' = Visible(c) BY <1>1, ViewStays
<1>3. CASE relay[c].pc = "absent"
  <2>1. /\ ViewMap' = ViewMap /\ PresentMap' = PresentMap /\ script' = script
        /\ ProgressMap' = [ProgressMap EXCEPT ![c] = "open"]
    BY <1>1, <1>2, MapsMove, ProgressBecomes DEF ViewMap
  <2>2. ProgressMap[c] = "idle" BY <1>3, ProgressIs DEF ProgressMap
  <2>3. Contract!Begin(c)
    BY <2>1, <2>2 DEF Contract!Begin, ViewMap, ProgressMap, PresentMap
  <2> QED BY <2>3 DEF ContractStep, Contract!Next
<1>4. CASE relay[c].pc # "absent" BY <1>1, <1>2, <1>4, SilentStep
<1> QED BY <1>3, <1>4

\* A frame goes out: the next one, unless an error went before it.
LEMMA FrameStep ==
    ASSUME ContractInv, NEW c \in Stream, OnlyRelay(c), RelayGives(c), relay[c].item # "error"
    PROVE  ContractStep
<1>1. /\ relay[c].pc = "sending" /\ relay[c].connected
      /\ out'[c] = Append(out[c], relay[c].item)
      /\ relay'[c].pc = IF relay[c].last THEN "stopped" ELSE "reading"
  BY DEF RelayGives
<1>2. TypeInv /\ OrderOf(c) BY DEF ContractInv, OrderInv
<1>3. relay[c].item \in Item /\ out[c] \in Seq(Item) /\ Len(out[c]) \in Nat BY <1>2, TapeTypes
<1>4. CASE ~NoError(c)
  <2>1. Visible(c)' = Visible(c) BY <1>1, <1>2, <1>3, <1>4, ErrorHides
  <2>2. HasConclusion(c) BY <1>4 DEF NoError, HasConclusion, IsLast
  <2> QED BY <1>1, <2>1, <2>2, SilentStep
<1>5. CASE NoError(c)
  <2>1. Live(c) /\ Clean(c) BY <1>1, <1>5 DEF Live, Clean
  <2>2. PICK n : TapeOf(c, n) BY DEF ContractInv, TapeInv
  <2>3. Len(out[c]) + 1 \in 1..Len(script[c]) /\ relay[c].item = script[c][Len(out[c]) + 1]
    BY <1>1, <2>1, <2>2 DEF TapeOf, InHand, Taken
  <2>4. PICK f : f = relay[c].item OBVIOUS
  <2>5. /\ f \in {"admission", "chunk", "terminal"}
        /\ f = "admission" <=> Len(out[c]) + 1 = 1
        /\ relay[c].last <=> f = "terminal"
    <3>1. f \in {"admission", "chunk", "terminal"} BY <1>3, <2>4 DEF Item
    <3>2. /\ f = "admission" => Len(out[c]) = 0
          /\ f \in {"chunk", "terminal"} => Len(out[c]) > 0
          /\ relay[c].last = IsLast(f)
      BY <1>1, <1>2, <2>1, <2>4 DEF OrderOf
    <3>3. f = "admission" <=> Len(out[c]) + 1 = 1 BY <1>3, <3>1, <3>2
    <3>4. relay[c].last <=> f = "terminal" BY <3>1, <3>2 DEF IsLast
    <3> QED BY <3>1, <3>3, <3>4
  <2>6. ~Contract!Ended(c)
    <3>1. ~HasConclusion(c) BY <1>1, <1>2, <1>5 DEF HasConclusion, OrderOf, NoError, IsLast
    <3> QED BY <3>1, EndedIs
  <2>7. ViewMap[c] = out[c] BY <1>2, <1>5, AllIsVisible DEF ViewMap
  <2>8. Visible(c)' = Append(Visible(c), f) BY <1>1, <1>2, <1>3, <1>5, <2>4, ViewExtends
  <2>9. ViewMap' = [ViewMap EXCEPT ![c] = Append(@, f)] BY <2>8, MapsMove DEF ViewMap
  <2>10. Progress(c)' = IF f = "terminal" THEN "closed" ELSE "open"
    BY <1>1, <2>5, ProgressBecomes
  <2>11. ProgressMap' = [ProgressMap EXCEPT ![c] = IF f = "terminal" THEN "closed" ELSE "open"]
    BY <2>10, MapsMove
  <2>12. ProgressMap[c] = "open" BY <1>1, ProgressIs DEF ProgressMap
  <2>13. PICK m : m = Len(out[c]) + 1 OBVIOUS
  <2>14. m <= Len(script[c]) /\ f = script[c][m] /\ m = Len(ViewMap[c]) + 1
         /\ (f = "admission" <=> m = 1)
    BY <2>3, <2>4, <2>5, <2>7, <2>13
  <2>15. PresentMap' = PresentMap /\ script' = script BY MapsMove
  <2>16. Contract!Show(c)
    BY <2>5, <2>6, <2>9, <2>11, <2>12, <2>14, <2>15
    DEF Contract!Show, Contract!Data, ViewMap, ProgressMap, PresentMap
  <2> QED BY <2>16 DEF ContractStep, Contract!Next
<1> QED BY <1>4, <1>5

LEMMA GivesStep ==
    ASSUME ContractInv, NEW c \in Stream, OnlyRelay(c), RelayGives(c)
    PROVE  ContractStep
<1>1. CASE relay[c].item = "error"
  <2>1. /\ relay[c].pc = "sending" /\ relay'[c].pc # "absent"
        /\ out'[c] = Append(out[c], "error")
    BY <1>1 DEF RelayGives
  <2> QED BY <2>1, ErrorStep
<1>2. CASE relay[c].item # "error" BY <1>2, FrameStep
<1> QED BY <1>1, <1>2

\* Steps that leave the relays alone: the device sends, the client leaves.
LEMMA ElsewhereStep ==
    ASSUME ContractInv, Elsewhere
    PROVE  ContractStep
<1>1. ViewMap' = ViewMap /\ ProgressMap' = ProgressMap
  <2>1. relay' = relay /\ out' = out BY ElsewhereStays
  <2> QED BY <2>1, ViewStays DEF ViewMap, ProgressMap, Progress
<1>2. CASE script' = script /\ client' = client BY <1>1, <1>2 DEF ContractStep, PresentMap
<1>3. ASSUME NEW c \in Stream, NEW f \in Sends, DeviceSend(c, f) PROVE ContractStep
  <2>1. /\ relay[c].pc # "absent" /\ client' = client
        /\ script' = [script EXCEPT ![c] = Append(@, f)]
    BY <1>3 DEF DeviceSend
  <2>2. ProgressMap[c] # "idle" BY <2>1, ProgressIs DEF ProgressMap
  <2>3. f \in Contract!Data \cup {"faulty"} BY StreamAssumption DEF Contract!Data
  <2>4. Contract!Produce(c, f)
    BY <1>1, <2>1, <2>2 DEF Contract!Produce, ViewMap, ProgressMap
  <2> QED BY <2>3, <2>4 DEF ContractStep, Contract!Next
<1>4. client \in [Stream -> [linked : BOOLEAN, read : Nat]]
  BY DEF ContractInv, TypeInv, TypeOK
<1>5. ASSUME NEW c \in Stream, ClientReads(c) PROVE ContractStep
  <2>1. client' = [client EXCEPT ![c].read = @ + 1] /\ script' = script BY <1>5 DEF ClientReads
  <2>2. PresentMap' = PresentMap BY <1>4, <2>1 DEF PresentMap
  <2> QED BY <1>1, <2>1, <2>2 DEF ContractStep
<1>6. ASSUME NEW c \in Stream, ClientLeaves(c) PROVE ContractStep
  <2>1. /\ client' = [client EXCEPT ![c].linked = FALSE] /\ script' = script
        /\ relay[c].pc \notin {"absent", "stopped"}
    BY <1>6 DEF ClientLeaves, Open
  <2>2. PresentMap' = [PresentMap EXCEPT ![c] = FALSE] BY <1>4, <2>1 DEF PresentMap
  <2>3. ProgressMap[c] = "open" BY <2>1, ProgressIs DEF ProgressMap
  <2>4. Contract!Leave(c)
    BY <1>1, <2>1, <2>2, <2>3 DEF Contract!Leave, ViewMap, ProgressMap, PresentMap
  <2> QED BY <2>4 DEF ContractStep, Contract!Next
<1>7. CASE \/ DrainRead \/ DrainDeliver \/ GoOffline
           \/ \E c \in Stream : \/ CancelOne(c) \/ CallerFails(c) \/ CallerFinishes(c)
                                \/ CallerEnds(c)
  BY <1>2, <1>7 DEF DrainRead, DrainDeliver, GoOffline, CancelOne, CallerFails,
                    CallerFinishes, CallerEnds
<1> QED BY <1>3, <1>5, <1>6, <1>7 DEF Elsewhere

LEMMA NextIsContractStep ==
    ASSUME ContractInv, ConclusionInv', [Next]_vars
    PROVE  ContractStep
<1>0. TypeOK BY DEF ContractInv, TypeInv
<1>1. CASE Elsewhere BY <1>1, ElsewhereStep
<1>2. CASE UNCHANGED vars
  <2>1. script' = script /\ client' = client /\ relay' = relay /\ out' = out BY <1>2 DEF vars
  <2>2. ViewMap' = ViewMap /\ ProgressMap' = ProgressMap
    BY <2>1, ViewStays DEF ViewMap, ProgressMap, Progress
  <2> QED BY <2>1, <2>2 DEF ContractStep, PresentMap
<1>3. ASSUME NEW c \in Stream,
             Register(c) \/ OpenSent(c) \/ RelayCancelSent(c) \/ RelayRecv(c)
      PROVE  ContractStep
  <2>1. UNCHANGED <<script, client>>
    BY <1>3 DEF Register, OpenSent, RelayCancelSent, RelayRecv
  <2>2. RelayTurns(c) \/ RelayTakes(c) BY <1>0, <1>3, TurnMoves, RecvMoves
  <2>3. OnlyRelay(c) BY <1>0, <1>3, <2>1, TurnMoves, RecvMoves DEF OnlyRelay
  <2> QED BY <2>2, <2>3, TurnsStep
<1>4. ASSUME NEW c \in Stream, RelaySend(c) PROVE ContractStep
  <2>1. UNCHANGED <<script, client>> BY <1>4 DEF RelaySend
  <2>2. RelayGives(c) /\ OnlyRelay(c) BY <1>0, <1>4, <2>1, SendMoves DEF OnlyRelay
  <2> QED BY <2>2, GivesStep
<1>5. ASSUME NEW c \in Stream,
             \/ OpenFails(c) \/ RelaySkip(c) \/ RelaySendFails(c) \/ RelaySourceClosed(c)
             \/ RelayConsumerClosed(c) \/ RelayDeadline(c) \/ RelayGivesUp(c)
      PROVE  ContractStep
  <2>1. UNCHANGED <<script, client>> /\ relay[c].pc # "absent"
    BY <1>5 DEF OpenFails, RelaySkip, RelaySendFails, RelaySourceClosed, RelayConsumerClosed,
                RelayDeadline, RelayGivesUp
  <2>2. RelayQuits(c) /\ \A d \in Stream \ {c} : RelayStays(d)
    BY <1>0, <1>5, OpenFailsMoves, QuitMoves
  <2> QED BY <2>1, <2>2, QuitsStep DEF OnlyRelay
<1> QED BY <1>1, <1>2, <1>3, <1>4, <1>5 DEF Next, Elsewhere, RelayStep

LEMMA ContractInit == Init => Contract!Init /\ ViewInv
<1> SUFFICES ASSUME Init PROVE Contract!Init /\ ViewInv OBVIOUS
<1>1. \A c \in Stream : /\ out[c] = << >> /\ relay[c].pc = "absent" /\ client[c].linked
  BY DEF Init, NewRelay
<1>2. \A c \in Stream : EndsAt(c, 0) BY <1>1 DEF EndsAt
<1>3. \A c \in Stream : Visible(c) = << >>
  <2> TAKE c \in Stream
  <2>1. {j \in 1..Len(out[c]) : Shown(c, j)} = {} BY <1>1
  <2>2. Visible(c) = [i \in {} |-> out[c][i]] BY <2>1 DEF Visible
  <2> QED BY <2>2
<1>4. \A c \in Stream : Progress(c) = "idle" BY <1>1 DEF Progress
<1>5. Contract!Init BY <1>1, <1>3, <1>4 DEF Contract!Init, Init
<1> QED BY <1>2, <1>5 DEF ViewInv

LEMMA ContractInvInvariant == Spec => []ContractInv
<1>1. Init => ConclusionInv
  BY DEF Init, NewRelay, ConclusionInv, LastConcludes, GivingUpIsTold, GaveUp
<1>2. Init => OrderInv BY DEF Init, NewRelay, OrderInv, OrderOf
<1> QED
  BY <1>1, <1>2, ContractInit, TapeInit, TypeInvInvariant, ConclusionStep, OrderStep, TapeStep,
     ViewStep, PTL
  DEF Spec, ContractInv

(***************************************************************************)
(* Streamed dispatch keeps its contract with the client: every step of the *)
(* drain, the relays, the caller tasks, the watcher's cancel_for, the      *)
(* device and the clients is a step of StreamContract or changes nothing   *)
(* in it, for any set of calls, any capacities and any frames.             *)
(***************************************************************************)
THEOREM StreamsImplementContract == Spec => ImplementsContract
<1>1. ContractInv /\ ContractInv' /\ [Next]_vars
        => [Contract!Next]_<<script, ViewMap, ProgressMap, PresentMap>>
  BY NextIsContractStep DEF ContractInv, ContractStep
<1> QED
  BY <1>1, ContractInit, ContractInvInvariant, PTL
  DEF Spec, ImplementsContract, Contract!Spec, ViewMap, ProgressMap, PresentMap
=============================================================================
