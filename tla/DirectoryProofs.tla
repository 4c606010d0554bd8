-------------------------- MODULE DirectoryProofs --------------------------
(***************************************************************************)
(* Proofs about DirectorySubscription: the registry's event accounting and *)
(* the exactness of a subscriber's directory, for any number of URAs,      *)
(* sessions and subscribers and any ring capacity.                         *)
(***************************************************************************)
EXTENDS DirectorySubscription, FiniteSetTheorems, TLAPS

-----------------------------------------------------------------------------
(***************************************************************************)
(* The map.  Ids in use were handed out by the allocator, and a slot holds *)
(* an installed session of its own URA.                                    *)
(***************************************************************************)
IdsAllocated ==
    \A s \in Session : session[s].stage # "unused" =>
        session[s].ura \in Ura /\ s < nextSessionId

SlotsInstalled ==
    \A u \in Ura : byUra[u] # NoSession =>
        session[byUra[u]].stage = "installed" /\ session[byUra[u]].ura = u

(***************************************************************************)
(* What an operation can still owe: a removal its Offline, an insert its   *)
(* Online, after the Offline of the slot it displaced.                     *)
(***************************************************************************)
OwesRightly(op) ==
    LET u == session[op[2]].ura IN
    /\ op[1] = "insert" => emitting[op] \in {<< >>, <<Online(u)>>, <<Offline(u), Online(u)>>}
    /\ op[1] = "remove" => emitting[op] \in {<< >>, <<Offline(u)>>}
    /\ emitting[op] # << >> => session[op[2]].stage = "installed"

\* The session in a slot has not been removed, so nobody owes its Offline.
SlotsNotRemoved ==
    \A u \in Ura : byUra[u] # NoSession => emitting[<<"remove", byUra[u]>>] = << >>

RegistryOK ==
    /\ IdsAllocated
    /\ SlotsInstalled
    /\ \A op \in Op : OwesRightly(op)
    /\ SlotsNotRemoved

(***************************************************************************)
(* What is on its way to the consumer, for a URA whose operations never    *)
(* overlapped: at most one operation owes its events, and the last of them *)
(* says what the map says.                                                 *)
(***************************************************************************)
Owes(op, u) == emitting[op] # << >> /\ session[op[2]].ura = u

Occupied(u) == byUra[u] # NoSession

OneOwer(u) ==
    \A op \in Op : Owes(op, u) =>
        /\ \A other \in Op : Owes(other, u) => other = op
        /\ op[1] = "insert" <=> Occupied(u)

About(u) == {i \in DOMAIN inbox[Pump] : inbox[Pump][i].ura = u}

\* With nothing owed, the last queued event about u says what the map says.
LastIsRight(u) ==
    \A i \in About(u) :
        (\A j \in About(u) : j <= i) => (inbox[Pump][i].type = "online" <=> Occupied(u))

\* With nothing owed, queued or lost, the consumer's view does.
ViewIsRight(u) ==
    (About(u) = {} /\ Pump \notin lagged /\ pump \in {"snapshotted", "streaming"}) => Exact(u)

DeliveryOK(u) ==
    /\ u \notin overlapped => OneOwer(u)
    /\ (u \notin overlapped \cup missed /\ ~Owing(u)) => LastIsRight(u) /\ ViewIsRight(u)

\* Before it subscribes, the pump has received nothing.
NotSubscribed == pump \in {"idle", "snapshotted"} => inbox[Pump] = << >> /\ Pump \notin lagged

DirectoryInv ==
    /\ TypeOK
    /\ RegistryOK
    /\ EventsAccountForMap
    /\ NotSubscribed
    /\ \A u \in Ura : DeliveryOK(u)

-----------------------------------------------------------------------------
(***************************************************************************)
(* What each kind of step does.                                            *)
(***************************************************************************)

\* One slot is written, by an operation that owed nothing and now owes events.
Writes(u, op, x, events) ==
    /\ byUra' = [byUra EXCEPT ![u] = x]
    /\ byUra[u] # x
    /\ emitting[op] = << >>
    /\ emitting' = [emitting EXCEPT ![op] = events]
    /\ session[op[2]].ura = u
    /\ \A t \in Session : session'[t].ura = session[t].ura
    /\ IF x = NoSession
       THEN op[1] = "remove" /\ events = <<Offline(u)>>
       ELSE op[1] = "insert" /\ events = InsertEvents(u, byUra[u])
    /\ overlapped' = IF Owing(u) THEN overlapped \cup {u} ELSE overlapped
    /\ UNCHANGED <<inbox, lagged, pump, view, sent, missed>>

SomeWrite ==
    \E u \in Ura, op \in Op, x \in Session \cup {NoSession}, events \in Seq(Event) :
        Writes(u, op, x, events)

\* Nothing an event could be about has changed.
Quiet ==
    /\ UNCHANGED <<byUra, emitting, inbox, lagged, pump, view, overlapped, sent, missed>>
    /\ \A t \in Session : session[t].stage # "unused" => session'[t].ura = session[t].ura

LEMMA OpFacts ==
    /\ \A s \in Session : <<"insert", s>> \in Op /\ <<"remove", s>> \in Op
    /\ \A op \in Op : op[2] \in Session /\ op[1] \in {"insert", "remove"}
    /\ \A op \in Op : op = <<op[1], op[2]>>
BY DEF Op

LEMMA EventFacts ==
    ASSUME NEW u \in Ura
    PROVE  /\ Online(u) \in Event /\ Offline(u) \in Event
           /\ Online(u) # Offline(u)
           /\ <<Offline(u)>> \in Seq(Event) /\ <<Online(u)>> \in Seq(Event)
           /\ <<Offline(u), Online(u)>> \in Seq(Event)
           /\ Online(u).ura = u /\ Offline(u).ura = u
           /\ Online(u).type = "online" /\ Offline(u).type = "offline"
BY DEF Event, Online, Offline

\* A removal writes the slot it finds occupied; on an empty slot it is quiet.
LEMMA RemoveWrites ==
    ASSUME TypeOK, RegistryOK, NEW u \in Ura, Remove(u), NoteOverlap(u),
           UNCHANGED <<nextSessionId, session, inbox, lagged, pump, view, sent, missed>>
    PROVE  (SomeWrite \/ Quiet) /\ RegistryOK' /\ RegistryTypeOK'
<1> USE DEF NoSession
<1>1. CASE byUra[u] = NoSession
  <2>1. UNCHANGED <<byUra, emitting>> BY <1>1 DEF Remove
  <2>2. overlapped' = overlapped BY <2>1 DEF NoteOverlap
  <2>3. Quiet BY <2>1, <2>2 DEF Quiet
  <2>4. RegistryOK'
    BY <2>1 DEF RegistryOK, IdsAllocated, SlotsInstalled, SlotsNotRemoved, OwesRightly
  <2>5. RegistryTypeOK' BY <2>1 DEF TypeOK, RegistryTypeOK
  <2> QED BY <2>3, <2>4, <2>5
<1>2. CASE byUra[u] # NoSession
  <2> DEFINE s == byUra[u]
             op == <<"remove", s>>
  <2>1. s \in Session BY <1>2 DEF TypeOK, RegistryTypeOK
  <2>2. op \in Op BY <2>1, OpFacts
  <2>3. session[s].ura = u /\ session[s].stage = "installed"
    BY <1>2 DEF RegistryOK, SlotsInstalled
  <2>4. emitting[op] = << >> BY <1>2 DEF RegistryOK, SlotsNotRemoved
  <2>5. byUra' = [byUra EXCEPT ![u] = NoSession] BY <1>2 DEF Remove
  <2>6. emitting' = [emitting EXCEPT ![op] = <<Offline(u)>>] BY <1>2 DEF Remove
  <2>7. byUra' # byUra
    <3>1. byUra'[u] = NoSession BY <2>5 DEF TypeOK, RegistryTypeOK
    <3> QED BY <1>2, <3>1
  <2>8. Writes(u, op, NoSession, <<Offline(u)>>)
    BY <1>2, <2>3, <2>4, <2>5, <2>6, <2>7 DEF Writes, NoteOverlap
  <2>9. SomeWrite
    BY <2>2, <2>8, EventFacts DEF SomeWrite
  <2>10. RegistryTypeOK'
    <3>1. emitting' \in [Op -> Seq(Event)]
      BY <2>6, EventFacts DEF TypeOK, RegistryTypeOK
    <3>2. byUra' \in [Ura -> Session \cup {NoSession}]
      BY <2>5 DEF TypeOK, RegistryTypeOK
    <3> QED BY <3>1, <3>2 DEF TypeOK, RegistryTypeOK
  <2>11. RegistryOK'
    <3>1. IdsAllocated' BY DEF RegistryOK, IdsAllocated
    <3>2. \A v \in Ura : byUra'[v] # NoSession => v # u /\ byUra'[v] = byUra[v]
      BY <2>5 DEF TypeOK, RegistryTypeOK
    <3>3. SlotsInstalled' BY <3>2 DEF RegistryOK, SlotsInstalled
    <3>4. \A o \in Op : emitting'[o] = IF o = op THEN <<Offline(u)>> ELSE emitting[o]
      BY <2>6 DEF TypeOK, RegistryTypeOK
    <3>5. ASSUME NEW o \in Op PROVE OwesRightly(o)'
      <4>1. OwesRightly(o) BY DEF RegistryOK
      <4>2. CASE o = op
        <5>1. o[1] = "remove" /\ o[2] = s BY <4>2
        <5> QED BY <5>1, <4>2, <3>4, <2>3 DEF OwesRightly
      <4>3. CASE o # op
        BY <4>1, <4>3, <3>4 DEF OwesRightly
      <4> QED BY <4>2, <4>3
    <3>6. SlotsNotRemoved'
      <4> SUFFICES ASSUME NEW v \in Ura, byUra'[v] # NoSession
                   PROVE  emitting'[<<"remove", byUra'[v]>>] = << >>
        BY DEF SlotsNotRemoved
      <4>1. v # u /\ byUra'[v] = byUra[v] BY <3>2
      <4>2. byUra[v] # s BY <4>1, <2>3 DEF RegistryOK, SlotsInstalled
      <4>3. byUra[v] \in Session BY <4>1 DEF TypeOK, RegistryTypeOK
      <4>4. <<"remove", byUra[v]>> # op BY <4>2
      <4>5. <<"remove", byUra[v]>> \in Op BY <4>3, OpFacts
      <4>6. emitting[<<"remove", byUra[v]>>] = << >> BY <4>1 DEF RegistryOK, SlotsNotRemoved
      <4> QED BY <4>1, <4>4, <4>5, <4>6, <3>4
    <3> QED BY <3>1, <3>3, <3>5, <3>6 DEF RegistryOK
  <2> QED BY <2>9, <2>10, <2>11
<1> QED BY <1>1, <1>2

\* A conditional removal is a removal or nothing.
LEMMA NoRemoval ==
    ASSUME TypeOK, RegistryOK, NEW u \in Ura, UNCHANGED <<byUra, emitting>>, NoteOverlap(u),
           UNCHANGED <<nextSessionId, session, inbox, lagged, pump, view, sent, missed>>
    PROVE  (SomeWrite \/ Quiet) /\ RegistryOK' /\ RegistryTypeOK'
<1>1. overlapped' = overlapped BY DEF NoteOverlap
<1>2. Quiet BY <1>1 DEF Quiet
<1>3. RegistryOK'
  BY DEF RegistryOK, IdsAllocated, SlotsInstalled, SlotsNotRemoved, OwesRightly
<1>4. RegistryTypeOK' BY DEF TypeOK, RegistryTypeOK
<1> QED BY <1>2, <1>3, <1>4

\* An allocation is quiet: the fresh id owes nothing and is in no slot.
LEMMA AllocateQuiet ==
    ASSUME TypeOK, RegistryOK, NEW u \in Ura, NEW kind \in {"dispatch", "resolveOnly"},
           NEW key \in Key \cup {NoKey}, Allocate(u, kind, key),
           UNCHANGED <<byUra, emitting, inbox, lagged, pump, view, overlapped, sent, missed>>
    PROVE  Quiet /\ RegistryOK' /\ RegistryTypeOK'
<1> DEFINE n == nextSessionId
<1>1. n \in Session /\ nextSessionId' \in 1 .. MaxSession + 1 /\ nextSessionId' = n + 1
  BY RegistryAssumption DEF TypeOK, RegistryTypeOK, Allocate, Session
<1>2. session[n].stage = "unused"
  BY <1>1 DEF RegistryOK, IdsAllocated, Session
<1>3. [stage |-> "allocated", ura |-> u, kind |-> kind, key |-> key] \in SessionRecord
  BY DEF SessionRecord
<1>4. session' = [session EXCEPT ![n] = [stage |-> "allocated", ura |-> u, kind |-> kind, key |-> key]]
  BY DEF Allocate
<1>5. session' \in [Session -> SessionRecord]
  BY <1>3, <1>4 DEF TypeOK, RegistryTypeOK
<1>6. \A t \in Session : t # n => session'[t] = session[t]
  BY <1>4 DEF TypeOK, RegistryTypeOK
<1>7. session'[n].stage = "allocated" /\ session'[n].ura = u
  BY <1>1, <1>4 DEF TypeOK, RegistryTypeOK
<1>8. Quiet BY <1>2, <1>6 DEF Quiet
<1>9. RegistryTypeOK' BY <1>1, <1>5 DEF TypeOK, RegistryTypeOK
<1>10. IdsAllocated'
  BY <1>1, <1>6, <1>7 DEF RegistryOK, IdsAllocated, Session, TypeOK, RegistryTypeOK
<1>11. \A v \in Ura : byUra[v] # NoSession => byUra[v] \in Session /\ byUra[v] # n
  BY <1>2 DEF RegistryOK, SlotsInstalled, TypeOK, RegistryTypeOK
<1>12. SlotsInstalled' BY <1>6, <1>11 DEF RegistryOK, SlotsInstalled
<1>13. SlotsNotRemoved' BY DEF RegistryOK, SlotsNotRemoved
<1>14. ASSUME NEW op \in Op PROVE OwesRightly(op)'
  <2>1. OwesRightly(op) BY DEF RegistryOK
  <2>2. op[2] \in Session BY OpFacts
  <2>3. CASE op[2] = n
    <3>1. emitting[op] = << >> BY <1>2, <2>1, <2>3 DEF OwesRightly
    <3> QED BY <3>1 DEF OwesRightly
  <2>4. CASE op[2] # n
    BY <2>1, <2>2, <2>4, <1>6 DEF OwesRightly
  <2> QED BY <2>3, <2>4
<1> QED BY <1>8, <1>9, <1>10, <1>12, <1>13, <1>14 DEF RegistryOK

\* An insert writes its URA's slot.
LEMMA InstallWrites ==
    ASSUME TypeOK, RegistryOK, NEW s \in Session, Install(s), NoteOverlap(session[s].ura),
           UNCHANGED <<nextSessionId, inbox, lagged, pump, view, sent, missed>>
    PROVE  SomeWrite /\ RegistryOK' /\ RegistryTypeOK'
<1> USE DEF NoSession
<1> DEFINE u == session[s].ura
           op == <<"insert", s>>
           events == InsertEvents(u, byUra[u])
<1>1. session[s].stage = "allocated" BY DEF Install
<1>2. u \in Ura BY <1>1 DEF RegistryOK, IdsAllocated
<1>3. op \in Op BY OpFacts
<1>4. op[1] = "insert" /\ op[2] = s OBVIOUS
<1>5. emitting[op] = << >>
  BY <1>1, <1>3, <1>4 DEF RegistryOK, OwesRightly
<1>6. byUra[u] # s BY <1>1, <1>2 DEF RegistryOK, SlotsInstalled, Session
<1>7. events \in Seq(Event) BY <1>2, EventFacts DEF InsertEvents
<1>8. byUra' = [byUra EXCEPT ![u] = s] BY DEF Install
<1>9. emitting' = [emitting EXCEPT ![op] = events] BY DEF Install
<1>10. session' = [session EXCEPT ![s].stage = "installed"] BY DEF Install
<1>11. /\ session' \in [Session -> SessionRecord]
       /\ session'[s].stage = "installed"
       /\ \A t \in Session : session'[t].ura = session[t].ura
       /\ \A t \in Session : t # s => session'[t] = session[t]
  <2>1. session[s] \in SessionRecord BY DEF TypeOK, RegistryTypeOK
  <2>2. [session[s] EXCEPT !.stage = "installed"] \in SessionRecord
    BY <2>1 DEF SessionRecord
  <2>3. session' = [session EXCEPT ![s] = [session[s] EXCEPT !.stage = "installed"]]
    BY <1>10
  <2>4. session' \in [Session -> SessionRecord] BY <2>2, <2>3 DEF TypeOK, RegistryTypeOK
  <2>5. \A t \in Session : t # s => session'[t] = session[t]
    BY <2>3 DEF TypeOK, RegistryTypeOK
  <2>6. session'[s] = [session[s] EXCEPT !.stage = "installed"]
    BY <2>3 DEF TypeOK, RegistryTypeOK
  <2>7. session'[s].stage = "installed" /\ session'[s].ura = session[s].ura
    BY <2>1, <2>6 DEF SessionRecord
  <2> QED BY <2>4, <2>5, <2>7
<1>12. byUra'[u] = s /\ \A v \in Ura : v # u => byUra'[v] = byUra[v]
  BY <1>2, <1>8 DEF TypeOK, RegistryTypeOK
<1>13. byUra' # byUra BY <1>6, <1>12
<1>14. Writes(u, op, s, events)
  BY <1>4, <1>5, <1>6, <1>8, <1>9, <1>11, <1>13 DEF Writes, NoteOverlap, Session
<1>15. SomeWrite BY <1>2, <1>3, <1>7, <1>14 DEF SomeWrite
<1>16. \A o \in Op : emitting'[o] = IF o = op THEN events ELSE emitting[o]
  BY <1>9 DEF TypeOK, RegistryTypeOK
<1>17. RegistryTypeOK'
  <2>1. emitting' \in [Op -> Seq(Event)] BY <1>7, <1>9 DEF TypeOK, RegistryTypeOK
  <2>2. byUra' \in [Ura -> Session \cup {NoSession}] BY <1>8 DEF TypeOK, RegistryTypeOK
  <2> QED BY <2>1, <2>2, <1>11 DEF TypeOK, RegistryTypeOK
<1>18. IdsAllocated'
  BY <1>1, <1>11 DEF RegistryOK, IdsAllocated
<1>19. SlotsInstalled'
  <2> SUFFICES ASSUME NEW v \in Ura, byUra'[v] # NoSession
               PROVE  session'[byUra'[v]].stage = "installed" /\ session'[byUra'[v]].ura = v
    BY DEF SlotsInstalled
  <2>1. CASE v = u BY <2>1, <1>11, <1>12
  <2>2. CASE v # u
    <3>1. byUra'[v] = byUra[v] /\ byUra[v] \in Session
      BY <2>2, <1>12 DEF TypeOK, RegistryTypeOK
    <3>2. session[byUra[v]].stage = "installed" /\ session[byUra[v]].ura = v
      BY <3>1 DEF RegistryOK, SlotsInstalled
    <3>3. byUra[v] # s BY <3>2, <1>1
    <3> QED BY <3>1, <3>2, <3>3, <1>11
  <2> QED BY <2>1, <2>2
<1>20. ASSUME NEW o \in Op PROVE OwesRightly(o)'
  <2>1. OwesRightly(o) BY DEF RegistryOK
  <2>2. o[2] \in Session BY OpFacts
  <2>3. CASE o = op
    <3>1. o[1] = "insert" /\ o[2] = s /\ emitting'[o] = events BY <2>3, <1>4, <1>16
    <3>2. events \in {<<Online(u)>>, <<Offline(u), Online(u)>>} BY DEF InsertEvents
    <3> HIDE DEF events, op
    <3> QED BY <3>1, <3>2, <1>11 DEF OwesRightly
  <2>4. CASE o # op
    <3>1. emitting'[o] = emitting[o] BY <2>4, <1>16
    <3>2. session'[o[2]].ura = session[o[2]].ura BY <2>2, <1>11
    <3>3. session[o[2]].stage = "installed" => session'[o[2]].stage = "installed"
      BY <2>2, <1>11
    <3> QED BY <2>1, <3>1, <3>2, <3>3 DEF OwesRightly
  <2> QED BY <2>3, <2>4
<1>21. SlotsNotRemoved'
  <2> SUFFICES ASSUME NEW v \in Ura, byUra'[v] # NoSession
               PROVE  emitting'[<<"remove", byUra'[v]>>] = << >>
    BY DEF SlotsNotRemoved
  <2>1. byUra'[v] \in Session BY <1>12 DEF TypeOK, RegistryTypeOK
  <2> DEFINE o == <<"remove", byUra'[v]>>
  <2>2. o \in Op BY <2>1, OpFacts
  <2>3. o # op OBVIOUS
  <2>4. emitting'[o] = emitting[o] BY <2>2, <2>3, <1>16
  <2>5. CASE v = u
    <3>1. o[2] = s BY <2>5, <1>12
    <3> QED BY <3>1, <2>2, <2>4, <1>1 DEF RegistryOK, OwesRightly
  <2>6. CASE v # u
    BY <2>6, <2>4, <1>12 DEF RegistryOK, SlotsNotRemoved
  <2> QED BY <2>5, <2>6
<1> QED BY <1>15, <1>17, <1>18, <1>19, <1>20, <1>21 DEF RegistryOK

\* What a push does to a ring: its oldest event goes if it was full.
LEMMA PushShape ==
    ASSUME NEW q \in Seq(Event), Len(q) <= EventCapacity, NEW e \in Event
    PROVE  LET p == Push(q, e)
               d == IF Len(q) = EventCapacity THEN 1 ELSE 0
           IN  /\ p \in Seq(Event)
               /\ Len(p) = Len(q) + 1 - d
               /\ Len(p) \in Nat /\ 0 < Len(p) /\ Len(p) <= EventCapacity
               /\ p[Len(p)] = e
               /\ \A i \in 1 .. Len(p) - 1 : p[i] = q[i + d] /\ i + d \in 1 .. Len(q)
<1>1. CASE Len(q) = EventCapacity
  <2>1. q # << >> BY <1>1, RegistryAssumption
  <2>2. /\ Tail(q) \in Seq(Event) /\ Len(Tail(q)) = Len(q) - 1
        /\ \A i \in 1 .. Len(q) - 1 : Tail(q)[i] = q[i + 1]
    BY <2>1
  <2>3. Push(q, e) = Append(Tail(q), e) BY <1>1 DEF Push
  <2> QED BY <1>1, <2>2, <2>3, RegistryAssumption
<1>2. CASE Len(q) # EventCapacity
  <2>1. Push(q, e) = Append(q, e) BY <1>2 DEF Push
  <2> QED BY <1>2, <2>1, RegistryAssumption
<1> QED BY <1>1, <1>2

\* The event an operation sends next, and what it owes afterwards.
LEMMA HeadFacts ==
    ASSUME TypeOK, RegistryOK, NEW op \in Op, emitting[op] # << >>
    PROVE  LET u == session[op[2]].ura
               e == Head(emitting[op])
           IN  /\ u \in Ura
               /\ e \in Event /\ e.ura = u
               /\ Tail(emitting[op]) \in Seq(Event)
               /\ op[1] = "insert" => Tail(emitting[op]) \in {<< >>, <<Online(u)>>}
               /\ op[1] = "remove" => Tail(emitting[op]) = << >>
               /\ Tail(emitting[op]) = << >> => (e.type = "online" <=> op[1] = "insert")
               /\ \A f : (\E i \in DOMAIN emitting[op] : emitting[op][i] = f)
                            <=> f = e \/ \E i \in DOMAIN Tail(emitting[op]) : Tail(emitting[op])[i] = f
               /\ ~ \E i \in DOMAIN Tail(emitting[op]) : Tail(emitting[op])[i] = e
<1> DEFINE u == session[op[2]].ura
<1>1. OwesRightly(op) BY DEF RegistryOK
<1>2. op[2] \in Session /\ op[1] \in {"insert", "remove"} BY OpFacts
<1>3. u \in Ura BY <1>1, <1>2 DEF OwesRightly, RegistryOK, IdsAllocated
<1>4. PICK on, off : on = Online(u) /\ off = Offline(u) OBVIOUS
<1>5. /\ on \in Event /\ off \in Event /\ on # off
      /\ on.ura = u /\ off.ura = u /\ on.type = "online" /\ off.type = "offline"
  BY <1>3, <1>4, EventFacts
<1>6. PICK evs : evs = emitting[op] OBVIOUS
<1>7. \/ op[1] = "insert" /\ evs = <<on>>
      \/ op[1] = "insert" /\ evs = <<off, on>>
      \/ op[1] = "remove" /\ evs = <<off>>
  BY <1>1, <1>2, <1>4, <1>6 DEF OwesRightly
<1>8. CASE op[1] = "insert" /\ evs = <<on>>
  <2>1. Head(evs) = on /\ Tail(evs) = << >> BY <1>8
  <2>2. DOMAIN evs = 1 .. 1 /\ evs[1] = on BY <1>8
  <2>3. DOMAIN Tail(evs) = {} BY <2>1
  <2>4. \A i \in DOMAIN evs : i = 1 BY <2>2
  <2> QED BY <1>3, <1>4, <1>5, <1>6, <1>8, <2>1, <2>2, <2>3, <2>4
<1>9. CASE op[1] = "insert" /\ evs = <<off, on>>
  <2>1. Head(evs) = off /\ Tail(evs) = <<on>> BY <1>9
  <2>2. DOMAIN evs = 1 .. 2 /\ evs[1] = off /\ evs[2] = on BY <1>9
  <2>0. PICK rest : rest = <<on>> OBVIOUS
  <2>a. DOMAIN rest = 1 .. 1 /\ rest[1] = on /\ rest # << >> BY <2>0
  <2>b. rest \in Seq(Event) BY <2>0, <1>5
  <2>3. DOMAIN Tail(evs) = 1 .. 1 /\ Tail(evs)[1] = on BY <2>1, <2>0, <2>a, Zenon
  <2>4. \A i \in DOMAIN evs : i = 1 \/ i = 2 BY <2>2
  <2>5. \A i \in DOMAIN Tail(evs) : i = 1 BY <2>3
  <2>6. 1 \in DOMAIN evs /\ 2 \in DOMAIN evs /\ 1 \in DOMAIN Tail(evs) BY <2>2, <2>3
  <2>7. Tail(evs) \in Seq(Event) /\ Tail(evs) # << >> BY <2>0, <2>1, <2>a, <2>b, Zenon
  <2> QED BY <1>3, <1>4, <1>5, <1>6, <1>9, <2>1, <2>2, <2>3, <2>4, <2>5, <2>6, <2>7
<1>10. CASE op[1] = "remove" /\ evs = <<off>>
  <2>1. Head(evs) = off /\ Tail(evs) = << >> BY <1>10
  <2>2. DOMAIN evs = 1 .. 1 /\ evs[1] = off BY <1>10
  <2>3. DOMAIN Tail(evs) = {} BY <2>1
  <2>4. \A i \in DOMAIN evs : i = 1 BY <2>2
  <2> QED BY <1>3, <1>4, <1>5, <1>6, <1>10, <2>1, <2>2, <2>3, <2>4
<1> QED BY <1>7, <1>8, <1>9, <1>10

\* One event of one operation is sent, to the pump if it has subscribed.
LEMMA SendEffect ==
    ASSUME TypeOK, RegistryOK, NEW op \in Op, SendEvent(op)
    PROVE  /\ RegistryOK' /\ RegistryTypeOK'
           /\ emitting[op] # << >>
           /\ emitting' = [emitting EXCEPT ![op] = Tail(emitting[op])]
           /\ sent' = [sent EXCEPT ![Head(emitting[op])] = @ + 1]
           /\ UNCHANGED <<byUra, session, pump, view, overlapped>>
           /\ missed' = IF pump = "snapshotted"
                        THEN missed \cup {Head(emitting[op]).ura} ELSE missed
           /\ IF pump \in {"streaming", "resnapshot"}
              THEN /\ inbox'[Pump] = Push(inbox[Pump], Head(emitting[op]))
                   /\ Pump \in lagged' <=> Pump \in lagged \/ Len(inbox[Pump]) = EventCapacity
              ELSE inbox'[Pump] = inbox[Pump] /\ lagged' = lagged
<1> DEFINE e == Head(emitting[op])
           to == IF pump \in {"streaming", "resnapshot"} THEN {Pump} ELSE {}
           u == session[op[2]].ura
<1>1. /\ emitting[op] # << >>
      /\ emitting' = [emitting EXCEPT ![op] = Tail(emitting[op])]
      /\ inbox' = [r \in Subscriber |-> IF r \in to THEN Push(inbox[r], e) ELSE inbox[r]]
      /\ lagged' = lagged \cup {r \in to : Len(inbox[r]) = EventCapacity}
      /\ UNCHANGED <<byUra, nextSessionId, session, pump, view, overlapped>>
  BY DEF SendEvent, Emit
<1>2. /\ sent' = [sent EXCEPT ![e] = @ + 1]
      /\ missed' = IF pump = "snapshotted" THEN missed \cup {e.ura} ELSE missed
  BY DEF SendEvent
<1>3. /\ e \in Event /\ Tail(emitting[op]) \in Seq(Event)
      /\ op[1] = "insert" => Tail(emitting[op]) \in {<< >>, <<Online(u)>>}
      /\ op[1] = "remove" => Tail(emitting[op]) = << >>
  BY <1>1, HeadFacts
<1>4. \A o \in Op : emitting'[o] = IF o = op THEN Tail(emitting[op]) ELSE emitting[o]
  BY <1>1 DEF TypeOK, RegistryTypeOK
<1>5. emitting' \in [Op -> Seq(Event)]
  BY <1>1, <1>3 DEF TypeOK, RegistryTypeOK
<1>6. to \subseteq Subscriber BY PumpAssumption
<1>7. \A r \in Subscriber :
        inbox[r] \in Seq(Event) /\ Len(inbox[r]) <= EventCapacity
  BY DEF TypeOK, RegistryTypeOK
<1>8. \A r \in Subscriber :
        Push(inbox[r], e) \in Seq(Event) /\ Len(Push(inbox[r], e)) <= EventCapacity
  BY <1>3, <1>7, PushShape
<1>9. \A r \in Subscriber : inbox'[r] = IF r \in to THEN Push(inbox[r], e) ELSE inbox[r]
  BY <1>1
<1>10. inbox' \in [Subscriber -> Seq(Event)] BY <1>1, <1>7, <1>8
<1>11. RegistryTypeOK'
  <2>1. \A r \in Subscriber : Len(inbox'[r]) <= EventCapacity BY <1>7, <1>8, <1>9
  <2>2. lagged' \subseteq Subscriber BY <1>1, <1>6 DEF TypeOK, RegistryTypeOK
  <2> QED BY <1>1, <1>5, <1>10, <2>1, <2>2 DEF TypeOK, RegistryTypeOK
<1>12. ASSUME NEW o \in Op PROVE OwesRightly(o)'
  <2>1. OwesRightly(o) BY DEF RegistryOK
  <2>2. CASE o = op
    <3>1. emitting'[o] = Tail(emitting[op]) BY <2>2, <1>4
    <3>2. session' = session BY <1>1
    <3>3. session[op[2]].stage = "installed" BY <2>1, <2>2, <1>1 DEF OwesRightly
    <3> QED BY <2>2, <3>1, <3>2, <3>3, <1>3 DEF OwesRightly
  <2>3. CASE o # op BY <2>1, <2>3, <1>1, <1>4 DEF OwesRightly
  <2> QED BY <2>2, <2>3
<1>13. SlotsNotRemoved'
  <2> SUFFICES ASSUME NEW v \in Ura, byUra'[v] # NoSession
               PROVE  emitting'[<<"remove", byUra'[v]>>] = << >>
    BY DEF SlotsNotRemoved
  <2>1. byUra'[v] = byUra[v] /\ byUra[v] \in Session
    BY <1>1 DEF TypeOK, RegistryTypeOK
  <2>2. emitting[<<"remove", byUra[v]>>] = << >>
    BY <2>1 DEF RegistryOK, SlotsNotRemoved
  <2>3. <<"remove", byUra[v]>> \in Op /\ <<"remove", byUra[v]>> # op
    BY <2>1, <2>2, <1>1, OpFacts
  <2> QED BY <2>1, <2>2, <2>3, <1>4
<1>14. IdsAllocated' /\ SlotsInstalled'
  BY <1>1 DEF RegistryOK, IdsAllocated, SlotsInstalled
<1>15. RegistryOK' BY <1>12, <1>13, <1>14 DEF RegistryOK
<1>16. CASE pump \in {"streaming", "resnapshot"}
  <2>1. to = {Pump} BY <1>16
  <2>2. inbox'[Pump] = Push(inbox[Pump], e) BY <2>1, <1>9, PumpAssumption
  <2>3. Pump \in lagged' <=> Pump \in lagged \/ Len(inbox[Pump]) = EventCapacity
    BY <2>1, <1>1
  <2> QED BY <1>1, <1>2, <1>11, <1>15, <1>16, <2>2, <2>3
<1>17. CASE pump \notin {"streaming", "resnapshot"}
  <2>1. to = {} BY <1>17
  <2>2. inbox'[Pump] = inbox[Pump] BY <2>1, <1>9, PumpAssumption
  <2>3. lagged' = lagged BY <2>1, <1>1
  <2> QED BY <1>1, <1>2, <1>11, <1>15, <1>17, <2>2, <2>3
<1> QED BY <1>16, <1>17

-----------------------------------------------------------------------------
(***************************************************************************)
(* The accounting of events.                                               *)
(***************************************************************************)
Contains(events, e) == \E i \in DOMAIN events : events[i] = e

Owers(e) == {op \in Op : Contains(emitting[op], e)}

LEMMA OwersFinite ==
    ASSUME NEW e
    PROVE  IsFiniteSet(Owers(e)) /\ Cardinality(Owers(e)) \in Nat /\ Owed(e) = Cardinality(Owers(e))
<1>1. IsFiniteSet(Session) BY RegistryAssumption, FS_Interval DEF Session
<1>2. IsFiniteSet({"insert", "remove"})
  <2>1. IsFiniteSet({"insert"}) BY FS_Singleton
  <2>2. {"insert"} \cup {"remove"} = {"insert", "remove"} OBVIOUS
  <2> QED BY <2>1, <2>2, FS_AddElement
<1>3. IsFiniteSet(Op) BY <1>1, <1>2, FS_Product DEF Op
<1>4. Owers(e) \in SUBSET Op BY DEF Owers
<1>5. IsFiniteSet(Owers(e)) BY <1>3, <1>4, FS_Subset
<1> QED BY <1>5, FS_CardinalityType DEF Owed, Owers, Contains

\* One operation that owed nothing comes to owe events.
LEMMA OwersAfterWrite ==
    ASSUME TypeOK, NEW op \in Op, NEW events \in Seq(Event), emitting[op] = << >>,
           emitting' = [emitting EXCEPT ![op] = events], NEW e
    PROVE  Owed(e)' = Owed(e) + (IF Contains(events, e) THEN 1 ELSE 0)
<1>1. \A o \in Op : emitting'[o] = IF o = op THEN events ELSE emitting[o]
  BY DEF TypeOK, RegistryTypeOK
<1>2. op \notin Owers(e) BY DEF Owers, Contains
<1>3. CASE Contains(events, e)
  <2>1. Owers(e)' = Owers(e) \cup {op} BY <1>1, <1>3 DEF Owers
  <2>2. IsFiniteSet(Owers(e)) /\ Owed(e) = Cardinality(Owers(e)) BY OwersFinite
  <2>3. Cardinality(Owers(e) \cup {op}) = Cardinality(Owers(e)) + 1
    BY <1>2, <2>2, FS_AddElement
  <2>4. Owed(e)' = Cardinality(Owers(e)') BY DEF Owed, Owers, Contains
  <2> QED BY <1>3, <2>1, <2>2, <2>3, <2>4
<1>4. CASE ~Contains(events, e)
  <2>1. Owers(e)' = Owers(e) BY <1>1, <1>2, <1>4 DEF Owers
  <2>2. Owed(e)' = Cardinality(Owers(e)') BY DEF Owed, Owers, Contains
  <2>3. Owed(e) \in Nat /\ Owed(e) = Cardinality(Owers(e)) BY OwersFinite
  <2> QED BY <1>4, <2>1, <2>2, <2>3
<1> QED BY <1>3, <1>4

\* A write owes an Online if it fills the slot, an Offline if it empties it or
\* displaces its holder.
LEMMA WrittenEvents ==
    ASSUME NEW u \in Ura, NEW v \in Ura, NEW op \in Op, NEW x \in Session \cup {NoSession},
           NEW events, Writes(u, op, x, events)
    PROVE  /\ Contains(events, Online(v)) <=> v = u /\ x # NoSession
           /\ Contains(events, Offline(v)) <=> v = u /\ byUra[u] # NoSession
           /\ events # << >>
<1>1. /\ Online(u) # Offline(u)
      /\ v # u => /\ Online(v) # Online(u) /\ Online(v) # Offline(u)
                  /\ Offline(v) # Online(u) /\ Offline(v) # Offline(u)
      /\ Online(v) # Offline(v)
  BY DEF Online, Offline
<1>2. PICK on, off, onv, offv : on = Online(u) /\ off = Offline(u)
                                /\ onv = Online(v) /\ offv = Offline(v)
  OBVIOUS
<1>3. \/ x = NoSession /\ byUra[u] # NoSession /\ events = <<off>>
      \/ x # NoSession /\ byUra[u] = NoSession /\ events = <<on>>
      \/ x # NoSession /\ byUra[u] # NoSession /\ events = <<off, on>>
  BY <1>2 DEF Writes, InsertEvents
<1>4. \A a : /\ <<a>> # << >>
             /\ \A b : Contains(<<a>>, b) <=> b = a
  BY DEF Contains
<1>5. \A a, b : /\ <<a, b>> # << >>
                /\ \A c : Contains(<<a, b>>, c) <=> c = a \/ c = b
  <2> SUFFICES ASSUME NEW a, NEW b, NEW c
               PROVE  <<a, b>> # << >> /\ (Contains(<<a, b>>, c) <=> c = a \/ c = b)
    OBVIOUS
  <2>1. DOMAIN <<a, b>> = 1 .. 2 /\ <<a, b>>[1] = a /\ <<a, b>>[2] = b OBVIOUS
  <2>2. \A i \in 1 .. 2 : i = 1 \/ i = 2 OBVIOUS
  <2>3. 1 \in 1 .. 2 /\ 2 \in 1 .. 2 OBVIOUS
  <2>4. Contains(<<a, b>>, c) <=> c = a \/ c = b BY <2>1, <2>2, <2>3 DEF Contains
  <2> QED BY <2>4
<1>6. /\ u = v => on = onv /\ off = offv
      /\ on # off /\ onv # offv
      /\ v # u => onv # on /\ onv # off /\ offv # on /\ offv # off
  BY <1>1, <1>2
<1>7. /\ Contains(events, onv) <=> v = u /\ x # NoSession
      /\ Contains(events, offv) <=> v = u /\ byUra[u] # NoSession
      /\ events # << >>
  BY <1>3, <1>4, <1>5, <1>6
<1> QED BY <1>2, <1>7

LEMMA WriteAccounts ==
    ASSUME TypeOK, EventsAccountForMap, SomeWrite
    PROVE  EventsAccountForMap'
<1>1. PICK u \in Ura, op \in Op, x \in Session \cup {NoSession}, events \in Seq(Event) :
        Writes(u, op, x, events)
  BY DEF SomeWrite
<1> SUFFICES ASSUME NEW v \in Ura
             PROVE  sent'[Online(v)] + Owed(Online(v))'
                      = sent'[Offline(v)] + Owed(Offline(v))'
                          + (IF byUra'[v] = NoSession THEN 0 ELSE 1)
  BY DEF EventsAccountForMap, Online, Offline
<1>2. sent[Online(v)] + Owed(Online(v))
        = sent[Offline(v)] + Owed(Offline(v)) + (IF byUra[v] = NoSession THEN 0 ELSE 1)
  BY DEF EventsAccountForMap
<1>3. Owed(Online(v)) \in Nat /\ Owed(Offline(v)) \in Nat BY OwersFinite
<1>4. sent[Online(v)] \in Nat /\ sent[Offline(v)] \in Nat BY EventFacts DEF TypeOK
<1>5. sent' = sent BY <1>1 DEF Writes
<1>6. emitting[op] = << >> /\ emitting' = [emitting EXCEPT ![op] = events] BY <1>1 DEF Writes
<1>7. Owed(Online(v))' = Owed(Online(v)) + (IF v = u /\ x # NoSession THEN 1 ELSE 0)
  <2>1. \A e : Owed(e)' = Owed(e) + (IF Contains(events, e) THEN 1 ELSE 0)
    BY <1>6, OwersAfterWrite
  <2>2. Contains(events, Online(v)) <=> v = u /\ x # NoSession BY <1>1, WrittenEvents
  <2> QED BY <2>1, <2>2 DEF Owed, Online
<1>8. Owed(Offline(v))' = Owed(Offline(v)) + (IF v = u /\ byUra[u] # NoSession THEN 1 ELSE 0)
  <2>1. \A e : Owed(e)' = Owed(e) + (IF Contains(events, e) THEN 1 ELSE 0)
    BY <1>6, OwersAfterWrite
  <2>2. Contains(events, Offline(v)) <=> v = u /\ byUra[u] # NoSession BY <1>1, WrittenEvents
  <2> QED BY <2>1, <2>2 DEF Owed, Offline
<1>9. byUra'[v] = IF v = u THEN x ELSE byUra[v]
  BY <1>1 DEF Writes, TypeOK, RegistryTypeOK
<1>10. PICK a, b, c, d : /\ a = Owed(Online(v)) /\ b = Owed(Offline(v))
                         /\ c = Owed(Online(v))' /\ d = Owed(Offline(v))'
  OBVIOUS
<1>11. sent'[Online(v)] = sent[Online(v)] /\ sent'[Offline(v)] = sent[Offline(v)] BY <1>5
<1>12. PICK m, n : m = sent[Online(v)] /\ n = sent[Offline(v)] OBVIOUS
<1>13. /\ a \in Nat /\ b \in Nat /\ m \in Nat /\ n \in Nat
       /\ m + a = n + b + (IF byUra[v] = NoSession THEN 0 ELSE 1)
       /\ c = a + (IF v = u /\ x # NoSession THEN 1 ELSE 0)
       /\ d = b + (IF v = u /\ byUra[v] # NoSession THEN 1 ELSE 0)
  BY <1>2, <1>3, <1>4, <1>7, <1>8, <1>10, <1>12
<1>14. m + c = n + d + (IF byUra'[v] = NoSession THEN 0 ELSE 1)
  BY <1>9, <1>13
<1> QED BY <1>10, <1>11, <1>12, <1>14

\* A send moves an event from owed to sent.
LEMMA SendAccounts ==
    ASSUME TypeOK, RegistryOK, EventsAccountForMap, NEW op \in Op, SendEvent(op)
    PROVE  EventsAccountForMap' /\ sent' \in [Event -> Nat]
<1>1. /\ emitting[op] # << >>
      /\ emitting' = [emitting EXCEPT ![op] = Tail(emitting[op])]
      /\ sent' = [sent EXCEPT ![Head(emitting[op])] = @ + 1]
      /\ byUra' = byUra
  BY SendEffect
<1>2. PICK e : e = Head(emitting[op]) OBVIOUS
<1>3. PICK rest : rest = Tail(emitting[op]) OBVIOUS
<1>4. /\ e \in Event
      /\ \A f : Contains(emitting[op], f) <=> f = e \/ Contains(rest, f)
      /\ ~Contains(rest, e)
  BY <1>1, <1>2, <1>3, HeadFacts DEF Contains
<1>5. \A o \in Op : emitting'[o] = IF o = op THEN rest ELSE emitting[o]
  BY <1>1, <1>3 DEF TypeOK, RegistryTypeOK
<1>6. \A f \in Event : sent'[f] = IF f = e THEN sent[f] + 1 ELSE sent[f]
  BY <1>1, <1>2 DEF TypeOK
<1>7. ASSUME NEW f \in Event
      PROVE  sent'[f] + Owed(f)' = sent[f] + Owed(f) /\ sent[f] + Owed(f) \in Nat
  <2>1. IsFiniteSet(Owers(f)) /\ Cardinality(Owers(f)) \in Nat /\ Owed(f) = Cardinality(Owers(f))
    BY OwersFinite
  <2>2. Owed(f)' = Cardinality(Owers(f)') BY DEF Owed, Owers, Contains
  <2>3. sent[f] \in Nat BY DEF TypeOK
  <2>4. CASE f = e
    <3>1. op \in Owers(f) BY <1>4, <2>4 DEF Owers
    <3>2. Owers(f)' = Owers(f) \ {op} BY <1>4, <1>5, <2>4 DEF Owers
    <3>3. Cardinality(Owers(f) \ {op}) = Cardinality(Owers(f)) - 1
      BY <2>1, <3>1, FS_RemoveElement
    <3> QED BY <1>6, <2>1, <2>2, <2>3, <2>4, <3>2, <3>3
  <2>5. CASE f # e
    <3>1. Owers(f)' = Owers(f) BY <1>4, <1>5, <2>5 DEF Owers
    <3> QED BY <1>6, <2>1, <2>2, <2>3, <2>5, <3>1
  <2> QED BY <2>4, <2>5
<1>8. ASSUME NEW v \in Ura
      PROVE  sent'[Online(v)] + Owed(Online(v))'
               = sent'[Offline(v)] + Owed(Offline(v))'
                   + (IF byUra'[v] = NoSession THEN 0 ELSE 1)
  <2>1. sent[Online(v)] + Owed(Online(v))
          = sent[Offline(v)] + Owed(Offline(v)) + (IF byUra[v] = NoSession THEN 0 ELSE 1)
    BY DEF EventsAccountForMap
  <2>2. sent'[Online(v)] + Owed(Online(v))' = sent[Online(v)] + Owed(Online(v))
    BY <1>7, EventFacts DEF Owed, Online
  <2>3. sent'[Offline(v)] + Owed(Offline(v))' = sent[Offline(v)] + Owed(Offline(v))
    BY <1>7, EventFacts DEF Owed, Offline
  <2> QED BY <1>1, <2>1, <2>2, <2>3
<1>9. sent' \in [Event -> Nat]
  <2>1. sent[e] + 1 \in Nat BY <1>4 DEF TypeOK
  <2>2. sent' = [sent EXCEPT ![e] = sent[e] + 1] BY <1>1, <1>2
  <2> QED BY <2>1, <2>2 DEF TypeOK
<1> QED BY <1>8, <1>9 DEF EventsAccountForMap, Online, Offline

\* Nothing else is counted.
LEMMA AccountsKept ==
    ASSUME EventsAccountForMap, UNCHANGED <<byUra, emitting, sent>>
    PROVE  EventsAccountForMap'
BY DEF EventsAccountForMap, Owed, Online, Offline

-----------------------------------------------------------------------------
(***************************************************************************)
(* Delivery to the consumer.                                               *)
(***************************************************************************)
LEMMA OwingIs ==
    ASSUME NEW u
    PROVE  (Owing(u) <=> \E op \in Op : Owes(op, u)) /\ (Owing(u)' <=> \E op \in Op : Owes(op, u)')
BY DEF Owing, Owes

\* Where nothing is read, sent or written, delivery stands as it was.
LEMMA DeliveryUndisturbed ==
    ASSUME NEW u \in Ura, DeliveryOK(u),
           \A op \in Op : Owes(op, u)' <=> Owes(op, u),
           Occupied(u)' <=> Occupied(u),
           u \in overlapped' <=> u \in overlapped,
           UNCHANGED <<inbox, lagged, pump, view, missed>>
    PROVE  DeliveryOK(u)'
<1>1. Owing(u)' <=> Owing(u) BY OwingIs
<1>2. u \notin overlapped' => OneOwer(u)' BY DEF DeliveryOK, OneOwer
<1>3. About(u)' = About(u) BY DEF About
<1>4. LastIsRight(u)' <=> LastIsRight(u) BY <1>3 DEF LastIsRight
<1>5. ViewIsRight(u)' <=> ViewIsRight(u) BY <1>3 DEF ViewIsRight, Exact, Occupied
<1> QED BY <1>1, <1>2, <1>4, <1>5 DEF DeliveryOK

LEMMA QuietDelivers ==
    ASSUME TypeOK, RegistryOK, NEW u \in Ura, DeliveryOK(u), Quiet
    PROVE  DeliveryOK(u)'
<1>1. ASSUME NEW op \in Op PROVE Owes(op, u)' <=> Owes(op, u)
  <2>1. OwesRightly(op) BY DEF RegistryOK
  <2>2. op[2] \in Session BY OpFacts
  <2>3. emitting' = emitting BY DEF Quiet
  <2>4. emitting[op] # << >> => session'[op[2]].ura = session[op[2]].ura
    BY <2>1, <2>2 DEF OwesRightly, Quiet
  <2> QED BY <2>3, <2>4 DEF Owes
<1>2. Occupied(u)' <=> Occupied(u) BY DEF Quiet, Occupied
<1>3. UNCHANGED <<inbox, lagged, pump, view, missed, overlapped>> BY DEF Quiet
<1> QED BY <1>1, <1>2, <1>3, DeliveryUndisturbed

LEMMA WriteDelivers ==
    ASSUME TypeOK, NEW v \in Ura, DeliveryOK(v), SomeWrite
    PROVE  DeliveryOK(v)'
<1>1. PICK u \in Ura, op \in Op, x \in Session \cup {NoSession}, events \in Seq(Event) :
        Writes(u, op, x, events)
  BY DEF SomeWrite
<1>2. op[2] \in Session /\ op[1] \in {"insert", "remove"} BY OpFacts
<1>3. \A o \in Op : emitting'[o] = IF o = op THEN events ELSE emitting[o]
  BY <1>1 DEF Writes, TypeOK, RegistryTypeOK
<1>4. \A o \in Op : session'[o[2]].ura = session[o[2]].ura
  BY <1>1, OpFacts DEF Writes
<1>5. session[op[2]].ura = u /\ emitting[op] = << >> BY <1>1 DEF Writes
<1>6. \A w \in Ura : byUra'[w] = IF w = u THEN x ELSE byUra[w]
  BY <1>1 DEF Writes, TypeOK, RegistryTypeOK
<1>7. events # << >> BY <1>1, WrittenEvents
<1>8. overlapped' = IF Owing(u) THEN overlapped \cup {u} ELSE overlapped BY <1>1 DEF Writes
<1>9. CASE v # u
  <2>1. \A o \in Op : Owes(o, v)' <=> Owes(o, v) BY <1>3, <1>4, <1>5, <1>9 DEF Owes
  <2>2. Occupied(v)' <=> Occupied(v) BY <1>6, <1>9 DEF Occupied
  <2>3. v \in overlapped' <=> v \in overlapped BY <1>8, <1>9
  <2>4. UNCHANGED <<inbox, lagged, pump, view, missed>> BY <1>1 DEF Writes
  <2> QED BY <2>1, <2>2, <2>3, <2>4, DeliveryUndisturbed
<1>10. CASE v = u
  <2>1. Owes(op, v)' BY <1>3, <1>4, <1>5, <1>7, <1>10 DEF Owes
  <2>2. Owing(v)' BY <2>1, OwingIs
  <2>3. ASSUME v \notin overlapped' PROVE OneOwer(v)'
    <3>1. ~Owing(v) BY <2>3, <1>8, <1>10
    <3>2. \A o \in Op : ~Owes(o, v) BY <3>1, OwingIs
    <3>3. \A o \in Op : Owes(o, v)' => o = op BY <3>2, <1>3, <1>4 DEF Owes
    <3>4. op[1] = "insert" <=> x # NoSession BY <1>1, <1>2 DEF Writes
    <3>5. Occupied(v)' <=> x # NoSession BY <1>6, <1>10 DEF Occupied
    <3>6. op[1] = "insert" <=> Occupied(v)' BY <3>4, <3>5
    <3> QED BY <3>3, <3>6 DEF OneOwer
  <2> QED BY <2>2, <2>3 DEF DeliveryOK
<1> QED BY <1>9, <1>10

\* A push puts its event last and moves what was queued, or drops the oldest.
LEMMA AboutAfterPush ==
    ASSUME TypeOK, NEW e \in Event, inbox'[Pump] = Push(inbox[Pump], e), NEW u
    PROVE  LET d == IF Len(inbox[Pump]) = EventCapacity THEN 1 ELSE 0
               n == Len(inbox'[Pump])
           IN  /\ n \in Nat /\ 0 < n /\ n = Len(inbox[Pump]) + 1 - d
               /\ inbox'[Pump][n] = e
               /\ e.ura = u => n \in About(u)' /\ \A i \in About(u)' : i <= n
               /\ e.ura # u =>
                    /\ \A i \in About(u)' : i + d \in About(u) /\ inbox'[Pump][i] = inbox[Pump][i + d]
                    /\ \A j \in About(u) : j > d => j - d \in About(u)'
<1>1. PICK q : q = inbox[Pump] OBVIOUS
<1>2. PICK p : p = inbox'[Pump] OBVIOUS
<1>3. q \in Seq(Event) /\ Len(q) <= EventCapacity
  BY <1>1, PumpAssumption DEF TypeOK, RegistryTypeOK
<1>4. PICK d : d = IF Len(q) = EventCapacity THEN 1 ELSE 0 OBVIOUS
<1>5. /\ p \in Seq(Event)
      /\ Len(p) = Len(q) + 1 - d
      /\ Len(p) \in Nat /\ 0 < Len(p)
      /\ p[Len(p)] = e
      /\ \A i \in 1 .. Len(p) - 1 : p[i] = q[i + d] /\ i + d \in 1 .. Len(q)
  <2>1. p = Push(q, e) BY <1>1, <1>2
  <2> QED BY <2>1, <1>3, <1>4, PushShape, Zenon
<1>6. About(u) = {i \in 1 .. Len(q) : q[i].ura = u} BY <1>1, <1>3 DEF About
<1>7. About(u)' = {i \in 1 .. Len(p) : p[i].ura = u}
  <2>1. DOMAIN p = 1 .. Len(p) BY <1>5
  <2> QED BY <1>2, <2>1 DEF About
<1>8. d \in {0, 1} BY <1>4
<1>9. ASSUME e.ura = u PROVE Len(p) \in About(u)' /\ \A i \in About(u)' : i <= Len(p)
  BY <1>5, <1>7, <1>9
<1>10. ASSUME e.ura # u
       PROVE  /\ \A i \in About(u)' : i + d \in About(u) /\ p[i] = q[i + d]
              /\ \A j \in About(u) : j > d => j - d \in About(u)'
  <2>1. ASSUME NEW i \in About(u)' PROVE i + d \in About(u) /\ p[i] = q[i + d]
    <3>1. i \in 1 .. Len(p) /\ p[i].ura = u BY <1>7
    <3>2. i # Len(p) BY <3>1, <1>5, <1>10
    <3>3. i \in 1 .. Len(p) - 1 BY <3>1, <3>2, <1>5
    <3> QED BY <3>1, <3>3, <1>5, <1>6
  <2>2. ASSUME NEW j \in About(u), j > d PROVE j - d \in About(u)'
    <3>1. j \in 1 .. Len(q) /\ q[j].ura = u BY <1>6
    <3>2. Len(q) \in Nat BY <1>3
    <3>3. j - d \in 1 .. Len(p) - 1 BY <3>1, <3>2, <2>2, <1>5, <1>8
    <3>4. p[j - d] = q[(j - d) + d] BY <3>3, <1>5
    <3>5. (j - d) + d = j BY <3>1, <1>8
    <3>6. j - d \in 1 .. Len(p) BY <3>3, <1>5
    <3> QED BY <3>1, <3>4, <3>5, <3>6, <1>7
  <2> QED BY <2>1, <2>2
<1> QED BY <1>1, <1>2, <1>4, <1>5, <1>9, <1>10

LEMMA SendDelivers ==
    ASSUME TypeOK, RegistryOK, NotSubscribed, NEW v \in Ura, DeliveryOK(v),
           NEW op \in Op, SendEvent(op)
    PROVE  DeliveryOK(v)'
<1>1. /\ emitting[op] # << >>
      /\ emitting' = [emitting EXCEPT ![op] = Tail(emitting[op])]
      /\ UNCHANGED <<byUra, session, pump, view, overlapped>>
      /\ missed' = IF pump = "snapshotted"
                   THEN missed \cup {Head(emitting[op]).ura} ELSE missed
      /\ IF pump \in {"streaming", "resnapshot"}
         THEN /\ inbox'[Pump] = Push(inbox[Pump], Head(emitting[op]))
              /\ Pump \in lagged' <=> Pump \in lagged \/ Len(inbox[Pump]) = EventCapacity
         ELSE inbox'[Pump] = inbox[Pump] /\ lagged' = lagged
  BY SendEffect
<1>2. PICK e : e = Head(emitting[op]) OBVIOUS
<1>3. PICK u : u = session[op[2]].ura OBVIOUS
<1>4. /\ u \in Ura /\ e \in Event /\ e.ura = u
      /\ Tail(emitting[op]) = << >> => (e.type = "online" <=> op[1] = "insert")
  BY <1>1, <1>2, <1>3, HeadFacts
<1>5. \A o \in Op : emitting'[o] = IF o = op THEN Tail(emitting[op]) ELSE emitting[o]
  BY <1>1 DEF TypeOK, RegistryTypeOK
<1>6. Owes(op, u) BY <1>1, <1>3 DEF Owes
<1>7. \A o \in Op, w \in Ura : Owes(o, w)' => Owes(o, w) BY <1>1, <1>5 DEF Owes
<1>8. \A w \in Ura : Occupied(w)' <=> Occupied(w) BY <1>1 DEF Occupied
<1>9. v \notin overlapped' => OneOwer(v)'
  BY <1>1, <1>7, <1>8 DEF DeliveryOK, OneOwer
<1>10. CASE v # u
  <2>1. \A o \in Op : Owes(o, v)' <=> Owes(o, v)
    BY <1>1, <1>3, <1>5, <1>10 DEF Owes
  <2>2. Owing(v)' <=> Owing(v) BY <2>1, OwingIs
  <2>3. v \in missed' <=> v \in missed BY <1>1, <1>2, <1>4, <1>10
  <2>4. Exact(v)' <=> Exact(v) BY <1>1 DEF Exact
  <2> SUFFICES ASSUME v \notin overlapped' \cup missed', ~Owing(v)'
               PROVE  LastIsRight(v)' /\ ViewIsRight(v)'
    BY <1>9 DEF DeliveryOK
  <2>5. LastIsRight(v) /\ ViewIsRight(v) BY <1>1, <2>2, <2>3 DEF DeliveryOK
  <2>6. CASE pump \notin {"streaming", "resnapshot"}
    <3>1. inbox'[Pump] = inbox[Pump] /\ lagged' = lagged BY <1>1, <2>6
    <3>2. About(v)' = About(v) BY <3>1 DEF About
    <3>3. LastIsRight(v)' BY <3>1, <3>2, <2>5, <1>8 DEF LastIsRight
    <3>4. ViewIsRight(v)' BY <3>1, <3>2, <2>4, <2>5, <1>1 DEF ViewIsRight
    <3> QED BY <3>3, <3>4
  <2>7. CASE pump \in {"streaming", "resnapshot"}
    <3>1. PICK d : d = IF Len(inbox[Pump]) = EventCapacity THEN 1 ELSE 0 OBVIOUS
    <3>2. inbox'[Pump] = Push(inbox[Pump], e) BY <1>1, <1>2, <2>7
    <3>3. /\ \A i \in About(v)' : i + d \in About(v) /\ inbox'[Pump][i] = inbox[Pump][i + d]
          /\ \A j \in About(v) : j > d => j - d \in About(v)'
      BY <3>1, <3>2, <1>4, <1>10, AboutAfterPush
    <3>4. d \in {0, 1} BY <3>1
    <3>5. About(v) \subseteq Nat \ {0} /\ About(v)' \subseteq Nat \ {0}
      <4>1. inbox[Pump] \in Seq(Event) BY PumpAssumption DEF TypeOK, RegistryTypeOK
      <4>2. inbox'[Pump] \in Seq(Event)
        BY SendEffect, PumpAssumption DEF RegistryTypeOK
      <4>3. DOMAIN inbox[Pump] = 1 .. Len(inbox[Pump]) /\ DOMAIN inbox'[Pump] = 1 .. Len(inbox'[Pump])
        BY <4>1, <4>2
      <4> QED BY <4>3 DEF About
    <3>6. LastIsRight(v)'
      <4> SUFFICES ASSUME NEW i \in About(v)', \A j \in About(v)' : j <= i
                   PROVE  inbox'[Pump][i].type = "online" <=> Occupied(v)'
        BY DEF LastIsRight
      <4>1. i + d \in About(v) /\ inbox'[Pump][i] = inbox[Pump][i + d] BY <3>3
      <4>2. ASSUME NEW j \in About(v) PROVE j <= i + d
        <5>1. CASE j > d
          <6>1. j - d <= i BY <5>1, <3>3
          <6> QED BY <6>1, <3>4, <3>5
        <5>2. CASE ~(j > d) BY <5>2, <3>4, <3>5
        <5> QED BY <5>1, <5>2
      <4> QED BY <4>1, <4>2, <2>5, <1>8 DEF LastIsRight
    <3>7. ViewIsRight(v)'
      <4> SUFFICES ASSUME About(v)' = {}, Pump \notin lagged', pump' \in {"snapshotted", "streaming"}
                   PROVE  Exact(v)
        BY <2>4 DEF ViewIsRight
      <4>1. Pump \notin lagged /\ d = 0 BY <1>1, <2>7, <3>1
      <4>2. About(v) = {} BY <3>3, <3>5, <4>1
      <4> QED BY <4>1, <4>2, <2>5, <1>1 DEF ViewIsRight
    <3> QED BY <3>6, <3>7
  <2> QED BY <2>6, <2>7
<1>11. CASE v = u
  <2> SUFFICES ASSUME v \notin overlapped' \cup missed', ~Owing(v)'
               PROVE  LastIsRight(v)' /\ ViewIsRight(v)'
    BY <1>9 DEF DeliveryOK
  <2>1. ~Owes(op, v)' BY OwingIs
  <2>2. Tail(emitting[op]) = << >> BY <2>1, <1>1, <1>3, <1>5, <1>11 DEF Owes
  <2>3. OneOwer(v) BY <1>1 DEF DeliveryOK
  <2>4. e.type = "online" <=> Occupied(v)
    BY <2>2, <2>3, <1>4, <1>6, <1>11 DEF OneOwer
  <2>5. pump # "snapshotted" BY <1>1, <1>2, <1>4, <1>11
  <2>6. CASE pump \in {"streaming", "resnapshot"}
    <3>1. inbox'[Pump] = Push(inbox[Pump], e) BY <1>1, <1>2, <2>6
    <3>2. PICK n : n = Len(inbox'[Pump]) OBVIOUS
    <3>3. /\ n \in Nat /\ inbox'[Pump][n] = e
          /\ n \in About(v)' /\ \A i \in About(v)' : i <= n
      BY <3>1, <3>2, <1>4, <1>11, AboutAfterPush
    <3>4. \A i \in About(v)' : i \in Int
      <4>1. inbox'[Pump] \in Seq(Event) BY SendEffect, PumpAssumption DEF RegistryTypeOK
      <4>2. DOMAIN inbox'[Pump] = 1 .. Len(inbox'[Pump]) BY <4>1
      <4> QED BY <4>2 DEF About
    <3>5. \A i \in About(v)' : (\A j \in About(v)' : j <= i) => i = n BY <3>3, <3>4
    <3>6. LastIsRight(v)' BY <3>3, <3>5, <2>4, <1>8 DEF LastIsRight
    <3>7. ViewIsRight(v)' BY <3>3 DEF ViewIsRight
    <3> QED BY <3>6, <3>7
  <2>7. CASE pump = "idle"
    <3>1. inbox'[Pump] = << >> BY <1>1, <2>7 DEF NotSubscribed
    <3>2. About(v)' = {} BY <3>1 DEF About
    <3> QED BY <3>2, <2>7, <1>1 DEF LastIsRight, ViewIsRight
  <2> QED BY <2>5, <2>6, <2>7 DEF TypeOK
<1> QED BY <1>10, <1>11

-----------------------------------------------------------------------------
(***************************************************************************)
(* The pump's own steps: the registry does not move.                       *)
(***************************************************************************)
LEMMA RegistryKept ==
    ASSUME RegistryOK, UNCHANGED <<byUra, nextSessionId, session, emitting>>
    PROVE  RegistryOK'
BY DEF RegistryOK, IdsAllocated, SlotsInstalled, SlotsNotRemoved, OwesRightly

\* Nothing that decides who owes events to whom has changed.
LEMMA OwersKept ==
    ASSUME NEW u \in Ura, DeliveryOK(u), UNCHANGED <<byUra, session, emitting, overlapped>>
    PROVE  /\ u \notin overlapped' => OneOwer(u)'
           /\ Owing(u)' <=> Owing(u)
           /\ Occupied(u)' <=> Occupied(u)
BY DEF DeliveryOK, OneOwer, Owes, Owing, Occupied

\* A fresh snapshot is exact about every URA.
LEMMA SnapshotDelivers ==
    ASSUME NEW u \in Ura, DeliveryOK(u), view' = Snapshot,
           UNCHANGED <<registryVars, overlapped, sent, missed>>
    PROVE  DeliveryOK(u)'
<1>1. UNCHANGED <<byUra, nextSessionId, session, emitting, inbox, lagged>> BY DEF registryVars
<1>2. Exact(u)' BY <1>1 DEF Exact, Snapshot
<1>3. ViewIsRight(u)' BY <1>2 DEF ViewIsRight
<1>4. /\ u \notin overlapped' => OneOwer(u)'
      /\ Owing(u)' <=> Owing(u)
      /\ Occupied(u)' <=> Occupied(u)
  BY <1>1, OwersKept
<1>5. LastIsRight(u) => LastIsRight(u)' BY <1>1, <1>4 DEF LastIsRight, About
<1> QED BY <1>3, <1>4, <1>5 DEF DeliveryOK

LEMMA PumpSnapshotStep ==
    ASSUME DirectoryInv, PumpSnapshot
    PROVE  DirectoryInv'
<1>1. /\ pump = "idle" /\ pump' = "snapshotted" /\ view' = Snapshot
      /\ UNCHANGED <<registryVars, overlapped, sent, missed>>
  BY DEF PumpSnapshot
<1>2. UNCHANGED <<byUra, nextSessionId, session, emitting, inbox, lagged>>
  BY <1>1 DEF registryVars
<1>3. TypeOK' BY <1>1, <1>2 DEF DirectoryInv, TypeOK, RegistryTypeOK, Snapshot
<1>4. RegistryOK' BY <1>2, RegistryKept DEF DirectoryInv
<1>5. EventsAccountForMap' BY <1>1, <1>2, AccountsKept DEF DirectoryInv
<1>6. NotSubscribed' BY <1>1, <1>2 DEF DirectoryInv, NotSubscribed
<1>7. \A u \in Ura : DeliveryOK(u)' BY <1>1, SnapshotDelivers DEF DirectoryInv
<1> QED BY <1>3, <1>4, <1>5, <1>6, <1>7 DEF DirectoryInv

LEMMA PumpResnapshotStep ==
    ASSUME DirectoryInv, PumpResnapshot
    PROVE  DirectoryInv'
<1>1. /\ pump' = "streaming" /\ view' = Snapshot
      /\ UNCHANGED <<registryVars, overlapped, sent, missed>>
  BY DEF PumpResnapshot
<1>2. UNCHANGED <<byUra, nextSessionId, session, emitting, inbox, lagged>>
  BY <1>1 DEF registryVars
<1>3. TypeOK' BY <1>1, <1>2 DEF DirectoryInv, TypeOK, RegistryTypeOK, Snapshot
<1>4. RegistryOK' BY <1>2, RegistryKept DEF DirectoryInv
<1>5. EventsAccountForMap' BY <1>1, <1>2, AccountsKept DEF DirectoryInv
<1>6. NotSubscribed' BY <1>1 DEF NotSubscribed
<1>7. \A u \in Ura : DeliveryOK(u)' BY <1>1, SnapshotDelivers DEF DirectoryInv
<1> QED BY <1>3, <1>4, <1>5, <1>6, <1>7 DEF DirectoryInv

LEMMA PumpSubscribeStep ==
    ASSUME DirectoryInv, PumpSubscribe
    PROVE  DirectoryInv'
<1>1. /\ pump = "snapshotted" /\ pump' = "streaming"
      /\ UNCHANGED <<registryVars, view, overlapped, sent, missed>>
  BY DEF PumpSubscribe
<1>2. UNCHANGED <<byUra, nextSessionId, session, emitting, inbox, lagged>>
  BY <1>1 DEF registryVars
<1>3. TypeOK' BY <1>1, <1>2 DEF DirectoryInv, TypeOK, RegistryTypeOK
<1>4. RegistryOK' BY <1>2, RegistryKept DEF DirectoryInv
<1>5. EventsAccountForMap' BY <1>1, <1>2, AccountsKept DEF DirectoryInv
<1>6. NotSubscribed' BY <1>1 DEF NotSubscribed
<1>7. ASSUME NEW u \in Ura PROVE DeliveryOK(u)'
  <2>1. DeliveryOK(u) BY DEF DirectoryInv
  <2>2. /\ u \notin overlapped' => OneOwer(u)'
        /\ Owing(u)' <=> Owing(u)
        /\ Occupied(u)' <=> Occupied(u)
    BY <2>1, <1>1, <1>2, OwersKept
  <2>3. LastIsRight(u) => LastIsRight(u)' BY <2>2, <1>2 DEF LastIsRight, About
  <2>4. ViewIsRight(u) => ViewIsRight(u)'
    BY <1>1, <1>2 DEF ViewIsRight, About, Exact
  <2> QED BY <2>1, <2>2, <2>3, <2>4, <1>1 DEF DeliveryOK
<1> QED BY <1>3, <1>4, <1>5, <1>6, <1>7 DEF DirectoryInv

LEMMA PumpLaggedStep ==
    ASSUME DirectoryInv, PumpLagged
    PROVE  DirectoryInv'
<1>1. /\ pump' = "resnapshot" /\ lagged' = lagged \ {Pump}
      /\ UNCHANGED <<byUra, nextSessionId, session, emitting, inbox, view, overlapped, sent, missed>>
  BY DEF PumpLagged, ReadLagged
<1>2. TypeOK' BY <1>1 DEF DirectoryInv, TypeOK, RegistryTypeOK
<1>3. RegistryOK' BY <1>1, RegistryKept DEF DirectoryInv
<1>4. EventsAccountForMap' BY <1>1, AccountsKept DEF DirectoryInv
<1>5. NotSubscribed' BY <1>1 DEF NotSubscribed
<1>6. ASSUME NEW u \in Ura PROVE DeliveryOK(u)'
  <2>1. DeliveryOK(u) BY DEF DirectoryInv
  <2>2. /\ u \notin overlapped' => OneOwer(u)'
        /\ Owing(u)' <=> Owing(u)
        /\ Occupied(u)' <=> Occupied(u)
    BY <2>1, <1>1, OwersKept
  <2>3. LastIsRight(u) => LastIsRight(u)' BY <2>2, <1>1 DEF LastIsRight, About
  <2>4. ViewIsRight(u)' BY <1>1 DEF ViewIsRight
  <2> QED BY <2>1, <2>2, <2>3, <2>4, <1>1 DEF DeliveryOK
<1> QED BY <1>2, <1>3, <1>4, <1>5, <1>6 DEF DirectoryInv

LEMMA PumpEventStep ==
    ASSUME DirectoryInv, PumpEvent
    PROVE  DirectoryInv'
<1>1. /\ pump = "streaming" /\ Pump \notin lagged /\ inbox[Pump] # << >>
      /\ inbox' = [inbox EXCEPT ![Pump] = Tail(inbox[Pump])]
      /\ view' = ApplyEvent(Head(inbox[Pump]), view)
      /\ UNCHANGED <<byUra, nextSessionId, session, emitting, lagged, pump, overlapped, sent, missed>>
  BY DEF PumpEvent, ReadEvent
<1>2. PICK q : q = inbox[Pump] OBVIOUS
<1>3. q \in Seq(Event) /\ Len(q) <= EventCapacity
  BY <1>2, PumpAssumption DEF DirectoryInv, TypeOK, RegistryTypeOK
<1>4. PICK p : p = Tail(q) OBVIOUS
<1>5. /\ p \in Seq(Event) /\ Len(p) = Len(q) - 1 /\ Len(q) \in Nat \ {0}
      /\ \A i \in 1 .. Len(p) : p[i] = q[i + 1]
      /\ Head(q) = q[1] /\ Head(q) \in Event
  BY <1>1, <1>2, <1>3, <1>4
<1>6. \A r \in Subscriber : inbox'[r] = IF r = Pump THEN p ELSE inbox[r]
  BY <1>1, <1>2, <1>4 DEF DirectoryInv, TypeOK, RegistryTypeOK
<1>7. TypeOK'
  <2>1. inbox' \in [Subscriber -> Seq(Event)]
    BY <1>1, <1>2, <1>4, <1>5 DEF DirectoryInv, TypeOK, RegistryTypeOK
  <2>2. \A r \in Subscriber : Len(inbox'[r]) <= EventCapacity
    <3> SUFFICES ASSUME NEW r \in Subscriber PROVE Len(inbox'[r]) <= EventCapacity
      OBVIOUS
    <3>1. CASE r = Pump BY <3>1, <1>3, <1>5, <1>6, RegistryAssumption
    <3>2. CASE r # Pump BY <3>2, <1>6 DEF DirectoryInv, TypeOK, RegistryTypeOK
    <3> QED BY <3>1, <3>2
  <2>3. Head(q).ura \in Ura BY <1>5 DEF Event
  <2>4. view' \subseteq Ura
    BY <2>3, <1>1, <1>2 DEF ApplyEvent, DirectoryInv, TypeOK
  <2>5. RegistryTypeOK'
    BY <2>1, <2>2, <1>1 DEF DirectoryInv, TypeOK, RegistryTypeOK
  <2> QED BY <2>4, <2>5, <1>1 DEF DirectoryInv, TypeOK
<1>8. RegistryOK' BY <1>1, RegistryKept DEF DirectoryInv
<1>9. EventsAccountForMap' BY <1>1, AccountsKept DEF DirectoryInv
<1>10. NotSubscribed' BY <1>1 DEF NotSubscribed
<1>11. ASSUME NEW u \in Ura PROVE DeliveryOK(u)'
  <2>1. DeliveryOK(u) BY DEF DirectoryInv
  <2>2. /\ u \notin overlapped' => OneOwer(u)'
        /\ Owing(u)' <=> Owing(u)
        /\ Occupied(u)' <=> Occupied(u)
    BY <2>1, <1>1, OwersKept
  <2> SUFFICES ASSUME u \notin overlapped' \cup missed', ~Owing(u)'
               PROVE  LastIsRight(u)' /\ ViewIsRight(u)'
    BY <2>2 DEF DeliveryOK
  <2>3. LastIsRight(u) /\ ViewIsRight(u) BY <2>1, <2>2, <1>1 DEF DeliveryOK
  <2>4. About(u) = {i \in 1 .. Len(q) : q[i].ura = u} BY <1>2, <1>3 DEF About
  <2>5. inbox'[Pump] = p BY <1>6, PumpAssumption
  <2>6. About(u)' = {i \in 1 .. Len(p) : p[i].ura = u}
    <3>1. DOMAIN p = 1 .. Len(p) BY <1>5
    <3> QED BY <2>5, <3>1 DEF About
  <2>7. ASSUME NEW i \in About(u)' PROVE i + 1 \in About(u) BY <2>4, <2>6, <1>5
  <2>8. ASSUME NEW j \in About(u), j # 1 PROVE j - 1 \in About(u)'
    <3>1. j \in 1 .. Len(q) /\ q[j].ura = u BY <2>4
    <3>2. j - 1 \in 1 .. Len(p) BY <3>1, <2>8, <1>5
    <3>3. p[j - 1] = q[(j - 1) + 1] /\ (j - 1) + 1 = j BY <3>1, <3>2, <1>5
    <3> QED BY <3>1, <3>2, <3>3, <2>6
  <2>9. LastIsRight(u)'
    <3> SUFFICES ASSUME NEW i \in About(u)', \A j \in About(u)' : j <= i
                 PROVE  inbox'[Pump][i].type = "online" <=> Occupied(u)'
      BY DEF LastIsRight
    <3>1. i + 1 \in About(u) BY <2>7
    <3>2. i \in 1 .. Len(p) BY <2>6
    <3>3. ASSUME NEW j \in About(u) PROVE j <= i + 1
      <4>1. j \in Int /\ i \in Int /\ 1 <= i BY <2>4, <3>2
      <4>2. CASE j = 1 BY <4>1, <4>2
      <4>3. CASE j # 1
        <5>1. j - 1 <= i BY <4>3, <2>8
        <5> QED BY <5>1, <4>1
      <4> QED BY <4>2, <4>3
    <3>4. inbox[Pump][i + 1].type = "online" <=> Occupied(u)
      BY <3>1, <3>3, <2>3 DEF LastIsRight
    <3> QED BY <3>2, <3>4, <2>2, <2>5, <1>2, <1>5
  <2>10. ViewIsRight(u)'
    <3> SUFFICES ASSUME About(u)' = {} PROVE Exact(u)'
      BY DEF ViewIsRight
    <3>1. \A j \in About(u) : j = 1 BY <2>8
    <3>2. CASE About(u) = {}
      <4>1. Exact(u) BY <3>2, <2>3, <1>1 DEF ViewIsRight
      <4>2. q[1].ura # u BY <3>2, <2>4, <1>5
      <4>3. u \in view' <=> u \in view BY <4>2, <1>1, <1>2, <1>5 DEF ApplyEvent
      <4> QED BY <4>1, <4>3, <1>1 DEF Exact
    <3>3. CASE About(u) # {}
      <4>1. 1 \in About(u) BY <3>1, <3>3
      <4>2. q[1].ura = u BY <4>1, <2>4
      <4>3. \A j \in About(u) : j <= 1 BY <3>1
      <4>4. inbox[Pump][1].type = "online" <=> Occupied(u)
        BY <4>1, <4>3, <2>3 DEF LastIsRight
      <4>5. u \in view' <=> q[1].type = "online" BY <4>2, <1>1, <1>2, <1>5 DEF ApplyEvent
      <4> QED BY <4>4, <4>5, <1>1, <1>2 DEF Exact, Occupied
    <3> QED BY <3>2, <3>3
  <2> QED BY <2>9, <2>10
<1> QED BY <1>7, <1>8, <1>9, <1>10, <1>11 DEF DirectoryInv

-----------------------------------------------------------------------------
(***************************************************************************)
(* The invariant and the theorems.                                         *)
(***************************************************************************)
LEMMA DirectoryInit == Init => DirectoryInv
<1> SUFFICES ASSUME Init PROVE DirectoryInv
  OBVIOUS
<1> USE DEF Init, RegistryInit
<1>1. TypeOK
  <2>1. Unused \in SessionRecord BY DEF Unused, SessionRecord
  <2>2. << >> \in Seq(Event) /\ Len(<< >>) = 0 OBVIOUS
  <2>3. session \in [Session -> SessionRecord] BY <2>1
  <2>4. emitting \in [Op -> Seq(Event)] /\ inbox \in [Subscriber -> Seq(Event)] BY <2>2
  <2>5. \A r \in Subscriber : Len(inbox[r]) <= EventCapacity BY <2>2, RegistryAssumption
  <2>6. nextSessionId \in 1 .. MaxSession + 1 BY RegistryAssumption
  <2>7. byUra \in [Ura -> Session \cup {NoSession}] OBVIOUS
  <2> QED BY <2>3, <2>4, <2>5, <2>6, <2>7 DEF TypeOK, RegistryTypeOK
<1>2. \A u \in Ura : byUra[u] = NoSession OBVIOUS
<1>3. \A op \in Op : emitting[op] = << >> OBVIOUS
<1>4. \A s \in Session : session[s].stage = "unused" BY DEF Unused
<1>5. RegistryOK
  <2>1. \A op \in Op : OwesRightly(op) BY <1>3 DEF OwesRightly
  <2>2. IdsAllocated BY <1>4 DEF IdsAllocated
  <2> QED BY <2>1, <2>2, <1>2 DEF RegistryOK, SlotsInstalled, SlotsNotRemoved
<1>6. EventsAccountForMap
  <2> SUFFICES ASSUME NEW u \in Ura
               PROVE  sent[Online(u)] + Owed(Online(u))
                        = sent[Offline(u)] + Owed(Offline(u)) + (IF byUra[u] = NoSession THEN 0 ELSE 1)
    BY DEF EventsAccountForMap
  <2>1. \A e : Owed(e) = 0
    <3> SUFFICES ASSUME NEW e PROVE Owed(e) = 0
      OBVIOUS
    <3>1. Owers(e) = {} BY <1>3 DEF Owers, Contains
    <3> QED BY <3>1, OwersFinite, FS_EmptySet
  <2>2. sent[Online(u)] = 0 /\ sent[Offline(u)] = 0 BY EventFacts
  <2> QED BY <2>1, <2>2, <1>2
<1>7. NotSubscribed BY PumpAssumption DEF NotSubscribed
<1>8. ASSUME NEW u \in Ura PROVE DeliveryOK(u)
  <2>1. OneOwer(u) BY <1>3 DEF OneOwer, Owes
  <2>2. About(u) = {} BY PumpAssumption DEF About
  <2>3. LastIsRight(u) BY <2>2 DEF LastIsRight
  <2>4. ViewIsRight(u) BY DEF ViewIsRight
  <2> QED BY <2>1, <2>3, <2>4 DEF DeliveryOK
<1> QED BY <1>1, <1>5, <1>6, <1>7, <1>8 DEF DirectoryInv

\* A step on the registry's map.
LEMMA MapStep ==
    ASSUME DirectoryInv, SomeWrite \/ Quiet, RegistryOK', RegistryTypeOK'
    PROVE  DirectoryInv'
<1>1. UNCHANGED <<inbox, lagged, pump, view, sent, missed>>
  BY DEF SomeWrite, Writes, Quiet
<1>2. overlapped' \subseteq Ura
  BY DEF SomeWrite, Writes, Quiet, DirectoryInv, TypeOK
<1>3. TypeOK' BY <1>1, <1>2 DEF DirectoryInv, TypeOK
<1>4. EventsAccountForMap'
  <2>1. CASE SomeWrite BY <2>1, WriteAccounts DEF DirectoryInv
  <2>2. CASE Quiet BY <2>2, AccountsKept DEF Quiet, DirectoryInv
  <2> QED BY <2>1, <2>2
<1>5. NotSubscribed' BY <1>1 DEF NotSubscribed, DirectoryInv
<1>6. \A u \in Ura : DeliveryOK(u)'
  BY QuietDelivers, WriteDelivers DEF DirectoryInv
<1> QED BY <1>3, <1>4, <1>5, <1>6 DEF DirectoryInv

LEMMA SendStep ==
    ASSUME DirectoryInv, NEW op \in Op, SendEvent(op)
    PROVE  DirectoryInv'
<1>1. TypeOK /\ RegistryOK /\ EventsAccountForMap /\ NotSubscribed BY DEF DirectoryInv
<1>2. RegistryOK' /\ RegistryTypeOK' BY <1>1, SendEffect
<1>3. EventsAccountForMap' /\ sent' \in [Event -> Nat] BY <1>1, SendAccounts
<1>4. \A u \in Ura : DeliveryOK(u)' BY <1>1, SendDelivers DEF DirectoryInv
<1>5. UNCHANGED <<pump, view, overlapped>> BY <1>1, SendEffect
<1>6. missed' \subseteq Ura
  <2>1. emitting[op] # << >> BY <1>1, SendEffect
  <2>2. Head(emitting[op]).ura \in Ura BY <1>1, <2>1, HeadFacts
  <2> QED BY <2>2, <1>1, SendEffect DEF TypeOK
<1>7. TypeOK' BY <1>1, <1>2, <1>3, <1>5, <1>6 DEF TypeOK
<1>8. NotSubscribed' BY <1>1, <1>5, SendEffect DEF NotSubscribed
<1> QED BY <1>2, <1>3, <1>4, <1>7, <1>8 DEF DirectoryInv

LEMMA DirectoryStep == DirectoryInv /\ [Next]_vars => DirectoryInv'
<1> SUFFICES ASSUME DirectoryInv, [Next]_vars PROVE DirectoryInv'
  OBVIOUS
<1>0. TypeOK /\ RegistryOK BY DEF DirectoryInv
<1>1. ASSUME NEW u \in Ura, NEW k \in Key, OpenSession(u, k) PROVE DirectoryInv'
  BY <1>0, <1>1, AllocateQuiet, MapStep DEF OpenSession
<1>2. ASSUME NEW u \in Ura, NEW k \in Key, RevokeUserKey(u, k) PROVE DirectoryInv'
  <2>1. Remove(u) \/ UNCHANGED <<byUra, emitting>>
    BY <1>2 DEF RevokeUserKey, ForceRevokeIfAdmittedKey
  <2>2. /\ NoteOverlap(u)
        /\ UNCHANGED <<nextSessionId, session, inbox, lagged, pump, view, sent, missed>>
    BY <1>2 DEF RevokeUserKey
  <2> QED BY <1>0, <2>1, <2>2, RemoveWrites, NoRemoval, MapStep
<1>3. ASSUME NEW u \in Ura, SeedSelfPresence(u) PROVE DirectoryInv'
  BY <1>0, <1>3, AllocateQuiet, MapStep DEF SeedSelfPresence
<1>4. ASSUME NEW u \in Ura, ForceRevoke(u) PROVE DirectoryInv'
  BY <1>0, <1>4, RemoveWrites, MapStep DEF ForceRevoke
<1>5. ASSUME NEW s \in Session, InsertSession(s) PROVE DirectoryInv'
  BY <1>0, <1>5, InstallWrites, MapStep DEF InsertSession
<1>6. ASSUME NEW s \in Session, RemoveRecorded(s) PROVE DirectoryInv'
  <2>1. session[s].ura \in Ura
    BY <1>0, <1>6 DEF RemoveRecorded, RegistryOK, IdsAllocated
  <2>2. Remove(session[s].ura) \/ UNCHANGED <<byUra, emitting>>
    BY <1>6 DEF RemoveRecorded, RemoveIfSession
  <2>3. /\ NoteOverlap(session[s].ura)
        /\ UNCHANGED <<nextSessionId, session, inbox, lagged, pump, view, sent, missed>>
    BY <1>6 DEF RemoveRecorded
  <2> QED BY <1>0, <2>1, <2>2, <2>3, RemoveWrites, NoRemoval, MapStep
<1>7. ASSUME NEW op \in Op, SendEvent(op) PROVE DirectoryInv'
  BY <1>7, SendStep
<1>8. CASE PumpSnapshot BY <1>8, PumpSnapshotStep
<1>9. CASE PumpSubscribe BY <1>9, PumpSubscribeStep
<1>10. CASE PumpEvent BY <1>10, PumpEventStep
<1>11. CASE PumpLagged BY <1>11, PumpLaggedStep
<1>12. CASE PumpResnapshot BY <1>12, PumpResnapshotStep
<1>13. CASE UNCHANGED vars
  <2>1. Quiet BY <1>13 DEF vars, Quiet
  <2>2. RegistryOK' /\ RegistryTypeOK'
    BY <1>0, <1>13, RegistryKept DEF vars, TypeOK, RegistryTypeOK
  <2> QED BY <2>1, <2>2, MapStep
<1> QED
  BY <1>1, <1>2, <1>3, <1>4, <1>5, <1>6, <1>7, <1>8, <1>9, <1>10, <1>11, <1>12, <1>13 DEF Next

LEMMA DirectoryInvariant == Spec => []DirectoryInv
BY DirectoryInit, DirectoryStep, PTL DEF Spec

(***************************************************************************)
(* Every reachable state of the registry and of the pump is well typed,    *)
(* every receiver's ring within its capacity (presence.rs with             *)
(* subscribe_directory_v2).                                                *)
(***************************************************************************)
THEOREM DirectoryTypes == Spec => []TypeOK
<1>1. DirectoryInv => TypeOK BY DEF DirectoryInv
<1> QED BY <1>1, DirectoryInvariant, PTL

(***************************************************************************)
(* Every generation that enters the map is announced exactly once and      *)
(* every one that leaves it, removed or displaced, is retired exactly once *)
(* (insert, remove, remove_if_session and force_revoke of presence.rs).    *)
(***************************************************************************)
THEOREM EventsAccount == Spec => []EventsAccountForMap
<1>1. DirectoryInv => EventsAccountForMap BY DEF DirectoryInv
<1> QED BY <1>1, DirectoryInvariant, PTL

(***************************************************************************)
(* Whatever lags and re-snapshots happened, the consumer of a directory    *)
(* subscription is exact about every URA with nothing in flight whose      *)
(* operations never overlapped and which missed no event before the        *)
(* subscription (subscribe_directory_v2's pump over presence.rs).          *)
(***************************************************************************)
THEOREM SettledDirectoryIsExact == Spec => []SettledViewIsExact
<1>1. DirectoryInv => SettledViewIsExact
  <2> SUFFICES ASSUME DirectoryInv, NEW u \in Ura \ (overlapped \cup missed), Settled(u)
               PROVE  Exact(u)
    BY DEF SettledViewIsExact
  <2>1. DeliveryOK(u) BY DEF DirectoryInv
  <2>2. ViewIsRight(u) BY <2>1 DEF DeliveryOK, Settled
  <2>3. About(u) = {} BY DEF About, Settled
  <2> QED BY <2>2, <2>3 DEF ViewIsRight, Settled
<1> QED BY <1>1, DirectoryInvariant, PTL

(***************************************************************************)
(* A generation that left the map never returns to it: the ids are fresh   *)
(* and an insert installs only the id it was just given (allocator and     *)
(* insert of presence.rs).                                                 *)
(***************************************************************************)
THEOREM GenerationsStayRetired == Spec => NoResurrection
<1>1. ASSUME DirectoryInv, [Next]_vars, NEW s \in Session, Retired(s) PROVE Retired(s)'
  <2>0. TypeOK /\ RegistryOK BY <1>1 DEF DirectoryInv
  <2>1. session[s].stage = "installed" /\ session[s].ura \in Ura
    BY <1>1, <2>0 DEF Retired, RegistryOK, IdsAllocated
  <2>2. /\ session'[s] = session[s]
        /\ \A u \in Ura : byUra'[u] = s => byUra[u] = s
    <3> USE DEF NoSession, Session
    <3>1. ASSUME NEW u \in Ura, Remove(u), UNCHANGED session
          PROVE  \A v \in Ura : byUra'[v] = s => byUra[v] = s
      BY <3>1, <2>0 DEF Remove, TypeOK, RegistryTypeOK
    <3>2. ASSUME NEW u \in Ura, NEW kind, NEW key, Allocate(u, kind, key), UNCHANGED byUra
          PROVE  session'[s] = session[s]
      <4>1. s # nextSessionId BY <2>0, <2>1 DEF RegistryOK, IdsAllocated, TypeOK, RegistryTypeOK
      <4> QED BY <4>1, <3>2, <2>0 DEF Allocate, TypeOK, RegistryTypeOK
    <3>3. ASSUME NEW t \in Session, Install(t)
          PROVE  session'[s] = session[s] /\ \A u \in Ura : byUra'[u] = s => byUra[u] = s
      <4>1. t # s BY <3>3, <2>1 DEF Install
      <4> QED BY <4>1, <3>3, <2>0 DEF Install, TypeOK, RegistryTypeOK
    <3>4. CASE \E u \in Ura, k \in Key : OpenSession(u, k) \/ RevokeUserKey(u, k)
      BY <3>1, <3>2, <3>4 DEF OpenSession, RevokeUserKey, ForceRevokeIfAdmittedKey
    <3>5. CASE \E u \in Ura : SeedSelfPresence(u) \/ ForceRevoke(u)
      BY <3>1, <3>2, <3>5 DEF SeedSelfPresence, ForceRevoke
    <3>6. CASE \E t \in Session : InsertSession(t) \/ RemoveRecorded(t)
      <4>1. PICK t \in Session : InsertSession(t) \/ RemoveRecorded(t) BY <3>6
      <4>2. CASE InsertSession(t) BY <3>3, <4>2 DEF InsertSession
      <4>3. CASE RemoveRecorded(t)
        <5>1. session[t].ura \in Ura BY <4>3, <2>0 DEF RemoveRecorded, RegistryOK, IdsAllocated
        <5> QED BY <3>1, <4>3, <5>1 DEF RemoveRecorded, RemoveIfSession
      <4> QED BY <4>1, <4>2, <4>3
    <3>7. CASE \E op \in Op : SendEvent(op) BY <3>7 DEF SendEvent
    <3>8. CASE PumpSnapshot \/ PumpSubscribe \/ PumpEvent \/ PumpLagged \/ PumpResnapshot
      BY <3>8 DEF PumpSnapshot, PumpSubscribe, PumpEvent, PumpLagged, PumpResnapshot, registryVars
    <3>9. CASE UNCHANGED vars BY <3>9 DEF vars
    <3> QED BY <1>1, <3>4, <3>5, <3>6, <3>7, <3>8, <3>9 DEF Next
  <2> QED BY <1>1, <2>1, <2>2 DEF Retired
<1>2. DirectoryInv /\ [Next]_vars => [\A s \in Session : Retired(s) => Retired(s)']_vars
  BY <1>1
<1> QED BY <1>2, DirectoryInvariant, PTL DEF Spec, NoResurrection

=============================================================================
