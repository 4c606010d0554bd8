----------------------- MODULE SessionDispatchProofs -----------------------
(***************************************************************************)
(* Proofs about SessionDispatch, for every set of URAs, calls and          *)
(* subscribers and every bound.                                            *)
(***************************************************************************)
EXTENDS SessionDispatch, SequenceTheorems, TLAPS

(***************************************************************************)
(* The type invariant is not inductive by itself: a removal looks up the   *)
(* slot of a session's URA, which is a URA only once the session has been  *)
(* allocated, and a dispatcher past its lookup must name a real session.   *)
(***************************************************************************)
IdsAllocated ==
    \A s \in Session : session[s].stage # "unused" =>
        session[s].ura \in Ura /\ s < nextSessionId

ProvidersInstalled ==
    \A s \in Session :
        /\ provider[s] # "absent" => session[s].stage = "installed"
        /\ pump[s] # "absent" => provider[s] # "absent"
        /\ linked[s] => provider[s] # "absent"

PushesTargeted ==
    /\ \A s \in Session : pump[s] = "pushing" =>
          pushTo[s] \in Session /\ session[pushTo[s]].stage # "unused"
    /\ \A s \in lent : session[s].stage # "unused"

SlotsInstalled ==
    \A u \in Ura : byUra[u] # NoSession =>
        session[byUra[u]].stage = "installed" /\ session[byUra[u]].ura = u

SessionsWellFormed ==
    IdsAllocated /\ ProvidersInstalled /\ PushesTargeted /\ SlotsInstalled

CallsWellFormed ==
    \A c \in Call : call[c].pc \in {"looked", "registered", "waiting"} =>
        call[c].target \in Ura /\ call[c].via \in Session

TypeInv == TypeOK /\ SessionsWellFormed /\ CallsWellFormed

-----------------------------------------------------------------------------
(***************************************************************************)
(* The registry's operators.                                               *)
(***************************************************************************)

\* A broadcast ring keeps its capacity.
LEMMA PushTyped ==
    ASSUME NEW q \in Seq(Event), Len(q) <= EventCapacity, NEW e \in Event
    PROVE  Push(q, e) \in Seq(Event) /\ Len(Push(q, e)) <= EventCapacity
<1>1. CASE Len(q) = EventCapacity
  <2>1. q # << >> BY <1>1, RegistryAssumption
  <2>2. Tail(q) \in Seq(Event) /\ Len(Tail(q)) = Len(q) - 1 BY <2>1
  <2> QED BY <1>1, <2>2, RegistryAssumption DEF Push
<1>2. CASE Len(q) # EventCapacity
  BY <1>2, RegistryAssumption DEF Push
<1> QED BY <1>1, <1>2

\* A removal empties one slot at most and changes no other.
LEMMA RemoveTyped ==
    ASSUME RegistryTypeOK, NEW u \in Ura, Remove(u)
    PROVE  /\ byUra' \in [Ura -> Session \cup {NoSession}]
           /\ emitting' \in [Op -> Seq(Event)]
           /\ \A v \in Ura : byUra'[v] # NoSession => byUra'[v] = byUra[v]
<1>1. CASE byUra[u] = NoSession
  BY <1>1 DEF Remove, RegistryTypeOK
<1>2. CASE byUra[u] # NoSession
  <2>1. byUra[u] \in Session BY <1>2 DEF RegistryTypeOK
  <2>2. <<Offline(u)>> \in Seq(Event) BY DEF Offline, Event
  <2>3. <<"remove", byUra[u]>> \in Op BY <2>1 DEF Op
  <2>4. byUra' = [byUra EXCEPT ![u] = NoSession]
    BY <1>2 DEF Remove
  <2>5. emitting' = [emitting EXCEPT ![<<"remove", byUra[u]>>] = <<Offline(u)>>]
    BY <1>2 DEF Remove
  <2>6. emitting' \in [Op -> Seq(Event)]
    BY <2>2, <2>5 DEF RegistryTypeOK
  <2> QED BY <2>4, <2>6 DEF RegistryTypeOK
<1> QED BY <1>1, <1>2

LEMMA RemoveIfSessionTyped ==
    ASSUME RegistryTypeOK, NEW u \in Ura, NEW s, RemoveIfSession(u, s)
    PROVE  /\ byUra' \in [Ura -> Session \cup {NoSession}]
           /\ emitting' \in [Op -> Seq(Event)]
           /\ \A v \in Ura : byUra'[v] # NoSession => byUra'[v] = byUra[v]
<1>1. CASE byUra[u] = s BY <1>1, RemoveTyped DEF RemoveIfSession
<1>2. CASE byUra[u] # s BY <1>2 DEF RemoveIfSession, RegistryTypeOK
<1> QED BY <1>1, <1>2

\* An allocation gives a fresh id its facts and touches no id in use.
LEMMA AllocateTyped ==
    ASSUME TypeInv, NEW u \in Ura, NEW kind \in {"dispatch", "resolveOnly"},
           Allocate(u, kind, NoKey)
    PROVE  /\ nextSessionId \in Session
           /\ nextSessionId' \in 1 .. MaxSession + 1
           /\ nextSessionId' = nextSessionId + 1
           /\ session' \in [Session -> SessionRecord]
           /\ session'[nextSessionId].ura = u
           /\ session'[nextSessionId].stage = "allocated"
           /\ \A s \in Session : s # nextSessionId => session'[s] = session[s]
           /\ session[nextSessionId].stage = "unused"
<1>1. nextSessionId \in Session /\ nextSessionId' \in 1 .. MaxSession + 1
  BY RegistryAssumption DEF TypeInv, TypeOK, RegistryTypeOK, Allocate, Session
<1>2. [stage |-> "allocated", ura |-> u, kind |-> kind, key |-> NoKey] \in SessionRecord
  BY DEF SessionRecord
<1>3. session[nextSessionId].stage = "unused"
  BY <1>1 DEF TypeInv, SessionsWellFormed, IdsAllocated, Session
<1> QED BY <1>1, <1>2, <1>3 DEF TypeInv, TypeOK, RegistryTypeOK, Allocate

\* An install moves one allocated id to its URA's slot.
LEMMA InstallTyped ==
    ASSUME TypeInv, NEW s \in Session, Install(s)
    PROVE  /\ byUra' \in [Ura -> Session \cup {NoSession}]
           /\ emitting' \in [Op -> Seq(Event)]
           /\ session' \in [Session -> SessionRecord]
           /\ session[s].ura \in Ura
           /\ byUra' = [byUra EXCEPT ![session[s].ura] = s]
           /\ session[s].stage = "allocated"
           /\ session'[s].stage = "installed"
           /\ \A t \in Session : t # s => session'[t] = session[t]
           /\ \A t \in Session : session'[t].ura = session[t].ura
<1>1. session[s].stage = "allocated" BY DEF Install
<1>2. session[s].ura \in Ura BY <1>1 DEF TypeInv, SessionsWellFormed, IdsAllocated
<1>3. session[s] \in SessionRecord BY DEF TypeInv, TypeOK, RegistryTypeOK
<1>4. session' = [session EXCEPT ![s].stage = "installed"] BY DEF Install
<1>5. session' \in [Session -> SessionRecord]
  BY <1>3, <1>4 DEF TypeInv, TypeOK, RegistryTypeOK, SessionRecord
<1>6. /\ session'[s].stage = "installed"
      /\ \A t \in Session : t # s => session'[t] = session[t]
      /\ \A t \in Session : session'[t].ura = session[t].ura
  BY <1>3, <1>4 DEF TypeInv, TypeOK, RegistryTypeOK, SessionRecord
<1>7. InsertEvents(session[s].ura, byUra[session[s].ura]) \in Seq(Event)
  <2>1. Online(session[s].ura) \in Event /\ Offline(session[s].ura) \in Event
    BY <1>2 DEF Online, Offline, Event
  <2>2. <<Online(session[s].ura)>> \in Seq(Event) BY <2>1
  <2>3. <<Offline(session[s].ura), Online(session[s].ura)>> \in Seq(Event) BY <2>1
  <2> QED BY <2>2, <2>3 DEF InsertEvents
<1>8. emitting' \in [Op -> Seq(Event)]
  BY <1>7 DEF Install, TypeInv, TypeOK, RegistryTypeOK
<1>9. byUra' = [byUra EXCEPT ![session[s].ura] = s] BY DEF Install
<1>10. byUra' \in [Ura -> Session \cup {NoSession}]
  BY <1>2, <1>9 DEF TypeInv, TypeOK, RegistryTypeOK
<1> QED BY <1>1, <1>2, <1>5, <1>6, <1>8, <1>9, <1>10

\* Closing a lease removes at most the session's own slot.
LEMMA CloseLeaseTyped ==
    ASSUME TypeInv, NEW s \in Session, session[s].ura \in Ura, CloseLease(s)
    PROVE  /\ byUra' \in [Ura -> Session \cup {NoSession}]
           /\ emitting' \in [Op -> Seq(Event)]
           /\ \A v \in Ura : byUra'[v] # NoSession => byUra'[v] = byUra[v]
           /\ lease' \in [Session -> {"none", "active", "closed"}]
<1>1. lease' \in [Session -> {"none", "active", "closed"}]
  BY DEF CloseLease, TypeInv, TypeOK, SessionsTypeOK
<1>2. CASE lease[s] = "closed"
  BY <1>1, <1>2 DEF CloseLease, TypeInv, TypeOK, RegistryTypeOK
<1>3. CASE lease[s] # "closed"
  BY <1>1, <1>3, RemoveIfSessionTyped DEF CloseLease, TypeInv, TypeOK
<1> QED BY <1>2, <1>3

\* What tearing a provider down leaves behind.
LEMMA TearDownTyped ==
    ASSUME TypeInv, NEW s \in Session, TearDown(s)
    PROVE  /\ provider' \in [Session -> {"absent", "announcing", "running", "draining", "ended"}]
           /\ chan' \in [Session -> Seq(Frame)]
           /\ \A t \in Session : Len(chan'[t]) <= DownCapacity
           /\ held' \in [Session -> Seq(NormalFrame)]
           /\ pump' \in [Session -> {"absent", "running", "pushing", "ended"}]
           /\ linked' \in [Session -> BOOLEAN]
           /\ device' \in [Session -> SUBSET Call]
           /\ up' \in [Session -> Seq(UpFrame)]
           /\ \A t \in Session : t # s => /\ provider'[t] = provider[t]
                                          /\ pump'[t] = pump[t]
                                          /\ linked'[t] = linked[t]
           /\ provider'[s] = "ended"
           /\ pump'[s] = "pushing" => pump[s] = "pushing"
  BY DispatchAssumption DEF TearDown, TypeInv, TypeOK, SessionsTypeOK

\* A dispatcher that returns leaves a well-formed record.
LEMMA ReturnTyped ==
    ASSUME TypeInv, NEW c \in Call, NEW o \in Outcome, Return(c, o),
           pending' \subseteq Call, executed' = executed
    PROVE  CallsTypeOK' /\ CallsWellFormed'
<1>1. [NewCall EXCEPT !.pc = "done", !.outcome = o] \in CallRecord
  BY DEF NewCall, CallRecord, NoReply
<1>2. [NewCall EXCEPT !.pc = "done", !.outcome = o].pc = "done"
  BY DEF NewCall
<1> QED
  BY <1>1, <1>2 DEF Return, TypeInv, TypeOK, CallsTypeOK, CallsWellFormed

-----------------------------------------------------------------------------
\* One step of any task keeps the type invariant.
LEMMA TypeInvStep == TypeInv /\ [Next]_vars => TypeInv'
<1> SUFFICES ASSUME TypeInv, [Next]_vars PROVE TypeInv' OBVIOUS
<1> USE DEF TypeInv, TypeOK, registryVars, sessionVars, callVars, watcherVars
<1>1. ASSUME NEW u \in Ura, OpenSession(u) PROVE TypeInv'
  <2>1. /\ nextSessionId \in Session
        /\ nextSessionId' \in 1 .. MaxSession + 1
        /\ nextSessionId' = nextSessionId + 1
        /\ session' \in [Session -> SessionRecord]
        /\ session'[nextSessionId].ura = u
        /\ session'[nextSessionId].stage = "allocated"
        /\ \A s \in Session : s # nextSessionId => session'[s] = session[s]
        /\ session[nextSessionId].stage = "unused"
     BY <1>1, AllocateTyped DEF OpenSession
  <2>2. RegistryTypeOK'
    BY <1>1, <2>1 DEF OpenSession, RegistryTypeOK
  <2>3. SessionsWellFormed'
    <3>1. IdsAllocated' BY <2>1 DEF RegistryTypeOK, SessionsWellFormed, IdsAllocated, Session
    <3>2. ProvidersInstalled'
      BY <1>1, <2>1 DEF OpenSession, SessionsWellFormed, ProvidersInstalled
    <3>3. PushesTargeted'
      BY <1>1, <2>1 DEF OpenSession, SessionsWellFormed, PushesTargeted, SessionsTypeOK
    <3>4. ASSUME NEW v \in Ura, byUra'[v] # NoSession
          PROVE  session'[byUra'[v]].stage = "installed" /\ session'[byUra'[v]].ura = v
      <4>1. byUra'[v] = byUra[v] BY <1>1 DEF OpenSession
      <4>2. byUra[v] \in Session BY <3>4, <4>1 DEF RegistryTypeOK
      <4>3. session[byUra[v]].stage = "installed" /\ session[byUra[v]].ura = v
        BY <3>4, <4>1 DEF SessionsWellFormed, SlotsInstalled
      <4>4. byUra[v] # nextSessionId BY <2>1, <4>3
      <4> QED BY <2>1, <4>1, <4>2, <4>3, <4>4
    <3> QED BY <3>1, <3>2, <3>3, <3>4 DEF SessionsWellFormed, SlotsInstalled
  <2>4. SessionsTypeOK' /\ CallsTypeOK' /\ WatcherTypeOK' /\ CallsWellFormed'
    BY <1>1 DEF OpenSession, SessionsTypeOK, CallsTypeOK, WatcherTypeOK,
         CallsWellFormed
  <2> QED BY <2>2, <2>3, <2>4
<1>2. ASSUME NEW u \in Ura, SeedSelfPresence(u) PROVE TypeInv'
  <2>1. /\ nextSessionId \in Session
        /\ nextSessionId' \in 1 .. MaxSession + 1
        /\ nextSessionId' = nextSessionId + 1
        /\ session' \in [Session -> SessionRecord]
        /\ session'[nextSessionId].ura = u
        /\ session'[nextSessionId].stage = "allocated"
        /\ \A s \in Session : s # nextSessionId => session'[s] = session[s]
        /\ session[nextSessionId].stage = "unused"
     BY <1>2, AllocateTyped DEF SeedSelfPresence
  <2>2. RegistryTypeOK'
    BY <1>2, <2>1 DEF SeedSelfPresence, RegistryTypeOK
  <2>3. SessionsWellFormed'
    <3>1. IdsAllocated' BY <2>1 DEF RegistryTypeOK, SessionsWellFormed, IdsAllocated, Session
    <3>2. ProvidersInstalled'
      BY <1>2, <2>1 DEF SeedSelfPresence, SessionsWellFormed, ProvidersInstalled
    <3>3. PushesTargeted'
      BY <1>2, <2>1 DEF SeedSelfPresence, SessionsWellFormed, PushesTargeted, SessionsTypeOK
    <3>4. ASSUME NEW v \in Ura, byUra'[v] # NoSession
          PROVE  session'[byUra'[v]].stage = "installed" /\ session'[byUra'[v]].ura = v
      <4>1. byUra'[v] = byUra[v] BY <1>2 DEF SeedSelfPresence
      <4>2. byUra[v] \in Session BY <3>4, <4>1 DEF RegistryTypeOK
      <4>3. session[byUra[v]].stage = "installed" /\ session[byUra[v]].ura = v
        BY <3>4, <4>1 DEF SessionsWellFormed, SlotsInstalled
      <4>4. byUra[v] # nextSessionId BY <2>1, <4>3
      <4> QED BY <2>1, <4>1, <4>2, <4>3, <4>4
    <3> QED BY <3>1, <3>2, <3>3, <3>4 DEF SessionsWellFormed, SlotsInstalled
  <2>4. SessionsTypeOK' /\ CallsTypeOK' /\ WatcherTypeOK' /\ CallsWellFormed'
    BY <1>2 DEF SeedSelfPresence, SessionsTypeOK, CallsTypeOK, WatcherTypeOK,
         CallsWellFormed
  <2> QED BY <2>2, <2>3, <2>4
<1>3. ASSUME NEW u \in Ura, ForceRevoke(u) PROVE TypeInv'
  <2>1. RegistryTypeOK'
    BY <1>3, RemoveTyped DEF ForceRevoke, RegistryTypeOK
  <2>2. SessionsWellFormed'
    BY <1>3, RemoveTyped DEF ForceRevoke, RegistryTypeOK, SessionsWellFormed,
        IdsAllocated, ProvidersInstalled, PushesTargeted, SlotsInstalled
  <2>3. SessionsTypeOK' /\ CallsTypeOK' /\ WatcherTypeOK' /\ CallsWellFormed'
    BY <1>3 DEF ForceRevoke, SessionsTypeOK, CallsTypeOK, WatcherTypeOK,
         CallsWellFormed
  <2> QED BY <2>1, <2>2, <2>3
<1>4. ASSUME NEW op \in Op, SendEvent(op) PROVE TypeInv'
  <2>1. emitting[op] \in Seq(Event) /\ emitting[op] # << >>
     BY <1>4 DEF SendEvent, Emit, RegistryTypeOK
  <2>2. Head(emitting[op]) \in Event /\ Tail(emitting[op]) \in Seq(Event)
     BY <2>1
  <2>3. emitting' \in [Op -> Seq(Event)]
     BY <1>4, <2>2 DEF SendEvent, Emit, RegistryTypeOK
  <2>4. /\ inbox' \in [Subscriber -> Seq(Event)]
        /\ \A r \in Subscriber : Len(inbox'[r]) <= EventCapacity
     BY <1>4, <2>2, PushTyped DEF SendEvent, Emit, RegistryTypeOK
  <2>5. lagged' \subseteq Subscriber
     BY <1>4, DispatchAssumption DEF SendEvent, Emit, RegistryTypeOK
  <2>6. RegistryTypeOK'
    BY <1>4, <2>3, <2>4, <2>5 DEF SendEvent, RegistryTypeOK
  <2>7. SessionsTypeOK' /\ CallsTypeOK' /\ WatcherTypeOK' /\ SessionsWellFormed' /\ CallsWellFormed'
    BY <1>4 DEF SendEvent, SessionsTypeOK, CallsTypeOK, WatcherTypeOK,
         SessionsWellFormed, CallsWellFormed, RegistryTypeOK, IdsAllocated,
         ProvidersInstalled, PushesTargeted, SlotsInstalled
  <2> QED BY <2>6, <2>7
<1>5. ASSUME NEW s \in Session, InsertSession(s) PROVE TypeInv'
  <2>1. /\ byUra' \in [Ura -> Session \cup {NoSession}]
        /\ emitting' \in [Op -> Seq(Event)]
        /\ session' \in [Session -> SessionRecord]
        /\ session[s].ura \in Ura
        /\ byUra' = [byUra EXCEPT ![session[s].ura] = s]
        /\ session[s].stage = "allocated"
        /\ session'[s].stage = "installed"
        /\ \A t \in Session : t # s => session'[t] = session[t]
        /\ \A t \in Session : session'[t].ura = session[t].ura
     BY <1>5, InstallTyped DEF InsertSession
  <2>2. RegistryTypeOK'
    BY <1>5, <2>1 DEF InsertSession, RegistryTypeOK
  <2>3. SessionsWellFormed'
    <3>1. IdsAllocated'
      BY <1>5, <2>1 DEF InsertSession, SessionsWellFormed, IdsAllocated
    <3>2. ProvidersInstalled'
      BY <1>5, <2>1 DEF InsertSession, SessionsTypeOK, SessionsWellFormed, ProvidersInstalled
    <3>3. PushesTargeted'
      BY <1>5, <2>1 DEF InsertSession, SessionsWellFormed, PushesTargeted, SessionsTypeOK
    <3>4. SlotsInstalled'
      BY <2>1 DEF RegistryTypeOK, SessionsWellFormed, SlotsInstalled
    <3> QED BY <3>1, <3>2, <3>3, <3>4 DEF SessionsWellFormed
  <2>4. SessionsTypeOK' /\ CallsTypeOK' /\ WatcherTypeOK' /\ CallsWellFormed'
    BY <1>5 DEF InsertSession, SessionsTypeOK, CallsTypeOK, WatcherTypeOK,
         CallsWellFormed
  <2> QED BY <2>2, <2>3, <2>4
<1>6. ASSUME NEW s \in Session, InsertSelfPresence(s) PROVE TypeInv'
  <2>1. /\ byUra' \in [Ura -> Session \cup {NoSession}]
        /\ emitting' \in [Op -> Seq(Event)]
        /\ session' \in [Session -> SessionRecord]
        /\ session[s].ura \in Ura
        /\ byUra' = [byUra EXCEPT ![session[s].ura] = s]
        /\ session[s].stage = "allocated"
        /\ session'[s].stage = "installed"
        /\ \A t \in Session : t # s => session'[t] = session[t]
        /\ \A t \in Session : session'[t].ura = session[t].ura
     BY <1>6, InstallTyped DEF InsertSelfPresence
  <2>2. RegistryTypeOK'
    BY <1>6, <2>1 DEF InsertSelfPresence, RegistryTypeOK
  <2>3. SessionsWellFormed'
    <3>1. IdsAllocated'
      BY <1>6, <2>1 DEF InsertSelfPresence, SessionsWellFormed, IdsAllocated
    <3>2. ProvidersInstalled'
      BY <1>6, <2>1 DEF InsertSelfPresence, SessionsTypeOK, SessionsWellFormed, ProvidersInstalled
    <3>3. PushesTargeted'
      BY <1>6, <2>1 DEF InsertSelfPresence, SessionsWellFormed, PushesTargeted, SessionsTypeOK
    <3>4. SlotsInstalled'
      BY <2>1 DEF RegistryTypeOK, SessionsWellFormed, SlotsInstalled
    <3> QED BY <3>1, <3>2, <3>3, <3>4 DEF SessionsWellFormed
  <2>4. SessionsTypeOK' /\ CallsTypeOK' /\ WatcherTypeOK' /\ CallsWellFormed'
    BY <1>6 DEF InsertSelfPresence, SessionsTypeOK, CallsTypeOK, WatcherTypeOK,
         CallsWellFormed
  <2> QED BY <2>2, <2>3, <2>4
<1>7. ASSUME NEW s \in Session, StartPumps(s) PROVE TypeInv'
  <2>1. RegistryTypeOK' /\ SessionsTypeOK' /\ CallsTypeOK' /\ WatcherTypeOK' /\ SessionsWellFormed' /\ CallsWellFormed'
    BY <1>7 DEF StartPumps, RegistryTypeOK, SessionsTypeOK, CallsTypeOK,
         WatcherTypeOK, SessionsWellFormed, CallsWellFormed, IdsAllocated,
         ProvidersInstalled, PushesTargeted, SlotsInstalled
  <2> QED BY <2>1
<1>8. ASSUME NEW s \in Session, EmitControlFrame(s) PROVE TypeInv'
  <2>1. PICK i \in DOMAIN chan[s] :
              /\ IsFirstControl(chan[s], i)
              /\ held' = [held EXCEPT ![s] = held[s] \o SubSeq(chan[s], 1, i - 1)]
              /\ chan' = [chan EXCEPT ![s] = SubSeq(chan[s], i + 1, Len(chan[s]))]
     BY <1>8 DEF EmitControlFrame
  <2>2. chan[s] \in Seq(Frame) /\ Len(chan[s]) <= DownCapacity /\ held[s] \in Seq(NormalFrame)
     BY DEF SessionsTypeOK
  <2>3. i \in 1 .. Len(chan[s])
     BY <2>1, <2>2
  <2>4. \A j \in 1 .. i - 1 : chan[s][j] \in NormalFrame
    <3> TAKE j \in 1 .. i - 1
    <3>1. j \in 1 .. Len(chan[s]) BY <2>3
    <3>2. chan[s][j] \in Frame BY <2>2, <3>1, ElementOfSeq
    <3>3. chan[s][j] # Ack BY <2>1 DEF IsFirstControl
    <3> QED BY <3>2, <3>3 DEF Frame
  <2>5. SubSeq(chan[s], 1, i - 1) \in Seq(NormalFrame)
     BY <2>3, <2>4, SubSeqProperties
  <2>6. /\ SubSeq(chan[s], i + 1, Len(chan[s])) \in Seq(Frame)
        /\ Len(SubSeq(chan[s], i + 1, Len(chan[s]))) <= DownCapacity
     BY <2>2, <2>3, SubSeqProperties, DispatchAssumption
  <2>7. held' \in [Session -> Seq(NormalFrame)]
     BY <2>1, <2>2, <2>5, ConcatProperties DEF SessionsTypeOK
  <2>8. chan' \in [Session -> Seq(Frame)] /\ \A t \in Session : Len(chan'[t]) <= DownCapacity
     BY <2>1, <2>6 DEF SessionsTypeOK
  <2>9. SessionsTypeOK'
    BY <1>8, <2>7, <2>8 DEF EmitControlFrame, SessionsTypeOK
  <2>10. RegistryTypeOK' /\ CallsTypeOK' /\ WatcherTypeOK' /\ SessionsWellFormed' /\ CallsWellFormed'
    BY <1>8 DEF EmitControlFrame, RegistryTypeOK, CallsTypeOK, WatcherTypeOK,
         SessionsWellFormed, CallsWellFormed, SessionsTypeOK, IdsAllocated,
         ProvidersInstalled, PushesTargeted, SlotsInstalled
  <2> QED BY <2>9, <2>10
<1>9. ASSUME NEW s \in Session, EmitNormalFrame(s) PROVE TypeInv'
  <2>1. chan[s] \in Seq(Frame) /\ held[s] \in Seq(NormalFrame)
     BY DEF SessionsTypeOK
  <2>2. \A i \in 1 .. Len(chan[s]) : chan[s][i] \in NormalFrame
     BY <1>9, <2>1 DEF EmitNormalFrame, Frame
  <2>3. chan[s] \in Seq(NormalFrame)
     BY <2>1, <2>2, SubSeqProperties, SubSeqFull
  <2>4. held[s] \o chan[s] \in Seq(NormalFrame) /\ held[s] \o chan[s] # << >>
     BY <1>9, <2>1, <2>3, ConcatProperties DEF EmitNormalFrame
  <2>5. Tail(held[s] \o chan[s]) \in Seq(NormalFrame)
     BY <2>4, HeadTailProperties
  <2>6. held' \in [Session -> Seq(NormalFrame)]
     BY <1>9, <2>5 DEF EmitNormalFrame, SessionsTypeOK
  <2>7. chan' \in [Session -> Seq(Frame)] /\ \A t \in Session : Len(chan'[t]) <= DownCapacity
     BY <1>9, DispatchAssumption DEF EmitNormalFrame, SessionsTypeOK
  <2>8. device' \in [Session -> SUBSET Call]
    <3>1. device[s] \in SUBSET Call BY DEF SessionsTypeOK
    <3>2. CASE linked[s] /\ Head(held[s] \o chan[s]) \in Call
      <4>1. device[s] \cup {Head(held[s] \o chan[s])} \in SUBSET Call BY <3>1, <3>2
      <4> QED BY <1>9, <3>2, <4>1 DEF EmitNormalFrame, SessionsTypeOK
    <3>3. CASE ~(linked[s] /\ Head(held[s] \o chan[s]) \in Call)
      BY <1>9, <3>3 DEF EmitNormalFrame, SessionsTypeOK
    <3> QED BY <3>2, <3>3
  <2>9. executed' \subseteq Call
     BY <1>9 DEF EmitNormalFrame, CallsTypeOK
  <2>10. SessionsTypeOK'
    BY <1>9, <2>6, <2>7, <2>8 DEF EmitNormalFrame, SessionsTypeOK
  <2>11. CallsTypeOK'
    BY <1>9, <2>9 DEF EmitNormalFrame, CallsTypeOK
  <2>12. RegistryTypeOK' /\ WatcherTypeOK' /\ SessionsWellFormed' /\ CallsWellFormed'
    BY <1>9 DEF EmitNormalFrame, RegistryTypeOK, WatcherTypeOK, SessionsWellFormed,
         CallsWellFormed, SessionsTypeOK, IdsAllocated, ProvidersInstalled,
         PushesTargeted, SlotsInstalled, CallsTypeOK
  <2> QED BY <2>10, <2>11, <2>12
<1>10. ASSUME NEW s \in Session, InputEnded(s) PROVE TypeInv'
  <2>1. session[s].ura \in Ura
     BY <1>10 DEF InputEnded, SessionsWellFormed, IdsAllocated, ProvidersInstalled
  <2>2. /\ byUra' \in [Ura -> Session \cup {NoSession}]
        /\ emitting' \in [Op -> Seq(Event)]
        /\ \A v \in Ura : byUra'[v] # NoSession => byUra'[v] = byUra[v]
        /\ lease' \in [Session -> {"none", "active", "closed"}]
     BY <1>10, <2>1, CloseLeaseTyped DEF InputEnded
  <2>3. RegistryTypeOK'
    BY <1>10, <2>2 DEF InputEnded, RegistryTypeOK
  <2>4. SessionsTypeOK'
    BY <1>10, <2>2 DEF InputEnded, SessionsTypeOK
  <2>5. SessionsWellFormed'
    BY <1>10, <2>2 DEF InputEnded, RegistryTypeOK, SessionsTypeOK, SessionsWellFormed,
        IdsAllocated, ProvidersInstalled, PushesTargeted, SlotsInstalled
  <2>6. CallsTypeOK' /\ WatcherTypeOK' /\ CallsWellFormed'
    BY <1>10 DEF InputEnded, CallsTypeOK, WatcherTypeOK, CallsWellFormed
  <2> QED BY <2>3, <2>4, <2>5, <2>6
<1>11. ASSUME NEW s \in Session, DownClosed(s) PROVE TypeInv'
  <2>1. session[s].ura \in Ura
     BY <1>11 DEF DownClosed, SessionsWellFormed, IdsAllocated, ProvidersInstalled
  <2>2. /\ byUra' \in [Ura -> Session \cup {NoSession}]
        /\ emitting' \in [Op -> Seq(Event)]
        /\ \A v \in Ura : byUra'[v] # NoSession => byUra'[v] = byUra[v]
        /\ lease' \in [Session -> {"none", "active", "closed"}]
     BY <1>11, <2>1, CloseLeaseTyped DEF DownClosed
  <2>3. /\ provider' \in [Session -> {"absent", "announcing", "running", "draining", "ended"}]
        /\ chan' \in [Session -> Seq(Frame)]
        /\ \A t \in Session : Len(chan'[t]) <= DownCapacity
        /\ held' \in [Session -> Seq(NormalFrame)]
        /\ pump' \in [Session -> {"absent", "running", "pushing", "ended"}]
        /\ linked' \in [Session -> BOOLEAN]
        /\ device' \in [Session -> SUBSET Call]
        /\ up' \in [Session -> Seq(UpFrame)]
        /\ \A t \in Session : t # s => /\ provider'[t] = provider[t]
                                       /\ pump'[t] = pump[t]
                                       /\ linked'[t] = linked[t]
        /\ provider'[s] = "ended"
        /\ pump'[s] = "pushing" => pump[s] = "pushing"
     BY <1>11, TearDownTyped DEF DownClosed
  <2>4. RegistryTypeOK'
    BY <1>11, <2>2 DEF DownClosed, RegistryTypeOK
  <2>5. SessionsTypeOK'
    BY <1>11, <2>2, <2>3 DEF DownClosed, SessionsTypeOK
  <2>6. SessionsWellFormed'
    <3>1. IdsAllocated'
      BY <1>11 DEF DownClosed, SessionsWellFormed, IdsAllocated
    <3>2. ProvidersInstalled'
      BY <1>11, <2>3 DEF DownClosed, SessionsWellFormed, ProvidersInstalled
    <3>3. PushesTargeted'
      <4>1. session' = session /\ pushTo' = pushTo /\ lent' = lent
        BY <1>11 DEF DownClosed
      <4>2. \A t \in Session : pump'[t] = "pushing" => pump[t] = "pushing"
        BY <2>3
      <4> QED BY <4>1, <4>2 DEF SessionsWellFormed, PushesTargeted
    <3>4. SlotsInstalled'
      BY <1>11, <2>2 DEF DownClosed, SessionsWellFormed, SlotsInstalled
    <3> QED BY <3>1, <3>2, <3>3, <3>4 DEF SessionsWellFormed
  <2>7. CallsTypeOK' /\ WatcherTypeOK' /\ CallsWellFormed'
    BY <1>11 DEF DownClosed, CallsTypeOK, WatcherTypeOK, CallsWellFormed
  <2> QED BY <2>4, <2>5, <2>6, <2>7
<1>12. ASSUME NEW s \in Session, AbortProvider(s) PROVE TypeInv'
  <2>1. session[s].ura \in Ura
     BY <1>12 DEF AbortProvider, SessionsWellFormed, IdsAllocated, ProvidersInstalled
  <2>2. /\ byUra' \in [Ura -> Session \cup {NoSession}]
        /\ emitting' \in [Op -> Seq(Event)]
        /\ \A v \in Ura : byUra'[v] # NoSession => byUra'[v] = byUra[v]
        /\ lease' \in [Session -> {"none", "active", "closed"}]
     BY <1>12, <2>1, CloseLeaseTyped DEF AbortProvider
  <2>3. /\ provider' \in [Session -> {"absent", "announcing", "running", "draining", "ended"}]
        /\ chan' \in [Session -> Seq(Frame)]
        /\ \A t \in Session : Len(chan'[t]) <= DownCapacity
        /\ held' \in [Session -> Seq(NormalFrame)]
        /\ pump' \in [Session -> {"absent", "running", "pushing", "ended"}]
        /\ linked' \in [Session -> BOOLEAN]
        /\ device' \in [Session -> SUBSET Call]
        /\ up' \in [Session -> Seq(UpFrame)]
        /\ \A t \in Session : t # s => /\ provider'[t] = provider[t]
                                       /\ pump'[t] = pump[t]
                                       /\ linked'[t] = linked[t]
        /\ provider'[s] = "ended"
        /\ pump'[s] = "pushing" => pump[s] = "pushing"
     BY <1>12, TearDownTyped DEF AbortProvider
  <2>4. RegistryTypeOK'
    BY <1>12, <2>2 DEF AbortProvider, RegistryTypeOK
  <2>5. SessionsTypeOK'
    BY <1>12, <2>2, <2>3 DEF AbortProvider, SessionsTypeOK
  <2>6. SessionsWellFormed'
    <3>1. IdsAllocated'
      BY <1>12 DEF AbortProvider, SessionsWellFormed, IdsAllocated
    <3>2. ProvidersInstalled'
      BY <1>12, <2>3 DEF AbortProvider, SessionsWellFormed, ProvidersInstalled
    <3>3. PushesTargeted'
      <4>1. session' = session /\ pushTo' = pushTo /\ lent' = lent
        BY <1>12 DEF AbortProvider
      <4>2. \A t \in Session : pump'[t] = "pushing" => pump[t] = "pushing"
        BY <2>3
      <4> QED BY <4>1, <4>2 DEF SessionsWellFormed, PushesTargeted
    <3>4. SlotsInstalled'
      BY <1>12, <2>2 DEF AbortProvider, SessionsWellFormed, SlotsInstalled
    <3> QED BY <3>1, <3>2, <3>3, <3>4 DEF SessionsWellFormed
  <2>7. CallsTypeOK' /\ WatcherTypeOK' /\ CallsWellFormed'
    BY <1>12 DEF AbortProvider, CallsTypeOK, WatcherTypeOK, CallsWellFormed
  <2> QED BY <2>4, <2>5, <2>6, <2>7
<1>13. ASSUME NEW s \in Session, NEW c \in Call, PumpResult(s, c) PROVE TypeInv'
  <2>1. SessionsTypeOK'
    BY <1>13 DEF PumpResult, PumpReads, SessionsTypeOK
  <2>2. CallsTypeOK'
    BY <1>13 DEF PumpResult, Complete, CallsTypeOK, CallRecord
  <2>3. CallsWellFormed'
    BY <1>13 DEF PumpResult, Complete, CallsTypeOK, CallsWellFormed, CallRecord
  <2>4. RegistryTypeOK' /\ WatcherTypeOK' /\ SessionsWellFormed'
    BY <1>13 DEF PumpResult, RegistryTypeOK, WatcherTypeOK, SessionsWellFormed,
         SessionsTypeOK, IdsAllocated, ProvidersInstalled, PushesTargeted,
         SlotsInstalled
  <2> QED BY <2>1, <2>2, <2>3, <2>4
<1>14. ASSUME NEW s \in Session, PumpEnd(s) PROVE TypeInv'
  <2>1. RegistryTypeOK' /\ SessionsTypeOK' /\ CallsTypeOK' /\ WatcherTypeOK' /\ SessionsWellFormed' /\ CallsWellFormed'
    BY <1>14 DEF PumpEnd, RegistryTypeOK, SessionsTypeOK, CallsTypeOK,
         WatcherTypeOK, SessionsWellFormed, CallsWellFormed, IdsAllocated,
         ProvidersInstalled, PushesTargeted, SlotsInstalled, PumpReads
  <2> QED BY <2>1
<1>15. ASSUME NEW s \in Session, PumpHeartbeat(s) PROVE TypeInv'
  <2> DEFINE t == LookupDispatch(session[s].ura)
  <2>1. session[s].ura \in Ura
     BY <1>15 DEF PumpHeartbeat, PumpReads, SessionsTypeOK, SessionsWellFormed, IdsAllocated,
            ProvidersInstalled
  <2>2. t \in Session \cup {NoSession} /\ (t # NoSession => session[t].stage # "unused")
     BY <2>1 DEF LookupDispatch, RegistryTypeOK, SessionsWellFormed, SlotsInstalled
  <2>3. /\ pump' = [pump EXCEPT ![s] = IF t = NoSession THEN "ended" ELSE "pushing"]
        /\ pushTo' = [pushTo EXCEPT ![s] = t]
        /\ pump[s] = "running"
        /\ up' \in [Session -> Seq(UpFrame)]
     BY <1>15 DEF PumpHeartbeat, PumpReads, SessionsTypeOK
  <2> HIDE DEF t
  <2>4. pump' \in [Session -> {"absent", "running", "pushing", "ended"}]
     BY <2>3 DEF SessionsTypeOK
  <2>5. pushTo' \in [Session -> Session \cup {NoSession}]
     BY <2>2, <2>3 DEF SessionsTypeOK
  <2>6. SessionsTypeOK'
    BY <1>15, <2>3, <2>4, <2>5 DEF PumpHeartbeat, SessionsTypeOK
  <2>7. SessionsWellFormed'
    BY <1>15, <2>2, <2>3 DEF PumpHeartbeat, RegistryTypeOK, SessionsTypeOK, SessionsWellFormed,
        IdsAllocated, ProvidersInstalled, PushesTargeted, SlotsInstalled, NoSession
  <2>8. RegistryTypeOK' /\ CallsTypeOK' /\ WatcherTypeOK' /\ CallsWellFormed'
    BY <1>15 DEF PumpHeartbeat, RegistryTypeOK, CallsTypeOK, WatcherTypeOK,
         CallsWellFormed
  <2> QED BY <2>6, <2>7, <2>8
<1>16. ASSUME NEW s \in Session, PushAck(s) PROVE TypeInv'
  <2> DEFINE t == pushTo[s]
  <2>1. t \in Session /\ session[t].ura \in Ura
     BY <1>16 DEF PushAck, SessionsWellFormed, IdsAllocated, PushesTargeted
  <2>2. /\ byUra' \in [Ura -> Session \cup {NoSession}]
        /\ emitting' \in [Op -> Seq(Event)]
        /\ \A v \in Ura : byUra'[v] # NoSession => byUra'[v] = byUra[v]
     BY <1>16, <2>1, RemoveIfSessionTyped DEF PushAck, RegistryTypeOK
  <2>3. Append(chan[t], Ack) \in Seq(Frame) /\ Len(Append(chan[t], Ack)) = Len(chan[t]) + 1
     BY <2>1 DEF SessionsTypeOK, Frame, NormalFrame
  <2>4. chan' \in [Session -> Seq(Frame)] /\ \A r \in Session : Len(chan'[r]) <= DownCapacity
    <3>1. CASE chan' = chan BY <3>1 DEF SessionsTypeOK
    <3>2. CASE /\ chan' = [chan EXCEPT ![t] = Append(chan[t], Ack)]
               /\ Len(chan[t]) # DownCapacity
      <4>1. Len(chan[t]) \in Nat /\ Len(chan[t]) <= DownCapacity
        BY <2>1 DEF SessionsTypeOK
      <4>2. Len(Append(chan[t], Ack)) <= DownCapacity
        BY <2>3, <3>2, <4>1, DispatchAssumption
      <4> QED BY <2>1, <2>3, <3>2, <4>2 DEF SessionsTypeOK
    <3> QED BY <1>16, <3>1, <3>2 DEF PushAck, Full
  <2>5. RegistryTypeOK'
    BY <1>16, <2>2 DEF PushAck, RegistryTypeOK
  <2>6. SessionsTypeOK'
    BY <1>16, <2>4 DEF PushAck, SessionsTypeOK
  <2>7. SessionsWellFormed'
    BY <1>16, <2>2 DEF PushAck, RegistryTypeOK, SessionsTypeOK, SessionsWellFormed,
        IdsAllocated, ProvidersInstalled, PushesTargeted, SlotsInstalled
  <2>8. CallsTypeOK' /\ WatcherTypeOK' /\ CallsWellFormed'
    BY <1>16 DEF PushAck, CallsTypeOK, WatcherTypeOK, CallsWellFormed
  <2> QED BY <2>5, <2>6, <2>7, <2>8
<1>17. ASSUME NEW s \in Session, NEW c \in Call, DeviceReply(s, c) PROVE TypeInv'
  <2>1. RegistryTypeOK' /\ SessionsTypeOK' /\ CallsTypeOK' /\ WatcherTypeOK' /\ SessionsWellFormed' /\ CallsWellFormed'
    BY <1>17 DEF DeviceReply, RegistryTypeOK, SessionsTypeOK, CallsTypeOK,
         WatcherTypeOK, SessionsWellFormed, CallsWellFormed, IdsAllocated,
         ProvidersInstalled, PushesTargeted, SlotsInstalled, Sends, UpFrame
  <2> QED BY <2>1
<1>18. ASSUME NEW s \in Session, DeviceHeartbeat(s) PROVE TypeInv'
  <2>1. RegistryTypeOK' /\ SessionsTypeOK' /\ CallsTypeOK' /\ WatcherTypeOK' /\ SessionsWellFormed' /\ CallsWellFormed'
    BY <1>18 DEF DeviceHeartbeat, RegistryTypeOK, SessionsTypeOK, CallsTypeOK,
         WatcherTypeOK, SessionsWellFormed, CallsWellFormed, IdsAllocated,
         ProvidersInstalled, PushesTargeted, SlotsInstalled, Sends, UpFrame
  <2> QED BY <2>1
<1>19. ASSUME NEW s \in Session, DeviceLeaves(s) PROVE TypeInv'
  <2>1. Append(up[s], "end") \in Seq(UpFrame) /\ <<"end">> \in Seq(UpFrame)
     BY DEF SessionsTypeOK, UpFrame
  <2>2. SessionsTypeOK'
    BY <1>19, <2>1 DEF DeviceLeaves, Sends, SessionsTypeOK
  <2>3. RegistryTypeOK' /\ CallsTypeOK' /\ WatcherTypeOK' /\ SessionsWellFormed' /\ CallsWellFormed'
    BY <1>19 DEF DeviceLeaves, RegistryTypeOK, CallsTypeOK, WatcherTypeOK,
         SessionsWellFormed, CallsWellFormed, SessionsTypeOK, IdsAllocated,
         ProvidersInstalled, PushesTargeted, SlotsInstalled
  <2> QED BY <2>2, <2>3
<1>20. ASSUME NEW c \in Call, NEW u \in Ura, Lookup(c, u) PROVE TypeInv'
  <2> DEFINE s == LookupDispatch(u)
  <2>1. s \in Session \cup {NoSession}
     BY DEF LookupDispatch, RegistryTypeOK
  <2>2. ASSUME SelfTarget(u) \/ s = NoSession PROVE CallsTypeOK' /\ CallsWellFormed'
    <3>1. PICK o \in Outcome : Return(c, o) BY <1>20, <2>2 DEF Lookup, Outcome
    <3> QED BY <1>20, <3>1, ReturnTyped DEF Lookup, CallsTypeOK
  <2>3. ASSUME ~(SelfTarget(u) \/ s = NoSession) PROVE CallsTypeOK' /\ CallsWellFormed'
    <3> DEFINE r == [call[c] EXCEPT !.pc = "looked", !.target = u, !.via = s]
    <3>1. s \in Session /\ call[c] \in CallRecord BY <2>1, <2>3 DEF CallsTypeOK
    <3>2. call' = [call EXCEPT ![c] = r] BY <1>20, <2>3 DEF Lookup
    <3>3. r \in CallRecord /\ r.target = u /\ r.via = s BY <3>1 DEF CallRecord
    <3> HIDE DEF r
    <3>4. CallsTypeOK' BY <1>20, <3>2, <3>3 DEF Lookup, CallsTypeOK
    <3>5. CallsWellFormed' BY <3>1, <3>2, <3>3 DEF CallsTypeOK, CallsWellFormed
    <3> QED BY <3>4, <3>5
  <2>4. CallsTypeOK'
    BY <2>2, <2>3
  <2>5. CallsWellFormed'
    BY <2>2, <2>3
  <2>6. RegistryTypeOK' /\ SessionsTypeOK' /\ WatcherTypeOK' /\ SessionsWellFormed'
    BY <1>20 DEF Lookup, RegistryTypeOK, SessionsTypeOK, WatcherTypeOK,
         SessionsWellFormed, IdsAllocated, ProvidersInstalled, PushesTargeted,
         SlotsInstalled
  <2> QED BY <2>4, <2>5, <2>6
<1>21. ASSUME NEW c \in Call, Register(c) PROVE TypeInv'
  <2> DEFINE live == byUra[call[c].target] = call[c].via
  <2>1. live \in BOOLEAN
     OBVIOUS
  <2>2. call' = [call EXCEPT ![c].pc = "registered", ![c].regLive = live]
     BY <1>21 DEF Register
  <2> HIDE DEF live
  <2>3. call[c] \in CallRecord
     BY DEF CallsTypeOK
  <2>4. [call[c] EXCEPT !.pc = "registered", !.regLive = live] \in CallRecord
     BY <2>1, <2>3 DEF CallRecord
  <2>5. call' = [call EXCEPT ![c] = [call[c] EXCEPT !.pc = "registered", !.regLive = live]]
     BY <2>2
  <2>6. CallsTypeOK'
    BY <1>21, <2>4, <2>5 DEF Register, CallsTypeOK
  <2>7. CallsWellFormed'
    BY <1>21, <2>3, <2>5 DEF Register, CallsTypeOK, CallsWellFormed, CallRecord
  <2>8. RegistryTypeOK' /\ SessionsTypeOK' /\ WatcherTypeOK' /\ SessionsWellFormed'
    BY <1>21 DEF Register, RegistryTypeOK, SessionsTypeOK, WatcherTypeOK,
         SessionsWellFormed, IdsAllocated, ProvidersInstalled, PushesTargeted,
         SlotsInstalled
  <2> QED BY <2>6, <2>7, <2>8
<1>22. ASSUME NEW c \in Call, BuildFrameFails(c) PROVE TypeInv'
  <2>1. CallsTypeOK' /\ CallsWellFormed'
     BY <1>22, ReturnTyped DEF BuildFrameFails, DropHandle, Outcome, CallsTypeOK
  <2>2. CallsTypeOK'
    BY <2>1
  <2>3. CallsWellFormed'
    BY <2>1
  <2>4. RegistryTypeOK' /\ SessionsTypeOK' /\ WatcherTypeOK' /\ SessionsWellFormed'
    BY <1>22 DEF BuildFrameFails, RegistryTypeOK, SessionsTypeOK, WatcherTypeOK,
         SessionsWellFormed, IdsAllocated, ProvidersInstalled, PushesTargeted,
         SlotsInstalled
  <2> QED BY <2>2, <2>3, <2>4
<1>23. ASSUME NEW c \in Call, PushCall(c) PROVE TypeInv'
  <2> DEFINE s == call[c].via
  <2>1. s \in Session /\ call[c].target \in Ura
     BY <1>23 DEF PushCall, CallsWellFormed
  <2>2. /\ byUra' \in [Ura -> Session \cup {NoSession}]
        /\ emitting' \in [Op -> Seq(Event)]
        /\ \A v \in Ura : byUra'[v] # NoSession => byUra'[v] = byUra[v]
     BY <1>23, <2>1, RemoveIfSessionTyped DEF PushCall, RegistryTypeOK
  <2>3. Append(chan[s], c) \in Seq(Frame) /\ Len(Append(chan[s], c)) = Len(chan[s]) + 1
     BY <2>1 DEF SessionsTypeOK, Frame, NormalFrame
  <2>4. chan' \in [Session -> Seq(Frame)] /\ \A r \in Session : Len(chan'[r]) <= DownCapacity
    <3>1. CASE chan' = chan BY <3>1 DEF SessionsTypeOK
    <3>2. CASE /\ chan' = [chan EXCEPT ![s] = Append(chan[s], c)]
               /\ Len(chan[s]) # DownCapacity
      <4>1. Len(chan[s]) \in Nat /\ Len(chan[s]) <= DownCapacity
        BY <2>1 DEF SessionsTypeOK
      <4>2. Len(Append(chan[s], c)) <= DownCapacity
        BY <2>3, <3>2, <4>1, DispatchAssumption
      <4> QED BY <2>1, <2>3, <3>2, <4>2 DEF SessionsTypeOK
    <3> QED BY <1>23, <3>1, <3>2 DEF PushCall, Full
  <2>5. \/ call' = [call EXCEPT ![c].pc = "waiting"] /\ pending' = pending
        \/ \E o \in Outcome : Return(c, o) /\ pending' = pending \ {c}
     BY <1>23 DEF PushCall, DropHandle, Outcome
  <2>6. CallsTypeOK' /\ CallsWellFormed'
    <3>1. CASE call' = [call EXCEPT ![c].pc = "waiting"] /\ pending' = pending
      BY <1>23, <2>1, <3>1 DEF PushCall, CallsTypeOK, CallsWellFormed, CallRecord
    <3>2. CASE \E o \in Outcome : Return(c, o) /\ pending' = pending \ {c}
      BY <1>23, <3>2, ReturnTyped DEF PushCall, CallsTypeOK
    <3> QED BY <2>5, <3>1, <3>2
  <2>7. RegistryTypeOK'
    BY <1>23, <2>2 DEF PushCall, RegistryTypeOK
  <2>8. SessionsTypeOK'
    BY <1>23, <2>4 DEF PushCall, SessionsTypeOK
  <2>9. CallsTypeOK'
    BY <2>6
  <2>10. SessionsWellFormed'
    BY <1>23, <2>2 DEF PushCall, RegistryTypeOK, SessionsTypeOK, SessionsWellFormed,
        IdsAllocated, ProvidersInstalled, PushesTargeted, SlotsInstalled
  <2>11. CallsWellFormed'
    BY <2>6
  <2>12. WatcherTypeOK'
    BY <1>23 DEF PushCall, WatcherTypeOK
  <2> QED BY <2>7, <2>8, <2>9, <2>10, <2>11, <2>12
<1>24. ASSUME NEW c \in Call, AwaitReply(c) PROVE TypeInv'
  <2>1. CallsTypeOK' /\ CallsWellFormed'
     BY <1>24, ReturnTyped DEF AwaitReply, DropHandle, Outcome, CallsTypeOK, CallRecord, NoReply
  <2>2. CallsTypeOK'
    BY <2>1
  <2>3. CallsWellFormed'
    BY <2>1
  <2>4. RegistryTypeOK' /\ SessionsTypeOK' /\ WatcherTypeOK' /\ SessionsWellFormed'
    BY <1>24 DEF AwaitReply, RegistryTypeOK, SessionsTypeOK, WatcherTypeOK,
         SessionsWellFormed, IdsAllocated, ProvidersInstalled, PushesTargeted,
         SlotsInstalled
  <2> QED BY <2>2, <2>3, <2>4
<1>25. ASSUME NEW c \in Call, EvictTimedOut(c) PROVE TypeInv'
  <2>1. CallsTypeOK' /\ CallsWellFormed'
     BY <1>25, ReturnTyped DEF EvictTimedOut, DropHandle, Outcome, CallsTypeOK
  <2>2. CallsTypeOK'
    BY <2>1
  <2>3. CallsWellFormed'
    BY <2>1
  <2>4. RegistryTypeOK' /\ SessionsTypeOK' /\ WatcherTypeOK' /\ SessionsWellFormed'
    BY <1>25 DEF EvictTimedOut, RegistryTypeOK, SessionsTypeOK, WatcherTypeOK,
         SessionsWellFormed, IdsAllocated, ProvidersInstalled, PushesTargeted,
         SlotsInstalled
  <2> QED BY <2>2, <2>3, <2>4
<1>26. ASSUME NEW c \in Call, AbandonCall(c) PROVE TypeInv'
  <2>1. CallsTypeOK' /\ CallsWellFormed'
     BY <1>26, ReturnTyped DEF AbandonCall, DropHandle, Outcome, CallsTypeOK
  <2>2. CallsTypeOK'
    BY <2>1
  <2>3. CallsWellFormed'
    BY <2>1
  <2>4. RegistryTypeOK' /\ SessionsTypeOK' /\ WatcherTypeOK' /\ SessionsWellFormed'
    BY <1>26 DEF AbandonCall, RegistryTypeOK, SessionsTypeOK, WatcherTypeOK,
         SessionsWellFormed, IdsAllocated, ProvidersInstalled, PushesTargeted,
         SlotsInstalled
  <2> QED BY <2>2, <2>3, <2>4
<1>27. ASSUME NEW c \in Call, ReplyTimeout(c) PROVE TypeInv'
  <2>1. call[c] \in CallRecord
     BY DEF CallsTypeOK
  <2>2. [call[c] EXCEPT !.pc = "timedout", !.outcome = "deadline"] \in CallRecord
     BY <2>1 DEF CallRecord, Outcome
  <2>3. call' = [call EXCEPT ![c] = [call[c] EXCEPT !.pc = "timedout", !.outcome = "deadline"]]
     BY <1>27 DEF ReplyTimeout
  <2>4. CallsTypeOK'
    BY <1>27, <2>2, <2>3 DEF ReplyTimeout, CallsTypeOK
  <2>5. CallsWellFormed'
    BY <1>27, <2>1, <2>3 DEF ReplyTimeout, CallsTypeOK, CallsWellFormed, CallRecord
  <2>6. RegistryTypeOK' /\ SessionsTypeOK' /\ WatcherTypeOK' /\ SessionsWellFormed'
    BY <1>27 DEF ReplyTimeout, RegistryTypeOK, SessionsTypeOK, WatcherTypeOK,
         SessionsWellFormed, IdsAllocated, ProvidersInstalled, PushesTargeted,
         SlotsInstalled
  <2> QED BY <2>4, <2>5, <2>6
<1>28. ASSUME WatcherEvent PROVE TypeInv'
  <2>1. inbox[Watcher] \in Seq(Event) /\ Len(inbox[Watcher]) <= EventCapacity
     BY DispatchAssumption DEF RegistryTypeOK
  <2>2. Tail(inbox[Watcher]) \in Seq(Event) /\ Len(Tail(inbox[Watcher])) <= EventCapacity
     BY <1>28, <2>1, RegistryAssumption DEF WatcherEvent, ReadEvent
  <2>3. inbox' = [inbox EXCEPT ![Watcher] = Tail(inbox[Watcher])]
     BY <1>28 DEF WatcherEvent, ReadEvent
  <2>4. cancelling' \subseteq pending
     BY <1>28 DEF WatcherEvent
  <2>5. RegistryTypeOK'
    BY <1>28, <2>2, <2>3 DEF WatcherEvent, RegistryTypeOK
  <2>6. WatcherTypeOK'
    BY <1>28, <2>4 DEF WatcherEvent, WatcherTypeOK, CallsTypeOK
  <2>7. SessionsTypeOK' /\ CallsTypeOK' /\ SessionsWellFormed' /\ CallsWellFormed'
    BY <1>28 DEF WatcherEvent, SessionsTypeOK, CallsTypeOK, SessionsWellFormed,
         CallsWellFormed, RegistryTypeOK, IdsAllocated, ProvidersInstalled,
         PushesTargeted, SlotsInstalled
  <2> QED BY <2>5, <2>6, <2>7
<1>29. ASSUME WatcherLagged PROVE TypeInv'
  <2>1. RegistryTypeOK' /\ SessionsTypeOK' /\ CallsTypeOK' /\ WatcherTypeOK' /\ SessionsWellFormed' /\ CallsWellFormed'
    BY <1>29 DEF WatcherLagged, RegistryTypeOK, SessionsTypeOK, CallsTypeOK,
         WatcherTypeOK, SessionsWellFormed, CallsWellFormed, IdsAllocated,
         ProvidersInstalled, PushesTargeted, SlotsInstalled, ReadLagged
  <2> QED BY <2>1
<1>30. ASSUME NEW c \in Call, CancelOne(c) PROVE TypeInv'
  <2>1. CallsTypeOK'
    BY <1>30 DEF CancelOne, CallsTypeOK, CallRecord
  <2>2. CallsWellFormed'
    BY <1>30 DEF CancelOne, CallsTypeOK, CallsWellFormed, CallRecord
  <2>3. RegistryTypeOK' /\ SessionsTypeOK' /\ WatcherTypeOK' /\ SessionsWellFormed'
    BY <1>30 DEF CancelOne, RegistryTypeOK, SessionsTypeOK, WatcherTypeOK,
         SessionsWellFormed, IdsAllocated, ProvidersInstalled, PushesTargeted,
         SlotsInstalled
  <2> QED BY <2>1, <2>2, <2>3
<1>31. ASSUME NEW u \in Ura, LendSender(u) PROVE TypeInv'
  <2>1. LookupDispatch(u) \in Session /\ session[LookupDispatch(u)].stage # "unused"
    BY <1>31, DispatchAssumption DEF LendSender, LookupDispatch, RegistryTypeOK,
        SessionsWellFormed, SlotsInstalled, NoSession, Session
  <2>2. lent' \subseteq Session /\ \A s \in lent' : session'[s].stage # "unused"
    BY <1>31, <2>1 DEF LendSender, SessionsTypeOK, SessionsWellFormed, PushesTargeted
  <2>3. SessionsTypeOK'
    BY <1>31, <2>2 DEF LendSender, SessionsTypeOK
  <2>4. RegistryTypeOK' /\ CallsTypeOK' /\ WatcherTypeOK' /\ CallsWellFormed'
    BY <1>31 DEF LendSender, RegistryTypeOK, CallsTypeOK, WatcherTypeOK, CallsWellFormed
  <2>5. SessionsWellFormed'
    BY <1>31, <2>2 DEF LendSender, SessionsWellFormed, IdsAllocated, ProvidersInstalled,
        PushesTargeted, SlotsInstalled
  <2> QED BY <2>3, <2>4, <2>5
<1>32. ASSUME NEW s \in Session, PushInput(s) \/ ReturnSender(s) PROVE TypeInv'
  <2>1. s \in lent /\ session[s].ura \in Ura
    BY <1>32 DEF PushInput, ReturnSender, SessionsTypeOK, SessionsWellFormed, PushesTargeted,
        IdsAllocated
  <2>2. /\ byUra' \in [Ura -> Session \cup {NoSession}]
        /\ emitting' \in [Op -> Seq(Event)]
        /\ \A v \in Ura : byUra'[v] # NoSession => byUra'[v] = byUra[v]
    BY <1>32, <2>1, RemoveIfSessionTyped DEF PushInput, ReturnSender, RegistryTypeOK
  <2>3. Append(chan[s], Input) \in Seq(Frame)
        /\ Len(Append(chan[s], Input)) = Len(chan[s]) + 1
    BY DEF SessionsTypeOK, Frame, NormalFrame
  <2>4. chan' \in [Session -> Seq(Frame)] /\ \A r \in Session : Len(chan'[r]) <= DownCapacity
    <3>1. CASE chan' = chan BY <3>1 DEF SessionsTypeOK
    <3>2. CASE /\ chan' = [chan EXCEPT ![s] = Append(chan[s], Input)]
               /\ Len(chan[s]) # DownCapacity
      <4>1. Len(chan[s]) \in Nat /\ Len(chan[s]) <= DownCapacity BY DEF SessionsTypeOK
      <4>2. Len(Append(chan[s], Input)) <= DownCapacity
        BY <2>3, <3>2, <4>1, DispatchAssumption
      <4> QED BY <2>3, <3>2, <4>2 DEF SessionsTypeOK
    <3> QED BY <1>32, <3>1, <3>2 DEF PushInput, ReturnSender, Full
  <2>5. lent' \subseteq lent BY <1>32 DEF PushInput, ReturnSender
  <2>6. RegistryTypeOK'
    BY <1>32, <2>2 DEF PushInput, ReturnSender, RegistryTypeOK
  <2>7. SessionsTypeOK'
    BY <1>32, <2>4, <2>5 DEF PushInput, ReturnSender, SessionsTypeOK
  <2>8. CallsTypeOK' /\ WatcherTypeOK' /\ CallsWellFormed'
    BY <1>32 DEF PushInput, ReturnSender, CallsTypeOK, WatcherTypeOK, CallsWellFormed
  <2>9. SessionsWellFormed'
    BY <1>32, <2>2, <2>5 DEF PushInput, ReturnSender, SessionsWellFormed, IdsAllocated,
        ProvidersInstalled, PushesTargeted, SlotsInstalled, RegistryTypeOK
  <2> QED BY <2>6, <2>7, <2>8, <2>9
<1>33. CASE UNCHANGED vars
  BY <1>33 DEF vars, RegistryTypeOK, SessionsTypeOK, CallsTypeOK, WatcherTypeOK,
             SessionsWellFormed, IdsAllocated, ProvidersInstalled, PushesTargeted, SlotsInstalled,
             CallsWellFormed
<1> QED
  BY <1>1, <1>2, <1>3, <1>4, <1>5, <1>6, <1>7, <1>8, <1>9, <1>10,
     <1>11, <1>12, <1>13, <1>14, <1>15, <1>16, <1>17, <1>18, <1>19, <1>20,
     <1>21, <1>22, <1>23, <1>24, <1>25, <1>26, <1>27, <1>28, <1>29, <1>30,
     <1>31, <1>32, <1>33
  DEF Next, ProviderNext, PumpNext, DeviceNext, DispatcherNext, StreamedNext, WatcherNext,
      EmitDownFrame

LEMMA TypeInvInit == Init => TypeInv
<1> SUFFICES ASSUME Init PROVE TypeInv OBVIOUS
<1>1. RegistryTypeOK
  <2>1. 1 \in 1 .. MaxSession + 1 BY RegistryAssumption
  <2>2. Unused \in SessionRecord BY DEF Unused, SessionRecord
  <2> QED BY <2>1, <2>2, RegistryAssumption DEF Init, RegistryInit, RegistryTypeOK
<1>2. SessionsTypeOK
  BY DispatchAssumption DEF Init, SessionsTypeOK
<1>3. CallsTypeOK
  <2>1. NewCall \in CallRecord BY DEF NewCall, CallRecord, Outcome, NoReply
  <2> QED BY <2>1 DEF Init, CallsTypeOK
<1>4. WatcherTypeOK BY DEF Init, WatcherTypeOK
<1>5. SessionsWellFormed
  BY DEF Init, RegistryInit, Unused, SessionsWellFormed, IdsAllocated, ProvidersInstalled,
         PushesTargeted, SlotsInstalled
<1>6. CallsWellFormed BY DEF Init, NewCall, CallsWellFormed
<1> QED BY <1>1, <1>2, <1>3, <1>4, <1>5, <1>6 DEF TypeInv, TypeOK

LEMMA TypeInvInvariant == Spec => []TypeInv
<1>1. Init => TypeInv BY TypeInvInit
<1>2. TypeInv /\ [Next]_vars => TypeInv' BY TypeInvStep
<1> QED BY <1>1, <1>2, PTL DEF Spec

(***************************************************************************)
(* Every reachable state is well typed; in particular the broadcast ring   *)
(* and the per-session down channel never exceed their capacities,         *)
(* whichever of the dispatcher, the ack pusher and the provider runs.      *)
(***************************************************************************)
THEOREM TypeCorrect == Spec => []TypeOK
<1>1. TypeInv => TypeOK BY DEF TypeInv
<1> QED BY <1>1, TypeInvInvariant, PTL

-----------------------------------------------------------------------------
(***************************************************************************)
(* The correlation table.  A table entry is an unanswered call whose       *)
(* handle is alive; a call past registration is in the table until its     *)
(* oneshot holds a reply.                                                  *)
(***************************************************************************)
EntryIsOpen ==
    \A c \in Call : c \in pending =>
        call[c].pc \in {"registered", "waiting", "timedout"} /\ call[c].reply = NoReply

WaiterIsReachable ==
    \A c \in Call : call[c].pc \in {"registered", "waiting"} =>
        c \in pending \/ call[c].reply # NoReply

FreshIsUnanswered ==
    \A c \in Call : call[c].pc \in {"idle", "looked"} => call[c].reply = NoReply

TableInv == EntryIsOpen /\ WaiterIsReachable /\ FreshIsUnanswered

\* Every task but the ones of CallTask leaves the table and the calls alone.
CallTask ==
    \/ \E s \in Session, c \in Call : PumpResult(s, c)
    \/ \E c \in Call : CancelOne(c) \/ DispatcherNext(c)

LEMMA OthersLeaveCalls == [Next]_vars => CallTask \/ UNCHANGED <<call, pending>>
<1> SUFFICES ASSUME [Next]_vars, ~CallTask PROVE UNCHANGED <<call, pending>> OBVIOUS
<1> USE DEF callVars
<1>1. CASE UNCHANGED vars BY <1>1 DEF vars
<1>2. CASE \E u \in Ura : OpenSession(u) \/ SeedSelfPresence(u) \/ ForceRevoke(u)
  BY <1>2 DEF OpenSession, SeedSelfPresence, ForceRevoke
<1>3. CASE \E op \in Op : SendEvent(op) BY <1>3 DEF SendEvent
<1>4. CASE \E s \in Session : ProviderNext(s)
  BY <1>4 DEF ProviderNext, InsertSession, InsertSelfPresence, StartPumps, EmitDownFrame,
              EmitControlFrame, EmitNormalFrame, InputEnded, DownClosed, AbortProvider
<1>5. CASE \E s \in Session : PumpNext(s)
  BY <1>5 DEF PumpNext, CallTask, PumpEnd, PumpHeartbeat, PushAck
<1>6. CASE \E s \in Session : DeviceNext(s)
  BY <1>6 DEF DeviceNext, DeviceReply, DeviceHeartbeat, DeviceLeaves
<1>7. CASE \E c \in Call : DispatcherNext(c) BY <1>7 DEF CallTask
<1>8. CASE WatcherNext
  BY <1>8 DEF WatcherNext, CallTask, WatcherEvent, WatcherLagged
<1>9. CASE StreamedNext
  BY <1>9 DEF StreamedNext, LendSender, PushInput, ReturnSender
<1> QED BY <1>1, <1>2, <1>3, <1>4, <1>5, <1>6, <1>7, <1>8, <1>9 DEF Next

\* What a lookup, a registration and a push do to the calls and the table.
LEMMA LookupEffect ==
    ASSUME TypeInv, NEW c \in Call, NEW u \in Ura, Lookup(c, u)
    PROVE  /\ pending' = pending
           /\ call[c].pc = "idle"
           /\ \A d \in Call : d # c => call'[d] = call[d]
           /\ call'[c].pc \in {"looked", "done"}
           /\ call'[c].reply = NoReply \/ call'[c].reply = call[c].reply
<1>1. call \in [Call -> CallRecord] BY DEF TypeInv, TypeOK, CallsTypeOK
<1>2. CASE SelfTarget(u) \/ LookupDispatch(u) = NoSession
  BY <1>1, <1>2 DEF Lookup, Return, NewCall
<1>3. CASE ~(SelfTarget(u) \/ LookupDispatch(u) = NoSession)
  <2> DEFINE r == [call[c] EXCEPT !.pc = "looked", !.target = u, !.via = LookupDispatch(u)]
  <2>1. call' = [call EXCEPT ![c] = r] BY <1>3 DEF Lookup
  <2>2. r.pc = "looked" /\ r.reply = call[c].reply BY <1>1 DEF CallRecord
  <2> HIDE DEF r
  <2> QED BY <1>1, <2>1, <2>2 DEF Lookup
<1> QED BY <1>2, <1>3

LEMMA RegisterEffect ==
    ASSUME TypeInv, NEW c \in Call, Register(c)
    PROVE  /\ pending' = pending \cup {c}
           /\ call[c].pc = "looked"
           /\ \A d \in Call : d # c => call'[d] = call[d]
           /\ call'[c].pc = "registered" /\ call'[c].reply = call[c].reply
<1> DEFINE live == byUra[call[c].target] = call[c].via
<1> DEFINE r == [call[c] EXCEPT !.pc = "registered", !.regLive = live]
<1>1. call \in [Call -> CallRecord] BY DEF TypeInv, TypeOK, CallsTypeOK
<1>2. call' = [call EXCEPT ![c] = r] BY DEF Register
<1> HIDE DEF live
<1>3. r.pc = "registered" /\ r.reply = call[c].reply BY <1>1 DEF CallRecord
<1> HIDE DEF r
<1> QED BY <1>1, <1>2, <1>3 DEF Register

LEMMA PushCallEffect ==
    ASSUME TypeInv, NEW c \in Call, PushCall(c)
    PROVE  /\ call[c].pc = "registered"
           /\ \A d \in Call : d # c => call'[d] = call[d]
           /\ \/ /\ pending' = pending
                 /\ call'[c].pc = "waiting" /\ call'[c].reply = call[c].reply
              \/ /\ pending' = pending \ {c}
                 /\ call'[c].pc = "done" /\ call'[c].reply = NoReply
<1>1. call \in [Call -> CallRecord] BY DEF TypeInv, TypeOK, CallsTypeOK
<1>2. CASE call' = [call EXCEPT ![c].pc = "waiting"] /\ pending' = pending
  BY <1>1, <1>2 DEF PushCall, CallRecord
<1>3. CASE \E o \in Outcome : Return(c, o) /\ pending' = pending \ {c}
  BY <1>1, <1>3 DEF PushCall, Return, NewCall
<1> QED BY <1>2, <1>3 DEF PushCall, DropHandle, Outcome

LEMMA TableInvStep == TypeInv /\ TableInv /\ [Next]_vars => TableInv'
<1> SUFFICES ASSUME TypeInv, TableInv, [Next]_vars PROVE TableInv' OBVIOUS
<1>0. call \in [Call -> CallRecord] BY DEF TypeInv, TypeOK, CallsTypeOK
<1> USE DEF TableInv, EntryIsOpen, WaiterIsReachable, FreshIsUnanswered
<1>1. ASSUME NEW s \in Session, NEW c \in Call, PumpResult(s, c) PROVE TableInv'
  BY <1>0, <1>1 DEF PumpResult, Complete, CallRecord, NoReply
<1>2. ASSUME NEW c \in Call, CancelOne(c) PROVE TableInv'
  BY <1>0, <1>2 DEF CancelOne, CallRecord, NoReply
<1>3. ASSUME NEW c \in Call, NEW u \in Ura, Lookup(c, u) PROVE TableInv'
  BY <1>3, LookupEffect
<1>4. ASSUME NEW c \in Call, Register(c) PROVE TableInv'
  BY <1>4, RegisterEffect
<1>5. ASSUME NEW c \in Call, BuildFrameFails(c) PROVE TableInv'
  BY <1>0, <1>5 DEF BuildFrameFails, DropHandle, Return, NewCall, CallRecord, NoReply
<1>6. ASSUME NEW c \in Call, PushCall(c) PROVE TableInv'
  BY <1>6, PushCallEffect
<1>7. ASSUME NEW c \in Call, AwaitReply(c) PROVE TableInv'
  BY <1>0, <1>7 DEF AwaitReply, DropHandle, Return, NewCall, CallRecord, NoReply
<1>8. ASSUME NEW c \in Call, ReplyTimeout(c) PROVE TableInv'
  BY <1>0, <1>8 DEF ReplyTimeout, CallRecord, NoReply
<1>9. ASSUME NEW c \in Call, EvictTimedOut(c) PROVE TableInv'
  BY <1>0, <1>9 DEF EvictTimedOut, DropHandle, Return, NewCall, CallRecord, NoReply
<1>10. ASSUME NEW c \in Call, AbandonCall(c) PROVE TableInv'
  BY <1>0, <1>10 DEF AbandonCall, DropHandle, Return, NewCall, CallRecord, NoReply
<1>11. CASE UNCHANGED <<call, pending>> BY <1>11
<1> QED
  BY <1>1, <1>2, <1>3, <1>4, <1>5, <1>6, <1>7, <1>8, <1>9, <1>10, <1>11, OthersLeaveCalls
  DEF CallTask, DispatcherNext

LEMMA TableInvInvariant == Spec => []TableInv
<1>1. Init => TableInv
  BY DEF Init, NewCall, TableInv, EntryIsOpen, WaiterIsReachable, FreshIsUnanswered
<1>2. TypeInv /\ TableInv /\ [Next]_vars => TableInv' BY TableInvStep
<1> QED BY <1>1, <1>2, TypeInvInvariant, PTL DEF Spec

(***************************************************************************)
(* PendingDispatchMap does not leak: however results, cancellations,       *)
(* deadlines and abandoned callers interleave, an entry exists only while  *)
(* the dispatcher's PendingHandle does.                                    *)
(***************************************************************************)
THEOREM TableDoesNotLeak == Spec => []EntryHasHandle
<1>1. TypeInv /\ TableInv => EntryHasHandle
  BY DEF TypeInv, TypeOK, CallsTypeOK, TableInv, EntryIsOpen, EntryHasHandle
<1> QED BY <1>1, TypeInvInvariant, TableInvInvariant, PTL

(***************************************************************************)
(* A waiting dispatcher can always be woken: dispatch_frame_to_presence    *)
(* never finds its oneshot closed without a reply.                         *)
(***************************************************************************)
THEOREM WaiterIsNeverOrphaned == Spec => []NoOrphanWaiter
<1>1. TableInv => NoOrphanWaiter BY DEF TableInv, WaiterIsReachable, NoOrphanWaiter
<1> QED BY <1>1, TableInvInvariant, PTL

(***************************************************************************)
(* At-most-once completion: no later result, cancellation or deadline      *)
(* replaces the reply PendingDispatchMap handed to a waiter.               *)
(***************************************************************************)
THEOREM CompletionIsUnique == Spec => SettlesOnce
<1> DEFINE Kept == \A c \in Call : call[c].reply # NoReply
                      => call'[c].reply = call[c].reply \/ call'[c].pc = "done"
<1>1. TypeInv /\ TableInv /\ [Next]_vars => [Kept]_vars
  <2> SUFFICES ASSUME TypeInv, TableInv, [Next]_vars PROVE Kept OBVIOUS
  <2>0. call \in [Call -> CallRecord] BY DEF TypeInv, TypeOK, CallsTypeOK
  <2> USE DEF TableInv, EntryIsOpen, FreshIsUnanswered
  <2>1. ASSUME NEW s \in Session, NEW c \in Call, PumpResult(s, c) PROVE Kept
    BY <2>0, <2>1 DEF PumpResult, Complete, CallRecord, NoReply
  <2>2. ASSUME NEW c \in Call, CancelOne(c) PROVE Kept
    BY <2>0, <2>2 DEF CancelOne, CallRecord, NoReply
  <2>3. ASSUME NEW c \in Call, NEW u \in Ura, Lookup(c, u) PROVE Kept
    BY <2>3, LookupEffect
  <2>4. ASSUME NEW c \in Call, Register(c) PROVE Kept
    BY <2>4, RegisterEffect
  <2>5. ASSUME NEW c \in Call, BuildFrameFails(c) PROVE Kept
    BY <2>0, <2>5 DEF BuildFrameFails, DropHandle, Return, NewCall, CallRecord, NoReply
  <2>6. ASSUME NEW c \in Call, PushCall(c) PROVE Kept
    BY <2>6, PushCallEffect
  <2>7. ASSUME NEW c \in Call, AwaitReply(c) PROVE Kept
    BY <2>0, <2>7 DEF AwaitReply, DropHandle, Return, NewCall, CallRecord, NoReply
  <2>8. ASSUME NEW c \in Call, ReplyTimeout(c) PROVE Kept
    BY <2>0, <2>8 DEF ReplyTimeout, CallRecord, NoReply
  <2>9. ASSUME NEW c \in Call, EvictTimedOut(c) PROVE Kept
    BY <2>0, <2>9 DEF EvictTimedOut, DropHandle, Return, NewCall, CallRecord, NoReply
  <2>10. ASSUME NEW c \in Call, AbandonCall(c) PROVE Kept
    BY <2>0, <2>10 DEF AbandonCall, DropHandle, Return, NewCall, CallRecord, NoReply
  <2>11. CASE UNCHANGED <<call, pending>> BY <2>11
  <2> QED
    BY <2>1, <2>2, <2>3, <2>4, <2>5, <2>6, <2>7, <2>8, <2>9, <2>10, <2>11, OthersLeaveCalls
    DEF CallTask, DispatcherNext
<1>2. SettlesOnce <=> [][Kept]_vars BY DEF SettlesOnce
<1> QED BY <1>1, <1>2, TypeInvInvariant, TableInvInvariant, PTL DEF Spec

=============================================================================
