----------------------- MODULE SessionPresenceProofs -----------------------
(***************************************************************************)
(* Presence equals liveness: a dispatchable slot of the registry belongs   *)
(* to a provider that is serving, and a provider that ends touches no slot *)
(* but its own.  And a slot that is emptied or changes hands is announced: *)
(* the calls waiting on it are told.                                       *)
(***************************************************************************)
EXTENDS SessionDispatchProofs

(***************************************************************************)
(* NoGhostPresence is not inductive: that a provider leaving "running"     *)
(* empties its slot rests on its lease not having been closed before.      *)
(***************************************************************************)
LeaseIsOpen ==
    \A s \in Session : provider[s] \in {"absent", "announcing", "running"} =>
        lease[s] # "closed"

SlotIsServed ==
    \A u \in Ura : byUra[u] # NoSession /\ session[byUra[u]].kind = "dispatch" =>
        provider[byUra[u]] \in {"announcing", "running"}

PresenceInv == LeaseIsOpen /\ SlotIsServed

\* A removal fenced by session s empties a slot only if it holds s.
LEMMA RemoveIfSessionFenced ==
    ASSUME TypeInv, NEW u \in Ura, NEW s \in Session, RemoveIfSession(u, s)
    PROVE  /\ \A v \in Ura : byUra[v] # s => byUra'[v] = byUra[v]
           /\ \A v \in Ura : byUra'[v] \in {byUra[v], NoSession}
           /\ byUra'[u] # s
<1>1. byUra \in [Ura -> Session \cup {NoSession}] BY DEF TypeInv, TypeOK, RegistryTypeOK
<1>2. s # NoSession BY DEF Session, NoSession
<1>3. CASE byUra[u] = s
  <2>1. byUra' = [byUra EXCEPT ![u] = NoSession]
    BY <1>2, <1>3 DEF RemoveIfSession, Remove
  <2> QED BY <1>1, <1>2, <1>3, <2>1
<1>4. CASE byUra[u] # s
  BY <1>1, <1>4 DEF RemoveIfSession
<1> QED BY <1>3, <1>4

\* A provider that closes an open lease leaves no slot with its session.
LEMMA CloseLeaseFenced ==
    ASSUME TypeInv, PresenceInv, NEW s \in Session, session[s].ura \in Ura,
           provider[s] \in {"running", "draining"}, CloseLease(s)
    PROVE  /\ \A v \in Ura : byUra[v] # s => byUra'[v] = byUra[v]
           /\ \A v \in Ura : byUra'[v] \in {byUra[v], NoSession}
           /\ session[s].kind = "dispatch" => \A v \in Ura : byUra'[v] # s
           /\ lease' = [lease EXCEPT ![s] = "closed"]
<1>1. byUra \in [Ura -> Session \cup {NoSession}] BY DEF TypeInv, TypeOK, RegistryTypeOK
<1>2. \A v \in Ura : byUra[v] = s => v = session[s].ura
  BY DEF TypeInv, SessionsWellFormed, SlotsInstalled, Session, NoSession
<1>3. lease' = [lease EXCEPT ![s] = "closed"] BY DEF CloseLease
<1>4. CASE lease[s] = "closed"
  <2>1. provider[s] = "draining" BY <1>4 DEF PresenceInv, LeaseIsOpen
  <2>2. session[s].kind = "dispatch" => \A v \in Ura : byUra[v] # s
    BY <2>1 DEF PresenceInv, SlotIsServed, Session, NoSession
  <2>3. byUra' = byUra BY <1>4 DEF CloseLease
  <2> QED BY <1>3, <2>2, <2>3
<1>5. CASE lease[s] # "closed"
  <2>1. RemoveIfSession(session[s].ura, s) BY <1>5 DEF CloseLease
  <2>2. /\ \A v \in Ura : byUra[v] # s => byUra'[v] = byUra[v]
        /\ \A v \in Ura : byUra'[v] \in {byUra[v], NoSession}
        /\ byUra'[session[s].ura] # s
    BY <2>1, RemoveIfSessionFenced
  <2>3. \A v \in Ura : byUra'[v] # s
    BY <1>2, <2>2, <1>1 DEF Session, NoSession
  <2> QED BY <1>3, <2>2, <2>3
<1> QED BY <1>4, <1>5

\* What the tasks that never write provider, lease, session or a slot do.
SlotTask ==
    \/ \E u \in Ura : OpenSession(u) \/ SeedSelfPresence(u) \/ ForceRevoke(u)
    \/ \E s \in Session : \/ InsertSession(s) \/ InsertSelfPresence(s) \/ StartPumps(s)
                          \/ InputEnded(s) \/ DownClosed(s) \/ AbortProvider(s)
                          \/ PushAck(s) \/ PushInput(s)
    \/ \E c \in Call : PushCall(c)

LEMMA OthersLeaveSlots ==
    [Next]_vars => SlotTask \/ UNCHANGED <<byUra, session, provider, lease>>
<1> SUFFICES ASSUME [Next]_vars, ~SlotTask
             PROVE  UNCHANGED <<byUra, session, provider, lease>> OBVIOUS
<1> USE DEF registryVars, sessionVars
<1>1. CASE UNCHANGED vars BY <1>1 DEF vars
<1>2. CASE \E u \in Ura : OpenSession(u) \/ SeedSelfPresence(u) \/ ForceRevoke(u)
  BY <1>2 DEF SlotTask
<1>3. CASE \E op \in Op : SendEvent(op) BY <1>3 DEF SendEvent
<1>4. CASE \E s \in Session : ProviderNext(s)
  BY <1>4 DEF ProviderNext, SlotTask, EmitDownFrame, EmitControlFrame, EmitNormalFrame
<1>5. CASE \E s \in Session : PumpNext(s)
  BY <1>5 DEF PumpNext, SlotTask, PumpResult, PumpEnd, PumpHeartbeat
<1>6. CASE \E s \in Session : DeviceNext(s)
  BY <1>6 DEF DeviceNext, DeviceReply, DeviceHeartbeat, DeviceLeaves
<1>7. CASE \E c \in Call : DispatcherNext(c)
  BY <1>7 DEF DispatcherNext, SlotTask, Lookup, Register, BuildFrameFails, AwaitReply,
              ReplyTimeout, EvictTimedOut, AbandonCall
<1>8. CASE WatcherNext
  BY <1>8 DEF WatcherNext, WatcherEvent, WatcherLagged, CancelOne
<1>9. CASE StreamedNext
  BY <1>9 DEF StreamedNext, SlotTask, LendSender, ReturnSender
<1> QED BY <1>1, <1>2, <1>3, <1>4, <1>5, <1>6, <1>7, <1>8, <1>9 DEF Next

\* Emptying slots, and nothing else, keeps presence.
LEMMA RemovalKeepsPresence ==
    ASSUME TypeInv, PresenceInv, UNCHANGED <<session, provider, lease>>,
           \A v \in Ura : byUra'[v] # NoSession => byUra'[v] = byUra[v]
    PROVE  PresenceInv'
BY DEF PresenceInv, LeaseIsOpen, SlotIsServed

\* An allocation writes an id that no slot holds.
LEMMA AllocationKeepsPresence ==
    ASSUME TypeInv, PresenceInv, NEW u \in Ura, NEW kind \in {"dispatch", "resolveOnly"},
           Allocate(u, kind, NoKey), UNCHANGED <<byUra, provider, lease>>
    PROVE  PresenceInv'
<1>1. LeaseIsOpen' BY DEF PresenceInv, LeaseIsOpen
<1>2. ASSUME NEW v \in Ura, byUra'[v] # NoSession, session'[byUra'[v]].kind = "dispatch"
      PROVE  provider'[byUra'[v]] \in {"announcing", "running"}
  <2>1. byUra[v] \in Session BY <1>2 DEF TypeInv, TypeOK, RegistryTypeOK
  <2>2. session[byUra[v]].stage = "installed"
    BY <1>2 DEF TypeInv, SessionsWellFormed, SlotsInstalled
  <2>3. session'[byUra[v]] = session[byUra[v]]
    BY <2>1, <2>2, AllocateTyped
  <2> QED BY <1>2, <2>3 DEF PresenceInv, SlotIsServed
<1> QED BY <1>1, <1>2 DEF PresenceInv, SlotIsServed

LEMMA PresenceInvStep == TypeInv /\ PresenceInv /\ [Next]_vars => PresenceInv'
<1> SUFFICES ASSUME TypeInv, PresenceInv, [Next]_vars PROVE PresenceInv' OBVIOUS
<1> USE DEF sessionVars
<1>a. /\ provider \in [Session -> {"absent", "announcing", "running", "draining", "ended"}]
      /\ lease \in [Session -> {"none", "active", "closed"}]
      /\ byUra \in [Ura -> Session \cup {NoSession}]
  BY DEF TypeInv, TypeOK, SessionsTypeOK, RegistryTypeOK
<1>1. ASSUME NEW u \in Ura, OpenSession(u) PROVE PresenceInv'
  BY <1>1, AllocationKeepsPresence DEF OpenSession
<1>2. ASSUME NEW u \in Ura, SeedSelfPresence(u) PROVE PresenceInv'
  BY <1>2, AllocationKeepsPresence DEF SeedSelfPresence
<1>3. ASSUME NEW u \in Ura, ForceRevoke(u) PROVE PresenceInv'
  BY <1>3, RemoveTyped, RemovalKeepsPresence DEF ForceRevoke, TypeInv, TypeOK
<1>4. ASSUME NEW s \in Session, InsertSession(s) PROVE PresenceInv'
  <2>1. /\ session[s].ura \in Ura /\ session[s].stage = "allocated"
        /\ byUra' = [byUra EXCEPT ![session[s].ura] = s]
        /\ \A t \in Session : t # s => session'[t] = session[t]
    BY <1>4, InstallTyped DEF InsertSession
  <2>2. provider' = [provider EXCEPT ![s] = "announcing"] /\ lease' = lease
    BY <1>4 DEF InsertSession
  <2>3. provider[s] = "absent"
    BY <1>a, <2>1 DEF TypeInv, SessionsWellFormed, ProvidersInstalled
  <2>4. LeaseIsOpen' BY <1>a, <2>2, <2>3 DEF PresenceInv, LeaseIsOpen
  <2>5. SlotIsServed' BY <1>a, <2>1, <2>2 DEF PresenceInv, SlotIsServed
  <2> QED BY <2>4, <2>5 DEF PresenceInv
<1>5. ASSUME NEW s \in Session, InsertSelfPresence(s) PROVE PresenceInv'
  <2>1. /\ session[s].ura \in Ura
        /\ byUra' = [byUra EXCEPT ![session[s].ura] = s]
        /\ \A t \in Session : t # s => session'[t] = session[t]
    BY <1>5, InstallTyped DEF InsertSelfPresence
  <2>2. provider' = provider /\ lease' = lease BY <1>5 DEF InsertSelfPresence
  <2>3. session[s] \in SessionRecord /\ session \in [Session -> SessionRecord]
    BY DEF TypeInv, TypeOK, RegistryTypeOK
  <2>4. session'[s].kind = "resolveOnly"
    BY <1>5, <2>3 DEF InsertSelfPresence, Install, SessionRecord
  <2>5. LeaseIsOpen' BY <2>2 DEF PresenceInv, LeaseIsOpen
  <2>6. SlotIsServed' BY <1>a, <2>1, <2>2, <2>4 DEF PresenceInv, SlotIsServed
  <2> QED BY <2>5, <2>6 DEF PresenceInv
<1>6. ASSUME NEW s \in Session, StartPumps(s) PROVE PresenceInv'
  BY <1>a, <1>6 DEF StartPumps, registryVars, PresenceInv, LeaseIsOpen, SlotIsServed
<1>7. ASSUME NEW s \in Session, provider[s] \in {"running", "draining"}, CloseLease(s),
             session' = session,
             NEW p \in {"draining", "ended"}, provider' = [provider EXCEPT ![s] = p]
      PROVE  PresenceInv'
  <2>1. session[s].ura \in Ura
    BY <1>7 DEF TypeInv, SessionsWellFormed, IdsAllocated, ProvidersInstalled
  <2>2. /\ \A v \in Ura : byUra'[v] \in {byUra[v], NoSession}
        /\ session[s].kind = "dispatch" => \A v \in Ura : byUra'[v] # s
        /\ lease' = [lease EXCEPT ![s] = "closed"]
    BY <1>7, <2>1, CloseLeaseFenced
  <2>3. LeaseIsOpen' BY <1>a, <1>7, <2>2 DEF PresenceInv, LeaseIsOpen
  <2>4. SlotIsServed' BY <1>a, <1>7, <2>2 DEF PresenceInv, SlotIsServed
  <2> QED BY <2>3, <2>4 DEF PresenceInv
<1>8. ASSUME NEW s \in Session, InputEnded(s) PROVE PresenceInv'
  BY <1>7, <1>8 DEF InputEnded
<1>9. ASSUME NEW s \in Session, DownClosed(s) PROVE PresenceInv'
  BY <1>7, <1>9 DEF DownClosed, TearDown
<1>10. ASSUME NEW s \in Session, AbortProvider(s) PROVE PresenceInv'
  BY <1>7, <1>10 DEF AbortProvider, TearDown
<1>11. ASSUME NEW s \in Session, PushAck(s) PROVE PresenceInv'
  <2>1. pushTo[s] \in Session /\ session[pushTo[s]].ura \in Ura
    BY <1>11 DEF PushAck, TypeInv, SessionsWellFormed, IdsAllocated, PushesTargeted
  <2>2. \A v \in Ura : byUra'[v] # NoSession => byUra'[v] = byUra[v]
    BY <1>11, <2>1, RemoveIfSessionTyped DEF PushAck, TypeInv, TypeOK
  <2> QED BY <1>11, <2>2, RemovalKeepsPresence DEF PushAck
<1>12. ASSUME NEW c \in Call, PushCall(c) PROVE PresenceInv'
  <2>1. call[c].via \in Session /\ call[c].target \in Ura
    BY <1>12 DEF PushCall, TypeInv, CallsWellFormed
  <2>2. \A v \in Ura : byUra'[v] # NoSession => byUra'[v] = byUra[v]
    BY <1>12, <2>1, RemoveIfSessionTyped DEF PushCall, TypeInv, TypeOK
  <2> QED BY <1>12, <2>2, RemovalKeepsPresence DEF PushCall
<1>13. CASE UNCHANGED <<byUra, session, provider, lease>>
  BY <1>13 DEF PresenceInv, LeaseIsOpen, SlotIsServed
<1>14. ASSUME NEW s \in Session, PushInput(s) PROVE PresenceInv'
  <2>1. session[s].ura \in Ura
    BY <1>14 DEF PushInput, TypeInv, SessionsWellFormed, IdsAllocated, PushesTargeted
  <2>2. \A v \in Ura : byUra'[v] # NoSession => byUra'[v] = byUra[v]
    BY <1>14, <2>1, RemoveIfSessionTyped DEF PushInput, TypeInv, TypeOK
  <2> QED BY <1>14, <2>2, RemovalKeepsPresence DEF PushInput
<1> QED
  BY <1>1, <1>2, <1>3, <1>4, <1>5, <1>6, <1>8, <1>9, <1>10, <1>11, <1>12, <1>13, <1>14,
     OthersLeaveSlots DEF SlotTask

LEMMA PresenceInvInvariant == Spec => []PresenceInv
<1>1. Init => PresenceInv
  BY DEF Init, RegistryInit, PresenceInv, LeaseIsOpen, SlotIsServed
<1>2. TypeInv /\ PresenceInv /\ [Next]_vars => PresenceInv' BY PresenceInvStep
<1> QED BY <1>1, <1>2, TypeInvInvariant, PTL DEF Spec

(***************************************************************************)
(* The registry lists no ghost: a dispatchable slot always belongs to a    *)
(* provider that has not started to end, whichever way providers end and   *)
(* whoever displaces or revokes whom meanwhile.                            *)
(***************************************************************************)
THEOREM PresenceIsLiveness == Spec => []NoGhostPresence
<1>1. PresenceInv => NoGhostPresence
  BY DEF PresenceInv, SlotIsServed, NoGhostPresence, LookupDispatch
<1> QED BY <1>1, PresenceInvInvariant, PTL

(***************************************************************************)
(* The lease is fenced by generation: the step in which a provider closes  *)
(* it changes no slot that holds another session.                          *)
(***************************************************************************)
THEOREM LeaseNeverEvictsSuccessor == Spec => LeaseIsFenced
<1> DEFINE Fenced ==
      \A s \in Session : lease[s] # "closed" /\ lease'[s] = "closed" =>
          \A u \in Ura : byUra[u] # s => byUra'[u] = byUra[u]
<1>1. TypeInv /\ PresenceInv /\ [Next]_vars => [Fenced]_vars
  <2> SUFFICES ASSUME TypeInv, PresenceInv, [Next]_vars PROVE Fenced OBVIOUS
  <2> USE DEF sessionVars
  <2>a. lease \in [Session -> {"none", "active", "closed"}]
    BY DEF TypeInv, TypeOK, SessionsTypeOK
  <2>1. CASE lease' = lease BY <2>1
  <2>2. ASSUME NEW s \in Session, StartPumps(s) PROVE Fenced
    BY <2>a, <2>2 DEF StartPumps
  <2>3. ASSUME NEW s \in Session, provider[s] \in {"running", "draining"}, CloseLease(s)
        PROVE  Fenced
    <3>1. session[s].ura \in Ura
      BY <2>3 DEF TypeInv, SessionsWellFormed, IdsAllocated, ProvidersInstalled
    <3>2. /\ \A v \in Ura : byUra[v] # s => byUra'[v] = byUra[v]
          /\ lease' = [lease EXCEPT ![s] = "closed"]
      BY <2>3, <3>1, CloseLeaseFenced
    <3> QED BY <2>a, <3>2
  <2>4. SlotTask =>
          \/ lease' = lease
          \/ \E s \in Session : StartPumps(s)
          \/ \E s \in Session : provider[s] \in {"running", "draining"} /\ CloseLease(s)
    BY DEF SlotTask, OpenSession, SeedSelfPresence, ForceRevoke, InsertSession,
           InsertSelfPresence, InputEnded, DownClosed, AbortProvider, PushAck, PushInput,
           PushCall
  <2> QED BY <2>1, <2>2, <2>3, <2>4, OthersLeaveSlots
<1>2. LeaseIsFenced <=> [][Fenced]_vars BY DEF LeaseIsFenced
<1> QED BY <1>1, <1>2, TypeInvInvariant, PresenceInvInvariant, PTL DEF Spec

-----------------------------------------------------------------------------
(***************************************************************************)
(* Fail-fast.  OfflineReachesWaiters is not inductive: a call is deserted  *)
(* already between its registration and its push, and that an operation's  *)
(* pending events are not overwritten rests on their being about its own   *)
(* session's URA.                                                          *)
(***************************************************************************)
EmitsOwn ==
    \A op \in Op :
        /\ emitting[op] # << >> => session[op[2]].stage = "installed"
        /\ \A i \in DOMAIN emitting[op] : emitting[op][i].ura = session[op[2]].ura

Deserted(c) ==
    /\ call[c].pc \in {"registered", "waiting"}
    /\ call[c].reply = NoReply
    /\ call[c].regLive
    /\ byUra[call[c].target] # call[c].via

Warned ==
    watcher = "running" =>
        \A c \in Call : Deserted(c) => OfflineComing(call[c].target) \/ c \in cancelling

WarningInv == EmitsOwn /\ Warned

\* An Offline of u that its operation has not sent yet.
OwedOffline(u) == \E op \in Op : \E i \in DOMAIN emitting[op] : emitting[op][i] = Offline(u)

\* A slot is emptied or changes hands only with an Offline on its way, and
\* what is on its way stays so.
Announces ==
    /\ \A v \in Ura : OfflineComing(v) => OfflineComing(v)'
    /\ \A v \in Ura : byUra'[v] = byUra[v] \/ byUra[v] = NoSession \/ OfflineComing(v)'

LEMMA RemoveAnnounces ==
    ASSUME TypeInv, EmitsOwn, NEW u \in Ura, Remove(u), UNCHANGED <<session, inbox, lagged>>
    PROVE  EmitsOwn' /\ Announces
<1>1. CASE byUra[u] = NoSession
  <2>1. UNCHANGED <<byUra, emitting>> BY <1>1 DEF Remove
  <2> QED BY <2>1 DEF EmitsOwn, Announces, OfflineComing, Offline
<1>2. CASE byUra[u] # NoSession
  <2>1. PICK s, op : s = byUra[u] /\ op = <<"remove", s>> OBVIOUS
  <2>2. s \in Session /\ op \in Op /\ op[2] = s
    BY <1>2, <2>1 DEF TypeInv, TypeOK, RegistryTypeOK, Op
  <2>3. session[s].ura = u /\ session[s].stage = "installed"
    BY <1>2, <2>1 DEF TypeInv, SessionsWellFormed, SlotsInstalled
  <2>4. /\ byUra' = [byUra EXCEPT ![u] = NoSession]
        /\ emitting' = [emitting EXCEPT ![op] = <<Offline(u)>>]
    BY <1>2, <2>1 DEF Remove
  <2>5. \A o \in Op : emitting'[o] = IF o = op THEN <<Offline(u)>> ELSE emitting[o]
    BY <2>4 DEF TypeInv, TypeOK, RegistryTypeOK
  <2>6. \A i \in DOMAIN <<Offline(u)>> : <<Offline(u)>>[i] = Offline(u) OBVIOUS
  <2>7. 1 \in DOMAIN <<Offline(u)>> OBVIOUS
  <2>8. Offline(u).ura = u BY DEF Offline
  <2>9. EmitsOwn'
    <3> SUFFICES ASSUME NEW o \in Op
                 PROVE  /\ emitting'[o] # << >> => session'[o[2]].stage = "installed"
                        /\ \A i \in DOMAIN emitting'[o] : emitting'[o][i].ura = session'[o[2]].ura
      BY DEF EmitsOwn
    <3>1. CASE o = op BY <3>1, <2>2, <2>3, <2>5, <2>6, <2>8
    <3>2. CASE o # op BY <3>2, <2>5 DEF EmitsOwn
    <3> QED BY <3>1, <3>2
  <2>10. OwedOffline(u)'
    <3>1. emitting'[op][1] = Offline(u) /\ 1 \in DOMAIN emitting'[op]
      BY <2>2, <2>5, <2>6, <2>7
    <3>2. Offline(u)' = Offline(u) BY DEF Offline
    <3> QED BY <2>2, <3>1, <3>2 DEF OwedOffline
  <2>11. \A v \in Ura : v # u /\ OwedOffline(v) => OwedOffline(v)'
    <3> SUFFICES ASSUME NEW v \in Ura, v # u, NEW o \in Op, NEW i \in DOMAIN emitting[o],
                        emitting[o][i] = Offline(v)
                 PROVE  emitting'[o] = emitting[o]
      BY DEF OwedOffline, Offline
    <3>1. session[o[2]].ura = v BY DEF EmitsOwn, Offline
    <3>2. o # op BY <3>1, <2>2, <2>3
    <3> QED BY <3>2, <2>5
  <2>12. \A v \in Ura : v # u => byUra'[v] = byUra[v]
    BY <2>4 DEF TypeInv, TypeOK, RegistryTypeOK
  <2>13. \A v \in Ura : OwedOffline(v)' => OfflineComing(v)'
    BY DEF OwedOffline, OfflineComing
  <2>14. \A v \in Ura : OfflineComing(v) /\ ~OwedOffline(v) => OfflineComing(v)'
    BY DEF OwedOffline, OfflineComing, Offline
  <2> QED BY <2>9, <2>10, <2>11, <2>12, <2>13, <2>14 DEF Announces
<1> QED BY <1>1, <1>2

LEMMA RemoveIfSessionAnnounces ==
    ASSUME TypeInv, EmitsOwn, NEW u \in Ura, NEW s, RemoveIfSession(u, s),
           UNCHANGED <<session, inbox, lagged>>
    PROVE  EmitsOwn' /\ Announces
<1>1. CASE byUra[u] = s BY <1>1, RemoveAnnounces DEF RemoveIfSession
<1>2. CASE byUra[u] # s
  <2>1. UNCHANGED <<byUra, emitting>> BY <1>2 DEF RemoveIfSession
  <2> QED BY <2>1 DEF EmitsOwn, Announces, OfflineComing, Offline
<1> QED BY <1>1, <1>2

LEMMA NothingToAnnounce ==
    ASSUME EmitsOwn, UNCHANGED <<byUra, emitting, session, inbox, lagged>>
    PROVE  EmitsOwn' /\ Announces
BY DEF EmitsOwn, Announces, OfflineComing, Offline

LEMMA CloseLeaseAnnounces ==
    ASSUME TypeInv, EmitsOwn, NEW s \in Session, provider[s] \in {"running", "draining"},
           CloseLease(s), UNCHANGED <<session, inbox, lagged>>
    PROVE  EmitsOwn' /\ Announces
<1>1. session[s].ura \in Ura
  BY DEF TypeInv, SessionsWellFormed, IdsAllocated, ProvidersInstalled
<1>2. CASE lease[s] = "closed" BY <1>2, NothingToAnnounce DEF CloseLease
<1>3. CASE lease[s] # "closed" BY <1>1, <1>3, RemoveIfSessionAnnounces DEF CloseLease
<1> QED BY <1>2, <1>3

\* An insert that displaces a session announces that one's end first.
LEMMA InstallAnnounces ==
    ASSUME TypeInv, EmitsOwn, NEW s \in Session, Install(s), UNCHANGED <<inbox, lagged>>
    PROVE  EmitsOwn' /\ Announces
<1>1. /\ session[s].ura \in Ura /\ session[s].stage = "allocated"
      /\ byUra' = [byUra EXCEPT ![session[s].ura] = s]
      /\ session'[s].stage = "installed"
      /\ \A t \in Session : t # s => session'[t] = session[t]
      /\ \A t \in Session : session'[t].ura = session[t].ura
  BY InstallTyped
<1>2. PICK u, op : u = session[s].ura /\ op = <<"insert", s>> OBVIOUS
<1>3. u \in Ura /\ op \in Op /\ op[2] = s BY <1>1, <1>2 DEF Op
<1>4. emitting[op] = << >> BY <1>1, <1>3 DEF EmitsOwn
<1>5. PICK events : events = InsertEvents(u, byUra[u]) OBVIOUS
<1>6. \A o \in Op : emitting'[o] = IF o = op THEN events ELSE emitting[o]
  BY <1>2, <1>5 DEF Install, TypeInv, TypeOK, RegistryTypeOK
<1>7. Offline(u).ura = u /\ Online(u).ura = u BY DEF Offline, Online
<1>8. PICK on, off : on = Online(u) /\ off = Offline(u) OBVIOUS
<1>9. \/ byUra[u] = NoSession /\ events = <<on>>
      \/ byUra[u] # NoSession /\ events = <<off, on>>
  BY <1>5, <1>8 DEF InsertEvents
<1>10. \A i \in DOMAIN events : events[i].ura = u
  BY <1>7, <1>8, <1>9
<1>11. byUra[u] # NoSession => 1 \in DOMAIN events /\ events[1] = off
  BY <1>9
<1>12. \A o \in Op : o[2] \in Session BY DEF Op
<1>13. EmitsOwn'
  <2> SUFFICES ASSUME NEW o \in Op
               PROVE  /\ emitting'[o] # << >> => session'[o[2]].stage = "installed"
                      /\ \A i \in DOMAIN emitting'[o] : emitting'[o][i].ura = session'[o[2]].ura
    BY DEF EmitsOwn
  <2>1. CASE o = op BY <2>1, <1>1, <1>2, <1>3, <1>6, <1>10
  <2>2. CASE o # op
    <3>1. emitting'[o] = emitting[o] /\ session'[o[2]].ura = session[o[2]].ura
      BY <2>2, <1>1, <1>6, <1>12
    <3>2. session[o[2]].stage = "installed" => session'[o[2]].stage = "installed"
      BY <1>1, <1>12
    <3> QED BY <3>1, <3>2 DEF EmitsOwn
  <2> QED BY <2>1, <2>2
<1>14. \A v \in Ura : OfflineComing(v) => OfflineComing(v)'
  <2>1. \A o \in Op : emitting[o] # << >> => emitting'[o] = emitting[o] BY <1>4, <1>6
  <2>2. \A o \in Op : \A i \in DOMAIN emitting[o] : emitting[o] # << >>
    OBVIOUS
  <2>3. \A v \in Ura : OwedOffline(v) => OwedOffline(v)' BY <2>1, <2>2 DEF OwedOffline, Offline
  <2>4. \A v \in Ura : OwedOffline(v)' => OfflineComing(v)' BY DEF OwedOffline, OfflineComing
  <2>5. \A v \in Ura : OfflineComing(v) /\ ~OwedOffline(v) => OfflineComing(v)'
    BY DEF OwedOffline, OfflineComing, Offline
  <2> QED BY <2>3, <2>4, <2>5
<1>15. \A v \in Ura : v # u => byUra'[v] = byUra[v]
  BY <1>1, <1>2 DEF TypeInv, TypeOK, RegistryTypeOK
<1>16. byUra[u] # NoSession => OfflineComing(u)'
  <2> SUFFICES ASSUME byUra[u] # NoSession PROVE OfflineComing(u)'
    OBVIOUS
  <2>1. 1 \in DOMAIN emitting'[op] /\ emitting'[op][1] = off BY <1>3, <1>6, <1>11
  <2> QED BY <2>1, <1>3, <1>8 DEF OfflineComing, Offline
<1> QED BY <1>13, <1>14, <1>15, <1>16 DEF Announces

\* A sent event is queued for the watcher; if the ring was full, it has lagged.
LEMMA SendAnnounces ==
    ASSUME TypeInv, EmitsOwn, NEW op \in Op, Emit(op, {Watcher}), UNCHANGED <<byUra, session>>
    PROVE  EmitsOwn' /\ Announces
<1>1. /\ emitting[op] # << >>
      /\ emitting' = [emitting EXCEPT ![op] = Tail(emitting[op])]
      /\ inbox' = [r \in Subscriber |->
                     IF r \in {Watcher} THEN Push(inbox[r], Head(emitting[op])) ELSE inbox[r]]
      /\ lagged' = lagged \cup {r \in {Watcher} : Len(inbox[r]) = EventCapacity}
  BY DEF Emit
<1>2. PICK q, e, rest : q = emitting[op] /\ e = Head(q) /\ rest = Tail(q) OBVIOUS
<1>3. q \in Seq(Event) /\ q # << >> BY <1>1, <1>2 DEF TypeInv, TypeOK, RegistryTypeOK
<1>4. /\ DOMAIN q = 1 .. Len(q) /\ Len(q) \in Nat \ {0} /\ e = q[1] /\ e \in Event
      /\ DOMAIN rest = 1 .. Len(q) - 1
      /\ \A i \in 1 .. Len(q) - 1 : rest[i] = q[i + 1]
  BY <1>2, <1>3
<1>5. \A o \in Op : emitting'[o] = IF o = op THEN rest ELSE emitting[o]
  BY <1>1, <1>2 DEF TypeInv, TypeOK, RegistryTypeOK
<1>6. EmitsOwn'
  <2> SUFFICES ASSUME NEW o \in Op
               PROVE  /\ emitting'[o] # << >> => session'[o[2]].stage = "installed"
                      /\ \A i \in DOMAIN emitting'[o] : emitting'[o][i].ura = session'[o[2]].ura
    BY DEF EmitsOwn
  <2>1. CASE o = op
    <3>1. \A i \in DOMAIN q : q[i].ura = session[op[2]].ura BY <1>2 DEF EmitsOwn
    <3>2. \A i \in DOMAIN rest : rest[i].ura = session[op[2]].ura BY <3>1, <1>4
    <3>3. session[op[2]].stage = "installed" BY <1>1 DEF EmitsOwn
    <3> QED BY <2>1, <3>2, <3>3, <1>5
  <2>2. CASE o # op BY <2>2, <1>5 DEF EmitsOwn
  <2> QED BY <2>1, <2>2
<1>7. PICK ring : ring = inbox[Watcher] OBVIOUS
<1>8. ring \in Seq(Event) /\ Len(ring) <= EventCapacity
  BY <1>7, DispatchAssumption DEF TypeInv, TypeOK, RegistryTypeOK
<1>9. inbox'[Watcher] = Push(ring, e) BY <1>1, <1>2, <1>7, DispatchAssumption
<1>10. Len(ring) = EventCapacity => Watcher \in lagged' BY <1>1, <1>7
<1>11. Len(ring) # EventCapacity => inbox'[Watcher] = Append(ring, e) BY <1>9 DEF Push
<1>12. PICK next : next = Append(ring, e) OBVIOUS
<1>13. /\ DOMAIN next = 1 .. Len(ring) + 1 /\ DOMAIN ring = 1 .. Len(ring) /\ Len(ring) \in Nat
       /\ \A i \in 1 .. Len(ring) : next[i] = ring[i]
       /\ next[Len(ring) + 1] = e
  BY <1>4, <1>8, <1>12
<1>14. ASSUME NEW v \in Ura, OfflineComing(v) PROVE OfflineComing(v)'
  <2>0. PICK off : off = Offline(v) OBVIOUS
  <2>1. CASE Watcher \in lagged
    BY <2>1, <1>1 DEF OfflineComing
  <2>2. CASE Len(ring) = EventCapacity
    BY <2>2, <1>10 DEF OfflineComing
  <2>3. CASE Len(ring) # EventCapacity /\ \E i \in DOMAIN inbox[Watcher] : inbox[Watcher][i] = Offline(v)
    <3>1. PICK i \in DOMAIN ring : ring[i] = off BY <2>0, <2>3, <1>7
    <3>2. i \in DOMAIN next /\ next[i] = off BY <3>1, <1>13
    <3>3. inbox'[Watcher] = next BY <2>3, <1>11, <1>12
    <3> QED BY <2>0, <3>2, <3>3 DEF OfflineComing, Offline
  <2>4. CASE Len(ring) # EventCapacity /\ \E o \in Op : \E i \in DOMAIN emitting[o] : emitting[o][i] = Offline(v)
    <3>1. PICK o \in Op : \E i \in DOMAIN emitting[o] : emitting[o][i] = off BY <2>0, <2>4
    <3>2. PICK i \in DOMAIN emitting[o] : emitting[o][i] = off BY <3>1
    <3>3. CASE o # op
      <4>1. emitting'[o] = emitting[o] BY <3>3, <1>5
      <4> QED BY <2>0, <3>2, <4>1 DEF OfflineComing, Offline
    <3>4. CASE o = op /\ i = 1
      <4>1. e = off BY <3>2, <3>4, <1>2, <1>4
      <4>2. Len(ring) + 1 \in DOMAIN next /\ next[Len(ring) + 1] = off BY <4>1, <1>13
      <4>3. inbox'[Watcher] = next BY <2>4, <1>11, <1>12
      <4> QED BY <2>0, <4>2, <4>3 DEF OfflineComing, Offline
    <3>5. CASE o = op /\ i # 1
      <4>1. i \in 1 .. Len(q) /\ q[i] = off BY <3>2, <3>5, <1>2, <1>4
      <4>2. i - 1 \in DOMAIN rest /\ rest[i - 1] = q[(i - 1) + 1] /\ (i - 1) + 1 = i
        BY <3>5, <4>1, <1>4
      <4>3. emitting'[op] = rest BY <1>5
      <4>4. i - 1 \in DOMAIN emitting'[op] /\ emitting'[op][i - 1] = off BY <4>1, <4>2, <4>3
      <4> QED BY <2>0, <4>4 DEF OfflineComing, Offline
    <3> QED BY <3>3, <3>4, <3>5
  <2> QED BY <1>14, <2>1, <2>2, <2>3, <2>4 DEF OfflineComing
<1> QED BY <1>6, <1>14 DEF Announces

\* The id of an allocation owes nothing: it has not been installed.
LEMMA AllocateAnnounces ==
    ASSUME TypeInv, EmitsOwn, NEW u \in Ura, NEW kind \in {"dispatch", "resolveOnly"},
           Allocate(u, kind, NoKey), UNCHANGED <<byUra, emitting, inbox, lagged>>
    PROVE  EmitsOwn' /\ Announces
<1>1. PICK n : n = nextSessionId OBVIOUS
<1>2. /\ \A s \in Session : s # n => session'[s] = session[s]
      /\ session[n].stage = "unused"
  BY <1>1, AllocateTyped
<1>3. \A op \in Op : op[2] \in Session BY DEF Op
<1>4. EmitsOwn'
  <2> SUFFICES ASSUME NEW o \in Op
               PROVE  /\ emitting[o] # << >> => session'[o[2]].stage = "installed"
                      /\ \A i \in DOMAIN emitting[o] : emitting[o][i].ura = session'[o[2]].ura
    BY DEF EmitsOwn
  <2>1. CASE o[2] = n
    <3>1. emitting[o] = << >> BY <2>1, <1>2 DEF EmitsOwn
    <3>2. DOMAIN emitting[o] = {} BY <3>1
    <3> QED BY <3>1, <3>2
  <2>2. CASE o[2] # n
    <3>1. session'[o[2]] = session[o[2]] BY <2>2, <1>2, <1>3
    <3> QED BY <3>1 DEF EmitsOwn
  <2> QED BY <2>1, <2>2
<1> QED BY <1>4 DEF Announces, OfflineComing, Offline

\* A call that waits, registered while its session was in the registry.
Waits(c) ==
    /\ call[c].pc \in {"registered", "waiting"}
    /\ call[c].reply = NoReply
    /\ call[c].regLive

\* No call starts to wait on a session that is not in the registry.
WaitsAreOld ==
    \A c \in Call : Waits(c)' =>
        \/ Waits(c) /\ call'[c].target = call[c].target /\ call'[c].via = call[c].via
        \/ byUra'[call'[c].target] = call'[c].via

\* Calls that only stop waiting stay warned by what is announced.
LEMMA WarnedStays ==
    ASSUME TypeInv, Warned, Announces, WaitsAreOld, UNCHANGED watcherVars
    PROVE  Warned'
<1> SUFFICES ASSUME watcher = "running", NEW c \in Call, Deserted(c)'
             PROVE  OfflineComing(call[c].target)' \/ c \in cancelling
  BY DEF Warned, watcherVars
<1>1. Waits(c)' /\ byUra'[call'[c].target] # call'[c].via BY DEF Deserted, Waits
<1>2. Waits(c) /\ call'[c].target = call[c].target /\ call'[c].via = call[c].via
  BY <1>1 DEF WaitsAreOld
<1>3. PICK u, s : u = call[c].target /\ s = call[c].via OBVIOUS
<1>4. u \in Ura /\ s \in Session BY <1>2, <1>3 DEF Waits, TypeInv, CallsWellFormed
<1>5. s # NoSession BY <1>4 DEF Session, NoSession
<1>6. OfflineComing(call[c].target)' <=> OfflineComing(u)'
  BY <1>2, <1>3 DEF OfflineComing, Offline
<1>7. CASE byUra[u] = s
  <2>1. byUra'[u] # byUra[u] BY <1>1, <1>2, <1>3, <1>7
  <2>2. OfflineComing(u)' BY <1>4, <1>5, <1>7, <2>1 DEF Announces
  <2> QED BY <1>6, <2>2
<1>8. CASE byUra[u] # s
  <2>1. Deserted(c) BY <1>2, <1>3, <1>8 DEF Deserted, Waits
  <2>2. OfflineComing(u) \/ c \in cancelling BY <2>1, <1>3 DEF Warned
  <2> QED BY <1>4, <1>6, <2>2 DEF Announces
<1> QED BY <1>7, <1>8

LEMMA WarningInvStep == TypeInv /\ TableInv /\ WarningInv /\ [Next]_vars => WarningInv'
<1> SUFFICES ASSUME TypeInv, TableInv, WarningInv, [Next]_vars PROVE WarningInv' OBVIOUS
<1> USE DEF sessionVars, callVars, watcherVars, registryVars
<1>0. call \in [Call -> CallRecord] BY DEF TypeInv, TypeOK, CallsTypeOK
<1>a. EmitsOwn /\ Warned BY DEF WarningInv
<1>b. call' = call => WaitsAreOld BY DEF WaitsAreOld, Waits
<1>c. ASSUME EmitsOwn', Announces, WaitsAreOld, UNCHANGED watcherVars PROVE WarningInv'
  BY <1>a, <1>c, WarnedStays DEF WarningInv
<1>1. ASSUME NEW u \in Ura, OpenSession(u) PROVE WarningInv'
  BY <1>a, <1>b, <1>c, <1>1, AllocateAnnounces DEF OpenSession
<1>2. ASSUME NEW u \in Ura, SeedSelfPresence(u) PROVE WarningInv'
  BY <1>a, <1>b, <1>c, <1>2, AllocateAnnounces DEF SeedSelfPresence
<1>3. ASSUME NEW u \in Ura, ForceRevoke(u) PROVE WarningInv'
  BY <1>a, <1>b, <1>c, <1>3, RemoveAnnounces DEF ForceRevoke
<1>4. ASSUME NEW s \in Session, InsertSession(s) \/ InsertSelfPresence(s) PROVE WarningInv'
  BY <1>a, <1>b, <1>c, <1>4, InstallAnnounces DEF InsertSession, InsertSelfPresence
<1>5. ASSUME NEW s \in Session, InputEnded(s) \/ DownClosed(s) \/ AbortProvider(s)
      PROVE  WarningInv'
  <2>1. /\ provider[s] \in {"running", "draining"} /\ CloseLease(s)
        /\ UNCHANGED <<session, inbox, lagged, callVars, watcherVars>>
    BY <1>5 DEF InputEnded, DownClosed, AbortProvider
  <2> QED BY <1>a, <1>b, <1>c, <2>1, CloseLeaseAnnounces
<1>6. ASSUME NEW s \in Session, PushAck(s) PROVE WarningInv'
  <2>1. pushTo[s] \in Session /\ session[pushTo[s]].ura \in Ura
    BY <1>6 DEF PushAck, TypeInv, SessionsWellFormed, IdsAllocated, PushesTargeted
  <2>2. UNCHANGED <<session, inbox, lagged, callVars, watcherVars>> BY <1>6 DEF PushAck
  <2>3. UNCHANGED <<byUra, emitting>> \/ RemoveIfSession(session[pushTo[s]].ura, pushTo[s])
    BY <1>6 DEF PushAck
  <2> QED BY <1>a, <1>b, <1>c, <2>1, <2>2, <2>3, RemoveIfSessionAnnounces, NothingToAnnounce
<1>7. ASSUME NEW op \in Op, SendEvent(op) PROVE WarningInv'
  BY <1>a, <1>b, <1>c, <1>7, SendAnnounces DEF SendEvent
<1>8. ASSUME NEW c \in Call, PushCall(c) PROVE WarningInv'
  <2>1. call[c].target \in Ura BY <1>8 DEF PushCall, TypeInv, CallsWellFormed
  <2>2. UNCHANGED <<session, inbox, lagged, watcherVars>> BY <1>8 DEF PushCall
  <2>3. UNCHANGED <<byUra, emitting>> \/ RemoveIfSession(call[c].target, call[c].via)
    BY <1>8 DEF PushCall
  <2>4. WaitsAreOld
    <3>1. CASE call' = [call EXCEPT ![c].pc = "waiting"]
      BY <1>0, <1>8, <3>1 DEF PushCall, WaitsAreOld, Waits, CallRecord
    <3>2. CASE \E o \in Outcome : Return(c, o)
      BY <1>0, <3>2 DEF Return, NewCall, WaitsAreOld, Waits
    <3> QED BY <1>8, <3>1, <3>2 DEF PushCall, Outcome
  <2> QED BY <1>a, <1>c, <2>1, <2>2, <2>3, <2>4, RemoveIfSessionAnnounces, NothingToAnnounce
<1>9. ASSUME UNCHANGED registryVars, UNCHANGED watcherVars, WaitsAreOld PROVE WarningInv'
  BY <1>a, <1>c, <1>9, NothingToAnnounce
<1>10. ASSUME NEW c \in Call, NEW u \in Ura, Lookup(c, u) PROVE WarningInv'
  <2>1. WaitsAreOld BY <1>10, LookupEffect DEF WaitsAreOld, Waits
  <2> QED BY <1>9, <1>10, <2>1 DEF Lookup
<1>11. ASSUME NEW c \in Call, Register(c) PROVE WarningInv'
  <2>1. PICK live : live = (byUra[call[c].target] = call[c].via) OBVIOUS
  <2>2. PICK r : r = [call[c] EXCEPT !.pc = "registered", !.regLive = live] OBVIOUS
  <2>3. call' = [call EXCEPT ![c] = r] BY <1>11, <2>1, <2>2 DEF Register
  <2>4. r.target = call[c].target /\ r.via = call[c].via /\ r.regLive = live
    BY <1>0, <2>2 DEF CallRecord
  <2>5. byUra' = byUra BY <1>11 DEF Register
  <2>6. \A d \in Call : call'[d] = IF d = c THEN r ELSE call[d] BY <1>0, <2>3
  <2>7. WaitsAreOld BY <2>1, <2>4, <2>5, <2>6 DEF WaitsAreOld, Waits
  <2> QED BY <1>9, <1>11, <2>7 DEF Register
<1>12. ASSUME NEW c \in Call,
              BuildFrameFails(c) \/ AwaitReply(c) \/ EvictTimedOut(c) \/ AbandonCall(c)
       PROVE  WarningInv'
  <2>1. PICK o : Return(c, o)
    BY <1>12 DEF BuildFrameFails, AwaitReply, EvictTimedOut, AbandonCall
  <2>2. WaitsAreOld BY <1>0, <2>1 DEF Return, NewCall, WaitsAreOld, Waits
  <2>3. UNCHANGED registryVars /\ UNCHANGED watcherVars
    BY <1>12 DEF BuildFrameFails, AwaitReply, EvictTimedOut, AbandonCall
  <2> QED BY <1>9, <2>2, <2>3
<1>13. ASSUME NEW c \in Call, ReplyTimeout(c) PROVE WarningInv'
  <2>1. WaitsAreOld BY <1>0, <1>13 DEF ReplyTimeout, WaitsAreOld, Waits, CallRecord
  <2> QED BY <1>9, <1>13, <2>1 DEF ReplyTimeout
<1>14. ASSUME NEW s \in Session, NEW c \in Call, PumpResult(s, c) PROVE WarningInv'
  <2>1. WaitsAreOld
    <3>1. CASE c \in pending
      BY <1>0, <1>14, <3>1 DEF PumpResult, Complete, WaitsAreOld, Waits, CallRecord, NoReply
    <3>2. CASE c \notin pending
      BY <1>b, <1>14, <3>2 DEF PumpResult, Complete
    <3> QED BY <3>1, <3>2
  <2> QED BY <1>9, <1>14, <2>1 DEF PumpResult
<1>15. CASE WatcherEvent
  <2>1. PICK ring : ring = inbox[Watcher] OBVIOUS
  <2>2. /\ watcher' = watcher /\ cancelling = {} /\ ring # << >> /\ Watcher \notin lagged
        /\ inbox' = [inbox EXCEPT ![Watcher] = Tail(ring)]
        /\ cancelling' = {d \in pending : Head(ring) = Offline(call[d].target)}
        /\ UNCHANGED <<byUra, session, emitting, lagged, call, pending>>
    BY <1>15, <2>1 DEF WatcherEvent, ReadEvent
  <2>3. ring \in Seq(Event)
    BY <2>1, DispatchAssumption DEF TypeInv, TypeOK, RegistryTypeOK
  <2>4. PICK rest : rest = Tail(ring) OBVIOUS
  <2>5. /\ DOMAIN ring = 1 .. Len(ring) /\ Len(ring) \in Nat \ {0} /\ Head(ring) = ring[1]
        /\ DOMAIN rest = 1 .. Len(ring) - 1
        /\ \A i \in 1 .. Len(ring) - 1 : rest[i] = ring[i + 1]
    BY <2>2, <2>3, <2>4
  <2>6. inbox'[Watcher] = rest
    BY <2>2, <2>4, DispatchAssumption DEF TypeInv, TypeOK, RegistryTypeOK
  <2>7. EmitsOwn' BY <1>a, <2>2 DEF EmitsOwn
  <2>8. ASSUME watcher = "running", NEW c \in Call, Deserted(c)'
        PROVE  OfflineComing(call[c].target)' \/ c \in cancelling'
    <3>1. Deserted(c) BY <2>2, <2>8 DEF Deserted
    <3>2. c \in pending BY <3>1 DEF Deserted, TableInv, WaiterIsReachable
    <3>3. PICK off : off = Offline(call[c].target) OBVIOUS
    <3>4. OfflineComing(call[c].target) BY <1>a, <2>2, <2>8, <3>1 DEF Warned
    <3>5. CASE \E o \in Op : \E i \in DOMAIN emitting[o] : emitting[o][i] = off
      BY <2>2, <3>3, <3>5 DEF OfflineComing, Offline
    <3>6. CASE \E i \in DOMAIN ring : ring[i] = off
      <4>1. PICK i \in 1 .. Len(ring) : ring[i] = off BY <2>5, <3>6
      <4>2. CASE i = 1 BY <2>2, <2>5, <3>2, <3>3, <4>1, <4>2
      <4>3. CASE i # 1
        <5>1. i - 1 \in DOMAIN rest /\ rest[i - 1] = ring[(i - 1) + 1] /\ (i - 1) + 1 = i
          BY <2>5, <4>1, <4>3
        <5>2. i - 1 \in DOMAIN inbox'[Watcher] /\ inbox'[Watcher][i - 1] = off
          BY <2>6, <4>1, <5>1
        <5> QED BY <2>2, <3>3, <5>2 DEF OfflineComing, Offline
      <4> QED BY <4>2, <4>3
    <3> QED BY <2>1, <2>2, <3>3, <3>4, <3>5, <3>6 DEF OfflineComing
  <2> QED BY <2>2, <2>7, <2>8 DEF WarningInv, Warned
<1>16. CASE WatcherLagged
  <2>1. watcher' = "exited" /\ UNCHANGED <<session, emitting>>
    BY <1>16 DEF WatcherLagged, ReadLagged
  <2>2. EmitsOwn' BY <1>a, <2>1 DEF EmitsOwn
  <2> QED BY <2>1, <2>2 DEF WarningInv, Warned
<1>17. ASSUME NEW c \in Call, CancelOne(c) PROVE WarningInv'
  <2>1. /\ UNCHANGED <<byUra, session, emitting, inbox, lagged, watcher>>
        /\ cancelling' = cancelling \ {c}
    BY <1>17 DEF CancelOne
  <2>2. \A d \in Call : d # c => call'[d] = call[d]
    BY <1>0, <1>17 DEF CancelOne
  <2>3. c \in pending => call'[c].reply # NoReply
    BY <1>0, <1>17 DEF CancelOne, CallRecord, NoReply
  <2>4. c \notin pending => call'[c] = call[c] BY <1>17 DEF CancelOne
  <2>5. ~Deserted(c)'
    BY <2>3, <2>4 DEF Deserted, TableInv, WaiterIsReachable
  <2>6. EmitsOwn' BY <1>a, <2>1 DEF EmitsOwn
  <2>7. ASSUME watcher = "running", NEW d \in Call, Deserted(d)'
        PROVE  OfflineComing(call[d].target)' \/ d \in cancelling'
    <3>1. d # c BY <2>5, <2>7
    <3>2. Deserted(d) BY <2>1, <2>2, <2>7, <3>1 DEF Deserted
    <3>3. OfflineComing(call[d].target) \/ d \in cancelling BY <1>a, <2>7, <3>2 DEF Warned
    <3>4. call'[d].target = call[d].target BY <2>2, <3>1
    <3>5. OfflineComing(call[d].target) => OfflineComing(call[d].target)'
      BY <2>1, <3>4 DEF OfflineComing, Offline
    <3> QED BY <2>1, <3>1, <3>3, <3>5
  <2> QED BY <2>1, <2>6, <2>7 DEF WarningInv, Warned
<1>18. CASE UNCHANGED <<registryVars, call, watcherVars>> BY <1>9, <1>b, <1>18
<1>19. ASSUME NEW s \in Session, StartPumps(s) \/ EmitDownFrame(s) \/ DeviceNext(s)
       PROVE  WarningInv'
  BY <1>18, <1>19 DEF StartPumps, EmitDownFrame, EmitControlFrame, EmitNormalFrame,
                      DeviceNext, DeviceReply, DeviceHeartbeat, DeviceLeaves
<1>20. ASSUME NEW s \in Session, PumpEnd(s) \/ PumpHeartbeat(s) PROVE WarningInv'
  BY <1>18, <1>20 DEF PumpEnd, PumpHeartbeat
<1>21. CASE UNCHANGED vars BY <1>18, <1>21 DEF vars
<1>22. ASSUME NEW s \in Session, PushInput(s) PROVE WarningInv'
  <2>1. session[s].ura \in Ura
    BY <1>22 DEF PushInput, TypeInv, SessionsWellFormed, IdsAllocated, PushesTargeted
  <2>2. UNCHANGED <<session, inbox, lagged, callVars, watcherVars>> BY <1>22 DEF PushInput
  <2>3. UNCHANGED <<byUra, emitting>> \/ RemoveIfSession(session[s].ura, s)
    BY <1>22 DEF PushInput
  <2> QED BY <1>a, <1>b, <1>c, <2>1, <2>2, <2>3, RemoveIfSessionAnnounces, NothingToAnnounce
<1>23. ASSUME NEW u \in Ura, LendSender(u) PROVE WarningInv'
  BY <1>18, <1>23 DEF LendSender
<1>24. ASSUME NEW s \in Session, ReturnSender(s) PROVE WarningInv'
  BY <1>18, <1>24 DEF ReturnSender
<1> QED
  BY <1>1, <1>2, <1>3, <1>4, <1>5, <1>6, <1>7, <1>8, <1>10, <1>11, <1>12, <1>13, <1>14,
     <1>15, <1>16, <1>17, <1>19, <1>20, <1>21, <1>22, <1>23, <1>24
  DEF Next, ProviderNext, PumpNext, DispatcherNext, StreamedNext, WatcherNext

LEMMA WarningInvInvariant == Spec => []WarningInv
<1>1. Init => WarningInv
  <2> SUFFICES ASSUME Init PROVE WarningInv OBVIOUS
  <2>1. EmitsOwn BY DEF Init, RegistryInit, EmitsOwn
  <2>2. Warned BY DEF Init, NewCall, Warned, Deserted
  <2> QED BY <2>1, <2>2 DEF WarningInv
<1>2. TypeInv /\ TableInv /\ WarningInv /\ [Next]_vars => WarningInv' BY WarningInvStep
<1> QED BY <1>1, <1>2, TypeInvInvariant, TableInvInvariant, PTL DEF Spec

(***************************************************************************)
(* Fail-fast reaches every waiter: whoever displaced, revoked or closed    *)
(* the session a call was registered on, the Offline that cancels the call *)
(* is owed, queued or being applied for as long as the call waits and the  *)
(* watcher has not exited on lag.                                          *)
(***************************************************************************)
THEOREM OfflineWarnsWaiters == Spec => []OfflineReachesWaiters
<1>1. WarningInv => OfflineReachesWaiters
  BY DEF WarningInv, Warned, Deserted, Stranded, OfflineReachesWaiters
<1> QED BY <1>1, WarningInvInvariant, PTL

=============================================================================
