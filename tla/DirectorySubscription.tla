----------------------- MODULE DirectorySubscription -----------------------
(***************************************************************************)
(* The presence registry under concurrent clients, observed through one    *)
(* federation.subscribe_directory_v2 pump                                  *)
(* (src/daemon/invocation/streams/stream_dispatcher.rs).                   *)
(*                                                                         *)
(* Clients are threads that open sessions, revoke them, or hold a recorded *)
(* session id and remove that exact generation.  The pump takes a          *)
(* snapshot, subscribes, and folds events into what its consumer believes; *)
(* on Lagged it sends a fresh snapshot.  The 256-slot channel from pump to *)
(* consumer is left out: it is FIFO and the consumer is taken to keep up.  *)
(***************************************************************************)
EXTENDS PresenceRegistry

CONSTANT Pump       \* the pump's broadcast receiver, a member of Subscriber

ASSUME PumpAssumption == Pump \in Subscriber

VARIABLES
    pump,       \* control state of the pump task
    view,       \* URAs the consumer believes online
    overlapped, \* history: URAs written while another operation on them
                \*   had not yet sent its events
    sent,       \* history: how many events of each kind were sent
    missed      \* history: URAs with an event sent after the pump's first
                \*   snapshot and before its subscription

vars == <<byUra, nextSessionId, session, emitting, inbox, lagged,
          pump, view, overlapped, sent, missed>>

Owing(u) == \E op \in Op : emitting[op] # << >> /\ session[op[2]].ura = u

-----------------------------------------------------------------------------
(***************************************************************************)
(* The map changes hands at u; the race is recorded if an earlier          *)
(* operation on u still owes events.                                       *)
(***************************************************************************)
NoteOverlap(u) ==
    overlapped' = IF byUra' # byUra /\ Owing(u) THEN overlapped \cup {u} ELSE overlapped

OpenSession(u, k) ==
    /\ Allocate(u, "dispatch", k)
    /\ UNCHANGED <<byUra, emitting, inbox, lagged, pump, view, overlapped, sent, missed>>

SeedSelfPresence(u) ==
    /\ u \in SelfUra
    /\ Allocate(u, "resolveOnly", NoKey)
    /\ UNCHANGED <<byUra, emitting, inbox, lagged, pump, view, overlapped, sent, missed>>

InsertSession(s) ==
    /\ Install(s)
    /\ NoteOverlap(session[s].ura)
    /\ UNCHANGED <<nextSessionId, inbox, lagged, pump, view, sent, missed>>

\* Admin revoke and the trust invalidator's host revoke.
ForceRevoke(u) ==
    /\ Remove(u)
    /\ NoteOverlap(u)
    /\ UNCHANGED <<nextSessionId, session, inbox, lagged, pump, view, sent, missed>>

\* A user key is revoked while a session may be live under another key.
RevokeUserKey(u, k) ==
    /\ ForceRevokeIfAdmittedKey(u, k)
    /\ NoteOverlap(u)
    /\ UNCHANGED <<nextSessionId, session, inbox, lagged, pump, view, sent, missed>>

\* A lease, dispatcher or purge that recorded session s removes it, however late.
RemoveRecorded(s) ==
    /\ session[s].stage = "installed"
    /\ RemoveIfSession(session[s].ura, s)
    /\ NoteOverlap(session[s].ura)
    /\ UNCHANGED <<nextSessionId, session, inbox, lagged, pump, view, sent, missed>>

SendEvent(op) ==
    /\ Emit(op, IF pump \in {"streaming", "resnapshot"} THEN {Pump} ELSE {})
    /\ sent' = [sent EXCEPT ![Head(emitting[op])] = @ + 1]
    /\ missed' = IF pump = "snapshotted" THEN missed \cup {Head(emitting[op]).ura} ELSE missed
    /\ UNCHANGED <<byUra, nextSessionId, session, pump, view, overlapped>>

-----------------------------------------------------------------------------
\* subscribe_directory_v2 builds the initial snapshot ...
PumpSnapshot ==
    /\ pump = "idle"
    /\ pump' = "snapshotted"
    /\ view' = Snapshot
    /\ UNCHANGED <<registryVars, overlapped, sent, missed>>

\* ... and subscribes afterwards.
PumpSubscribe ==
    /\ pump = "snapshotted"
    /\ pump' = "streaming"
    /\ UNCHANGED <<registryVars, view, overlapped, sent, missed>>

\* presence_event_to_directory_event: Online is an upsert, Offline a remove.
ApplyEvent(e, seen) ==
    IF e.type = "online" THEN seen \cup {e.ura} ELSE seen \ {e.ura}

PumpEvent ==
    /\ pump = "streaming"
    /\ ReadEvent(Pump)
    /\ view' = ApplyEvent(Head(inbox[Pump]), view)
    /\ UNCHANGED <<byUra, nextSessionId, session, emitting, lagged, pump, overlapped, sent, missed>>

PumpLagged ==
    /\ pump = "streaming"
    /\ ReadLagged(Pump)
    /\ pump' = "resnapshot"
    /\ UNCHANGED <<byUra, nextSessionId, session, emitting, inbox, view, overlapped, sent, missed>>

\* Mutant: on Lagged the pump carries on with what is left in the channel.
ResnapshotSkipped ==
    /\ pump = "resnapshot"
    /\ pump' = "streaming"
    /\ UNCHANGED <<registryVars, view, overlapped, sent, missed>>

PumpResnapshot ==
    /\ pump = "resnapshot"
    /\ view' = Snapshot
    /\ pump' = "streaming"
    /\ UNCHANGED <<registryVars, overlapped, sent, missed>>

-----------------------------------------------------------------------------
Init ==
    /\ RegistryInit
    /\ pump = "idle"
    /\ view = {}
    /\ overlapped = {}
    /\ sent = [e \in Event |-> 0]
    /\ missed = {}

Next ==
    \/ \E u \in Ura, k \in Key : OpenSession(u, k) \/ RevokeUserKey(u, k)
    \/ \E u \in Ura : SeedSelfPresence(u) \/ ForceRevoke(u)
    \/ \E s \in Session : InsertSession(s) \/ RemoveRecorded(s)
    \/ \E op \in Op : SendEvent(op)
    \/ PumpSnapshot \/ PumpSubscribe \/ PumpEvent \/ PumpLagged \/ PumpResnapshot

Spec == Init /\ [][Next]_vars

-----------------------------------------------------------------------------
TypeOK ==
    /\ RegistryTypeOK
    /\ pump \in {"idle", "snapshotted", "streaming", "resnapshot"}
    /\ view \subseteq Ura
    /\ overlapped \subseteq Ura
    /\ sent \in [Event -> Nat]
    /\ missed \subseteq Ura

\* Operations that still owe event e (an operation owes an event at most once).
Owed(e) == Cardinality({op \in Op : \E i \in DOMAIN emitting[op] : emitting[op][i] = e})

(***************************************************************************)
(* Every generation that enters the map is announced exactly once and      *)
(* every generation that leaves it, removed or displaced, is retired       *)
(* exactly once: sent and still-owed Onlines exceed Offlines by one        *)
(* exactly when the slot is occupied (the insert, remove and force_revoke  *)
(* operations of presence.rs).                                             *)
(***************************************************************************)
EventsAccountForMap ==
    \A u \in Ura :
        sent[Online(u)] + Owed(Online(u))
          = sent[Offline(u)] + Owed(Offline(u)) + (IF byUra[u] = NoSession THEN 0 ELSE 1)

(***************************************************************************)
(* A generation that left the map, by removal or displacement, never gets  *)
(* back into it: what lets a stale task's recorded id prove ownership.     *)
(***************************************************************************)
Retired(s) == session[s].stage = "installed" /\ byUra[session[s].ura] # s

NoResurrection == [][\A s \in Session : Retired(s) => Retired(s)']_vars

-----------------------------------------------------------------------------
\* Nothing about u is in flight between the map and the consumer.
Settled(u) == ~Owing(u) /\ pump = "streaming" /\ inbox[Pump] = << >> /\ Pump \notin lagged

Exact(u) == u \in view <=> byUra[u] # NoSession

(***************************************************************************)
(* The consumer's directory is exact about every URA with nothing in       *)
(* flight, whatever lags and re-snapshots happened, provided no two        *)
(* operations on that URA overlapped between map and broadcast and no      *)
(* event of it fell between the pump's snapshot and its subscription.      *)
(***************************************************************************)
SettledViewIsExact ==
    \A u \in Ura \ (overlapped \cup missed) : Settled(u) => Exact(u)

=============================================================================
