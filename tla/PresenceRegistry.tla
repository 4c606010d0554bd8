-------------------------- MODULE PresenceRegistry --------------------------
(***************************************************************************)
(* The hub's registry of live `session.open` reverse channels              *)
(* (src/daemon/invocation/bidi/state/presence.rs): a concurrent map from   *)
(* device URA to the session that currently owns it, a session-id          *)
(* allocator, and a lossy broadcast of Online/Offline events.              *)
(*                                                                         *)
(* A map operation is atomic (one DashMap shard lock), but an operation is *)
(* not: the id is allocated before the map is written, and the events are  *)
(* broadcast after it, each send a step of its own.  The operators here    *)
(* are the steps; the modules that extend this one give them to threads.   *)
(* OfflineReason and the frame-0 contract are left out: no decision        *)
(* modelled here reads them.                                               *)
(***************************************************************************)
EXTENDS Integers, Sequences, FiniteSets

CONSTANTS
    Ura,            \* principals that open sessions
    SelfUra,        \* the URAs a device-mode daemon seeds as resolve-only
    Key,            \* user public keys a session can be admitted with
    MaxSession,     \* bound on the number of session ids ever allocated
    EventCapacity,  \* PRESENCE_EVENT_CHANNEL_CAPACITY
    Subscriber      \* holders of a broadcast receiver

NoSession == 0
NoUra == "no ura"
NoKey == "no key"

ASSUME RegistryAssumption ==
    /\ SelfUra \subseteq Ura
    /\ NoUra \notin Ura
    /\ NoKey \notin Key
    /\ MaxSession \in Nat
    /\ EventCapacity \in Nat \ {0}

Session == 1 .. MaxSession

Online(u)  == [type |-> "online",  ura |-> u]
Offline(u) == [type |-> "offline", ura |-> u]
Event == [type : {"online", "offline"}, ura : Ura]

(***************************************************************************)
(* The threads that may still owe the broadcast an event: the one that     *)
(* inserted session s and the one that removed it.                         *)
(***************************************************************************)
Op == {"insert", "remove"} \X Session

VARIABLES
    byUra,          \* URA -> id of the session in its slot, or NoSession
    nextSessionId,  \* AtomicU64 allocator
    session,        \* per id: how far its insert got, and its slot's facts
    emitting,       \* per operation: events not yet sent on the broadcast
    inbox,          \* per receiver: retained events it has not read
    lagged          \* receivers whose oldest unread event was overwritten

registryVars == <<byUra, nextSessionId, session, emitting, inbox, lagged>>

SessionRecord == [stage : {"unused", "allocated", "installed"},
                  ura   : Ura \cup {NoUra},
                  kind  : {"dispatch", "resolveOnly"},
                  key   : Key \cup {NoKey}]

Unused == [stage |-> "unused", ura |-> NoUra, kind |-> "dispatch", key |-> NoKey]

RegistryTypeOK ==
    /\ byUra \in [Ura -> Session \cup {NoSession}]
    /\ nextSessionId \in 1 .. MaxSession + 1
    /\ session \in [Session -> SessionRecord]
    /\ emitting \in [Op -> Seq(Event)]
    /\ inbox \in [Subscriber -> Seq(Event)]
    /\ \A r \in Subscriber : Len(inbox[r]) <= EventCapacity
    /\ lagged \subseteq Subscriber

RegistryInit ==
    /\ byUra = [u \in Ura |-> NoSession]
    /\ nextSessionId = 1
    /\ session = [s \in Session |-> Unused]
    /\ emitting = [op \in Op |-> << >>]
    /\ inbox = [r \in Subscriber |-> << >>]
    /\ lagged = {}

-----------------------------------------------------------------------------
\* Mutants: an allocator that loads without adding; a displacement that
\* announces only the newcomer; a removal that ignores the generation.
AllocateSameId(u, kind, key) ==
    /\ nextSessionId <= MaxSession
    /\ session' = [session EXCEPT ![nextSessionId] =
                      [stage |-> "allocated", ura |-> u, kind |-> kind, key |-> key]]
    /\ UNCHANGED nextSessionId

InsertEventsOnlineOnly(u, prior) == <<Online(u)>>

RemoveAnySession(u, s) ==
    IF byUra[u] = NoSession
    THEN UNCHANGED <<byUra, emitting>>
    ELSE /\ byUra' = [byUra EXCEPT ![u] = NoSession]
         /\ emitting' = [emitting EXCEPT ![<<"remove", byUra[u]>>] = <<Offline(u)>>]

\* Mutant: a ring that never overwrites.
PushUnbounded(q, e) == Append(q, e)

(***************************************************************************)
(* insert_negotiated_with_trust and insert_resolve_only: first the         *)
(* fetch_add on the allocator ...                                          *)
(***************************************************************************)
Allocate(u, kind, key) ==
    /\ nextSessionId <= MaxSession
    /\ session' = [session EXCEPT ![nextSessionId] =
                      [stage |-> "allocated", ura |-> u, kind |-> kind, key |-> key]]
    /\ nextSessionId' = nextSessionId + 1

\* The events one insert owes: a displaced prior slot goes Offline first.
InsertEvents(u, prior) ==
    IF prior = NoSession THEN <<Online(u)>> ELSE <<Offline(u), Online(u)>>

(***************************************************************************)
(* ... then the map insert, which returns the displaced prior slot.        *)
(***************************************************************************)
Install(s) ==
    LET u == session[s].ura IN
    /\ session[s].stage = "allocated"
    /\ byUra' = [byUra EXCEPT ![u] = s]
    /\ session' = [session EXCEPT ![s].stage = "installed"]
    /\ emitting' = [emitting EXCEPT ![<<"insert", s>>] = InsertEvents(u, byUra[u])]

(***************************************************************************)
(* remove / force_revoke: whatever session is in the slot goes, and its    *)
(* remover owes an Offline.  No-op on an empty slot.                       *)
(***************************************************************************)
Remove(u) ==
    IF byUra[u] = NoSession
    THEN UNCHANGED <<byUra, emitting>>
    ELSE /\ byUra' = [byUra EXCEPT ![u] = NoSession]
         /\ emitting' = [emitting EXCEPT ![<<"remove", byUra[u]>>] = <<Offline(u)>>]

\* remove_if_session: the slot goes only if it still belongs to session s.
RemoveIfSession(u, s) ==
    IF byUra[u] = s THEN Remove(u) ELSE UNCHANGED <<byUra, emitting>>

\* force_revoke_if_admitted_key: only a slot admitted with that key goes.
MatchesAdmittedKey(s, k) == s # NoSession /\ session[s].key = k

ForceRevokeIfAdmittedKey(u, k) ==
    IF MatchesAdmittedKey(byUra[u], k) THEN Remove(u)
    ELSE UNCHANGED <<byUra, emitting>>

(***************************************************************************)
(* emit_online / emit_offline: the next event an operation owes is sent to *)
(* the receivers subscribed at that moment.  The channel (external:        *)
(* tokio::sync::broadcast) retains EventCapacity events; a receiver whose  *)
(* oldest unread event is overwritten reads Lagged once and continues from *)
(* the oldest retained one.                                                *)
(***************************************************************************)
Push(q, e) ==
    IF Len(q) = EventCapacity THEN Append(Tail(q), e) ELSE Append(q, e)

Emit(op, subscribed) ==
    /\ emitting[op] # << >>
    /\ emitting' = [emitting EXCEPT ![op] = Tail(@)]
    /\ inbox' = [r \in Subscriber |->
                    IF r \in subscribed THEN Push(inbox[r], Head(emitting[op])) ELSE inbox[r]]
    /\ lagged' = lagged \cup {r \in subscribed : Len(inbox[r]) = EventCapacity}

ReadEvent(r) ==
    /\ r \notin lagged
    /\ inbox[r] # << >>
    /\ inbox' = [inbox EXCEPT ![r] = Tail(@)]

ReadLagged(r) ==
    /\ r \in lagged
    /\ lagged' = lagged \ {r}

\* lookup_dispatch_session / lookup_tracked: resolve-only rows have no sender.
LookupDispatch(u) ==
    IF byUra[u] # NoSession /\ session[byUra[u]].kind = "dispatch"
    THEN byUra[u] ELSE NoSession

IsResolveOnly(u) == byUra[u] # NoSession /\ session[byUra[u]].kind = "resolveOnly"

Snapshot == {u \in Ura : byUra[u] # NoSession}

=============================================================================
