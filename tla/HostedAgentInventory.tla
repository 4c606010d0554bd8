------------------------ MODULE HostedAgentInventory ------------------------
(***************************************************************************)
(* The hub's lifecycle of hosted agents.  A device registers an agent      *)
(* under an incarnation token, the hub answers with a generation, accepts  *)
(* ability projections for that generation and finally retires it through  *)
(* a revoke transaction that is first prepared and then applied            *)
(* (persistence/federation_revoke.rs, one file written under a lock).      *)
(* The directory rows that routing reads (advertised agents, ability       *)
(* catalog) are memory only and are rebuilt from that file at boot.        *)
(*                                                                         *)
(* HostedAgentLifecycleCoordinator serialises the handlers, so each is one *)
(* action, with an action of its own for a handler that stops between two  *)
(* writes because the second fails or the hub crashes.  Requests travel in *)
(* `inbox`: they may be lost, and may run after their caller gave up.      *)
(*                                                                         *)
(* One device hosts every agent, so the host, key and authority facts of   *)
(* a command always agree with the record; presence is PresenceRegistry's  *)
(* subject.                                                                *)
(***************************************************************************)
EXTENDS Naturals, FiniteSets

CONSTANTS
    Agent,          \* agent URAs
    Incarnation,    \* HostedAgentIncarnationId, minted by the device
    Txn,            \* purge transaction ids, minted by the device
    Caller,         \* the device's tasks that call the hub
    None,           \* no agent, incarnation, transaction or caller
    MaxGeneration,  \* bound: generations the hub assigns one agent
    MaxFence,       \* bound: delivery fences of one transaction
    MaxInFlight     \* bound: requests under way at once

ASSUME InventoryAssumption ==
    /\ None \notin Agent \cup Incarnation \cup Txn \cup Caller
    /\ MaxGeneration \in Nat
    /\ MaxFence \in Nat
    /\ MaxInFlight \in Nat

VARIABLES
    hub,         \* "up", or "recovering" between a crash and the end of boot
    record,      \* durable: HubHostedAgentInventoryFile.records
    txns,        \* durable: revoke_transactions
    deliveries,  \* durable: projection_deliveries
    advertised,  \* AdvertisedAgentStore: the generation of the agent's row
    catalog,     \* AbilityCatalogStore: the row's generation and revision
    inbox,       \* requests on their way to the hub
    call         \* per device task: its call to the hub

hubVars == <<hub, record, txns, deliveries, advertised, catalog>>
netVars == <<inbox, call>>

Generation == 0..MaxGeneration   \* 0: none
Fence == 0..MaxFence             \* 0: none
Disposition == {"none", "retired", "already", "superseded"}

InventoryRecord ==
    [life : {"absent", "active", "retired"}, gen : Generation,
     inc : Incarnation \cup {None}]

RevokeTransaction ==
    [state : {"absent", "prepared", "applied"}, agent : Agent \cup {None},
     gen : Generation, inc : Incarnation \cup {None}, fence : Fence,
     outcome : Disposition]

Delivery == [agent : Agent \cup {None}, gen : Generation, fence : Fence]

\* A publish without a transaction is the live projection (revision 1), one
\* with a transaction the purge tombstone (revision 2).
Request ==
    [kind : {"none", "register", "publish", "revoke"},
     from : Caller \cup {None}, agent : Agent \cup {None},
     inc : Incarnation \cup {None}, gen : Generation,
     txn : Txn \cup {None}, fence : Fence]

CallState ==
    {"idle", "waiting", "ok", "refused", "superseded", "handoff", "retired"}

CatalogRow == [gen : Generation, rev : 0..2]
HubCall == [state : CallState, req : Request, gen : Generation]

NoRequest ==
    [kind |-> "none", from |-> None, agent |-> None, inc |-> None,
     gen |-> 0, txn |-> None, fence |-> 0]

IdleCall == [state |-> "idle", req |-> NoRequest, gen |-> 0]
NoRow == [gen |-> 0, rev |-> 0]

InventoryTypeOK ==
    /\ hub \in {"up", "recovering"}
    /\ record \in [Agent -> InventoryRecord]
    /\ txns \in [Txn -> RevokeTransaction]
    /\ deliveries \in [Txn -> Delivery]
    /\ advertised \in [Agent -> Generation]
    /\ catalog \in [Agent -> CatalogRow]
    /\ inbox \in SUBSET Request
    /\ call \in [Caller -> HubCall]

InventoryInit ==
    /\ hub = "up"
    /\ record = [a \in Agent |-> [life |-> "absent", gen |-> 0, inc |-> None]]
    /\ txns = [t \in Txn |->
                 [state |-> "absent", agent |-> None, gen |-> 0, inc |-> None,
                  fence |-> 0, outcome |-> "none"]]
    /\ deliveries = [t \in Txn |-> [agent |-> None, gen |-> 0, fence |-> 0]]
    /\ advertised = [a \in Agent |-> 0]
    /\ catalog = [a \in Agent |-> NoRow]
    /\ inbox = {}
    /\ call = [c \in Caller |-> IdleCall]

-----------------------------------------------------------------------------
(* Calls.                                                                  *)

\* The device task sends the request and waits.
Issue(r) ==
    /\ Cardinality(inbox \cup {r}) <= MaxInFlight
    /\ inbox' = inbox \cup {r}
    /\ call' = [call EXCEPT ![r.from] =
                  [state |-> "waiting", req |-> r, gen |-> 0]]

\* The answer reaches the caller unless it stopped waiting for it.
Answered(r, state, gen) ==
    IF call[r.from].state = "waiting" /\ call[r.from].req = r
    THEN [call EXCEPT ![r.from] = [state |-> state, req |-> r, gen |-> gen]]
    ELSE call

\* A request whose caller no longer waits for it never arrives.  (One that is
\* awaited is lost by its caller giving up first.)
RequestLost(r) ==
    /\ call[r.from].req # r
    /\ inbox' = inbox \ {r}
    /\ UNCHANGED <<hubVars, call>>

\* The hub takes the request off the wire and enters the lifecycle gate.
Takes(r, kind) ==
    /\ hub = "up"
    /\ r.kind = kind
    /\ inbox' = inbox \ {r}

Refuse(r) == call' = Answered(r, "refused", 0)

-----------------------------------------------------------------------------
(* federation.advertise_agent.                                             *)

\* Mutant: an active agent may register under another incarnation.
RegistrableAgain(rec, i) == rec.life # "retired" \/ rec.inc # i

Registrable(rec, i) ==
    \/ rec.life = "absent"
    \/ rec.life = "active" /\ rec.inc = i
    \/ rec.life = "retired" /\ rec.inc # i

\* Mutant: an agent that comes back keeps the generation it had.
AssignedAgain(rec) == IF rec.life = "absent" THEN rec.gen + 1 ELSE rec.gen

AssignedGeneration(rec) == IF rec.life = "active" THEN rec.gen ELSE rec.gen + 1

Register(r) ==
    /\ Takes(r, "register")
    /\ Registrable(record[r.agent], r.inc)
    /\ AssignedGeneration(record[r.agent]) \in Generation
    /\ record' = [record EXCEPT ![r.agent] =
                    [life |-> "active", gen |-> AssignedGeneration(@),
                     inc |-> r.inc]]
    /\ UNCHANGED <<hub, txns, deliveries, catalog>>

\* The record is written, then the owner binding, then the row.
RegisterAgent(r) ==
    LET g == AssignedGeneration(record[r.agent]) IN
    /\ Register(r)
    /\ IF advertised[r.agent] > g
       THEN Refuse(r) /\ UNCHANGED advertised
       ELSE /\ advertised' = [advertised EXCEPT ![r.agent] = g]
            /\ call' = Answered(r, "ok", g)

\* The handler ends after the record: there is no row and no answer.
RegisterUnbound(r) ==
    /\ Register(r)
    /\ Refuse(r)
    /\ UNCHANGED advertised

RegisterRefused(r) ==
    /\ Takes(r, "register")
    /\ ~ Registrable(record[r.agent], r.inc)
    /\ Refuse(r)
    /\ UNCHANGED hubVars

-----------------------------------------------------------------------------
(* federation.advertise_abilities.                                         *)

SameDelivery(r) ==
    /\ deliveries[r.txn].agent = r.agent
    /\ deliveries[r.txn].gen = r.gen
    /\ r.fence >= deliveries[r.txn].fence

\* The row of that exact generation is advertised, and a tombstone comes from
\* no older delivery of its transaction.
ProjectionAdmitted(r) ==
    /\ advertised[r.agent] = r.gen
    /\ r.txn # None => deliveries[r.txn].fence = 0 \/ SameDelivery(r)

RevisionOf(r) == IF r.txn = None THEN 1 ELSE 2

StaleRow(r) ==
    \/ r.gen < catalog[r.agent].gen
    \/ r.gen = catalog[r.agent].gen /\ RevisionOf(r) < catalog[r.agent].rev

PublishProjection(r) ==
    /\ Takes(r, "publish")
    /\ ProjectionAdmitted(r)
    /\ deliveries' =
         IF r.txn = None THEN deliveries
         ELSE [deliveries EXCEPT ![r.txn] =
                 [agent |-> r.agent, gen |-> r.gen, fence |-> r.fence]]
    /\ IF StaleRow(r)
       THEN Refuse(r) /\ UNCHANGED catalog
       ELSE /\ catalog' = [catalog EXCEPT ![r.agent] =
                             [gen |-> r.gen, rev |-> RevisionOf(r)]]
            /\ call' = Answered(r, "ok", r.gen)
    /\ UNCHANGED <<hub, record, txns, advertised>>

ProjectionRefused(r) ==
    /\ Takes(r, "publish")
    /\ ~ ProjectionAdmitted(r)
    /\ Refuse(r)
    /\ UNCHANGED hubVars

-----------------------------------------------------------------------------
(* federation.revoke.                                                      *)

\* Mutant: a delivery that a later claim has overtaken is still accepted.
SameRevokeAnyFence(r) ==
    txns[r.txn].agent = r.agent /\ txns[r.txn].gen = r.gen

\* The transaction is known, bound to this command, and the fence is current.
SameRevoke(r) ==
    /\ txns[r.txn].agent = r.agent
    /\ txns[r.txn].gen = r.gen
    /\ r.fence >= txns[r.txn].fence

Transaction(r, state, inc, outcome) ==
    [state |-> state, agent |-> r.agent, gen |-> r.gen, inc |-> inc,
     fence |-> r.fence, outcome |-> outcome]

\* prepare_revoke writes the transaction, or finds it prepared.
Preparable(r) ==
    \/ /\ txns[r.txn].state = "absent"
       /\ record[r.agent].life # "absent"
       /\ record[r.agent].gen = r.gen
    \/ txns[r.txn].state = "prepared" /\ SameRevoke(r)

\* Mutant: the transaction does not record the incarnation it is for.
PreparedUnbound(r) == Transaction(r, "prepared", None, "none")

PreparedBy(r) ==
    Transaction(r, "prepared",
                IF txns[r.txn].state = "absent" THEN record[r.agent].inc
                ELSE txns[r.txn].inc,
                "none")

\* apply_prepared_revoke accepts the transaction; otherwise it fails, and at
\* boot the failure ends the process.
Appliable(x) ==
    /\ record[x.agent].life # "absent"
    /\ record[x.agent].gen >= x.gen
    /\ record[x.agent].gen = x.gen => record[x.agent].inc = x.inc

DispositionOf(x) ==
    IF record[x.agent].gen > x.gen THEN "superseded"
    ELSE IF record[x.agent].life = "retired" THEN "already"
    ELSE "retired"

Apply(t, x) ==
    /\ Appliable(x)
    /\ txns' = [txns EXCEPT ![t] =
                  [x EXCEPT !.state = "applied", !.outcome = DispositionOf(x)]]
    /\ record' = IF DispositionOf(x) = "retired"
                 THEN [record EXCEPT ![x.agent].life = "retired"]
                 ELSE record

\* The directory forgets the rows of that generation, and no other.
RemoveGeneration(a, g) ==
    /\ advertised' = [advertised EXCEPT ![a] = IF @ = g THEN 0 ELSE @]
    /\ catalog' = [catalog EXCEPT ![a] = IF @.gen = g THEN NoRow ELSE @]

Conclude(r, outcome) ==
    IF outcome = "superseded"
    THEN /\ call' = Answered(r, "superseded", r.gen)
         /\ UNCHANGED <<advertised, catalog>>
    ELSE /\ call' = Answered(r, "ok", r.gen)
         /\ RemoveGeneration(r.agent, r.gen)

RevokeAgent(r) ==
    /\ Takes(r, "revoke")
    /\ Preparable(r)
    /\ Apply(r.txn, PreparedBy(r))
    /\ Conclude(r, DispositionOf(PreparedBy(r)))
    /\ UNCHANGED <<hub, deliveries>>

\* The handler ends between the two writes: the transaction stays prepared.
RevokePrepared(r) ==
    /\ Takes(r, "revoke")
    /\ Preparable(r)
    /\ txns' = [txns EXCEPT ![r.txn] = PreparedBy(r)]
    /\ Refuse(r)
    /\ UNCHANGED <<hub, record, deliveries, advertised, catalog>>

\* The file is replaced, but syncing its directory fails: the handler returns
\* an error for a write that took effect, and leaves the rows.
RevokeUnreported(r) ==
    /\ Takes(r, "revoke")
    /\ Preparable(r)
    /\ Apply(r.txn, PreparedBy(r))
    /\ Refuse(r)
    /\ UNCHANGED <<hub, deliveries, advertised, catalog>>

\* A newer incarnation took the URA: the transaction ends without an effect.
RevokeSuperseded(r) ==
    /\ Takes(r, "revoke")
    /\ txns[r.txn].state = "absent"
    /\ record[r.agent].life # "absent"
    /\ r.gen < record[r.agent].gen
    /\ txns' = [txns EXCEPT ![r.txn] =
                  Transaction(r, "applied", None, "superseded")]
    /\ Conclude(r, "superseded")
    /\ UNCHANGED <<hub, record, deliveries>>

\* Mutant: a replay is answered from the transaction, the rows are left alone.
RevokeReplayedBare(r) ==
    /\ Takes(r, "revoke")
    /\ txns[r.txn].state = "applied"
    /\ SameRevoke(r)
    /\ txns' = [txns EXCEPT ![r.txn].fence = r.fence]
    /\ call' = Answered(r, "ok", r.gen)
    /\ UNCHANGED <<hub, record, deliveries, advertised, catalog>>

RevokeReplayed(r) ==
    /\ Takes(r, "revoke")
    /\ txns[r.txn].state = "applied"
    /\ SameRevoke(r)
    /\ txns' = [txns EXCEPT ![r.txn].fence = r.fence]
    /\ Conclude(r, txns[r.txn].outcome)
    /\ UNCHANGED <<hub, record, deliveries>>

RevokeRefused(r) ==
    /\ Takes(r, "revoke")
    /\ IF txns[r.txn].state = "absent"
       THEN \/ record[r.agent].life = "absent"
            \/ r.gen > record[r.agent].gen
       ELSE ~ SameRevoke(r)
    /\ Refuse(r)
    /\ UNCHANGED hubVars

\* A revoke without a transaction never touches an active agent.
RevokeImmediate(a) ==
    /\ hub = "up"
    /\ record[a].life # "active"
    /\ advertised' = [advertised EXCEPT ![a] = 0]
    /\ catalog' = [catalog EXCEPT ![a] = NoRow]
    /\ UNCHANGED <<hub, record, txns, deliveries, netVars>>

-----------------------------------------------------------------------------
(* Crash and boot.                                                         *)

HubCrash ==
    /\ hub = "up"
    /\ hub' = "recovering"
    /\ advertised' = [a \in Agent |-> 0]
    /\ catalog' = [a \in Agent |-> NoRow]
    /\ UNCHANGED <<record, txns, deliveries, netVars>>

RecoverRevoke(t) ==
    /\ hub = "recovering"
    /\ txns[t].state = "prepared"
    /\ Apply(t, txns[t])
    /\ UNCHANGED <<hub, deliveries, advertised, catalog, netVars>>

\* Only after every prepared revoke is applied: active records become rows.
HydrateDirectory ==
    /\ hub = "recovering"
    /\ \A t \in Txn : txns[t].state # "prepared"
    /\ hub' = "up"
    /\ advertised' = [a \in Agent |->
                        IF record[a].life = "active" THEN record[a].gen ELSE 0]
    /\ UNCHANGED <<record, txns, deliveries, catalog, netVars>>

HubNext ==
    \/ \E r \in inbox :
         \/ RequestLost(r)
         \/ RegisterAgent(r) \/ RegisterUnbound(r) \/ RegisterRefused(r)
         \/ PublishProjection(r) \/ ProjectionRefused(r)
         \/ RevokeAgent(r) \/ RevokePrepared(r) \/ RevokeUnreported(r)
         \/ RevokeSuperseded(r) \/ RevokeReplayed(r) \/ RevokeRefused(r)
    \/ \E a \in Agent : RevokeImmediate(a)
    \/ HubCrash \/ HydrateDirectory
    \/ \E t \in Txn : RecoverRevoke(t)

=============================================================================
