------------------------ MODULE HostedAgentLifecycle ------------------------
(***************************************************************************)
(* The device's side of the hosted-agent lifecycle, composed with the hub  *)
(* (HostedAgentInventory).  Four durable files take part, each written     *)
(* atomically and none together with another: the local agents, the        *)
(* publication records (persistence/hosted_agent_publications.rs), the     *)
(* single retraction journal and the purge outbox                          *)
(* (persistence/agent_lifecycle.rs).                                       *)
(*                                                                         *)
(*  - A publication worker begins a registration, activates the generation *)
(*    the hub assigned and publishes the agent's abilities                 *)
(*    (federation/hosted_agent_publication.rs).                            *)
(*  - agent.stop and agent.purge commit a retraction in the journal, hand  *)
(*    it to the outbox and clear the journal                               *)
(*    (ability/builtins/agents/lifecycle.rs).  A registration still in     *)
(*    flight makes the journal wait for its assignment, which a late       *)
(*    answer or a replay of the registration supplies.                     *)
(*  - The drain delivers an entry's tombstone, then its revoke, each claim *)
(*    under a new fence, and retires the local record.                     *)
(*                                                                         *)
(* The lifecycle guard covers registrations, activations and retractions,  *)
(* but neither the calls to the hub nor the drain.                         *)
(***************************************************************************)
EXTENDS HostedAgentInventory

CONSTANTS
    Worker,       \* publication tasks (session boot, prelude, hot registration)
    Replay,       \* the session-ready recovery of a pending assignment
    Drain,        \* the outbox drain
    MaxAttempts   \* PUBLICATION_MAX_ATTEMPTS_PER_STAGE

ASSUME LifecycleAssumption ==
    /\ Caller = Worker \cup {Replay, Drain}
    /\ Replay \notin Worker /\ Drain \notin Worker /\ Replay # Drain
    /\ MaxAttempts \in Nat \ {0}

VARIABLES
    booted,    \* the daemon finished its local recovery
    guard,     \* AgentLifecycleMutationGuard, by the step that holds it
    local,     \* durable: agents.json and local-agents.json
    pub,       \* durable: HostedAgentDevicePublicationRecord per agent
    journal,   \* durable: the one HostedAgentRetractionJournal
    outbox,    \* durable: AgentPurgePublicationEntry per agent
    drain,     \* the drain under way: its current agent and attempted txns
    minted,    \* incarnation tokens drawn so far
    opened     \* transaction ids drawn so far

deviceVars == <<booted, guard, local, pub, journal, outbox, drain, minted, opened>>
vars == <<hubVars, netVars, deviceVars>>

\* Assigned and Publishing are one state: a staged proof is not told apart.
PublicationRecord ==
    [st : {"none", "pending", "assigned", "published", "retired"},
     inc : Incarnation \cup {None}, gen : Generation]

\* Prepared up to AuthorityCommitted are "uncommitted", Finalized is part of
\* "committed" and OutboxEnqueued of "none": recovery treats them alike.
Journal ==
    [stage : {"none", "uncommitted", "committed", "assignmentPending",
              "tombstonePrepared"},
     txn : Txn \cup {None}, agent : Agent \cup {None},
     inc : Incarnation \cup {None}, gen : Generation]

\* Ready and BackingOff are both "ready": a drain forces the backoff or finds
\* it elapsed.
OutboxEntry ==
    [txn : Txn \cup {None}, gen : Generation, stage : {"tombstone", "revoke"},
     retry : {"ready", "claimed", "reconcile"}, attempts : 0..MaxAttempts,
     fence : Fence, next : 1..(MaxFence + 1)]

DrainBatch == [on : BOOLEAN, agent : Agent \cup {None}, done : SUBSET Txn]

NoJournal ==
    [stage |-> "none", txn |-> None, agent |-> None, inc |-> None, gen |-> 0]
NoEntry ==
    [txn |-> None, gen |-> 0, stage |-> "tombstone", retry |-> "ready",
     attempts |-> 0, fence |-> 0, next |-> 1]
NoDrain == [on |-> FALSE, agent |-> None, done |-> {}]

DeviceTypeOK ==
    /\ booted \in BOOLEAN
    /\ guard \in {"free", "retracting", "promoting", "enqueued"}
    /\ local \in SUBSET Agent
    /\ pub \in [Agent -> PublicationRecord]
    /\ journal \in Journal
    /\ outbox \in [Agent -> OutboxEntry]
    /\ drain \in DrainBatch
    /\ minted \in SUBSET Incarnation
    /\ opened \in SUBSET Txn

DeviceInit ==
    /\ booted = TRUE
    /\ guard = "free"
    /\ local = {}
    /\ pub = [a \in Agent |-> [st |-> "none", inc |-> None, gen |-> 0]]
    /\ journal = NoJournal
    /\ outbox = [a \in Agent |-> NoEntry]
    /\ drain = NoDrain
    /\ minted = {}
    /\ opened = {}

Init == InventoryInit /\ DeviceInit

-----------------------------------------------------------------------------
(* Requests and helpers.                                                   *)

RegisterRequest(c, a, i, t) ==
    [NoRequest EXCEPT !.kind = "register", !.from = c, !.agent = a, !.inc = i,
                      !.txn = t]

PublishRequest(c, a, i, g) ==
    [NoRequest EXCEPT !.kind = "publish", !.from = c, !.agent = a, !.inc = i,
                      !.gen = g]

\* What the entry owes the hub next: its tombstone, then its revoke.
DrainRequest(a, e) ==
    [NoRequest EXCEPT !.kind = IF e.stage = "tombstone" THEN "publish" ELSE "revoke",
                      !.from = Drain, !.agent = a, !.gen = e.gen, !.txn = e.txn,
                      !.fence = e.fence]

HangUp(c) == call' = [call EXCEPT ![c] = IdleCall] /\ UNCHANGED inbox

JournalHolds(a) == journal.stage # "none" /\ journal.agent = a
OutboxHolds(a) == outbox[a].txn # None
Fenced(a) == JournalHolds(a) \/ OutboxHolds(a)

Assigned(p) == p.st \in {"assigned", "published"}

\* Every guarded operation first finishes an interrupted retraction, as far
\* as it goes without the hub.
Recovered == journal.stage \in {"none", "assignmentPending"}
GuardFree == booted /\ guard = "free"

-----------------------------------------------------------------------------
(* Registration and publication.                                           *)

Startable(a) == GuardFree /\ Recovered /\ ~ Fenced(a)

StartAgent(a) ==
    /\ Startable(a)
    /\ a \notin local
    /\ local' = local \cup {a}
    /\ UNCHANGED <<netVars, booted, guard, pub, journal, outbox, drain, minted, opened>>

\* Tokens and transaction ids are random and never drawn twice: which of the
\* unused ones is drawn makes no difference.
FreshToken == CHOOSE i \in Incarnation \ minted : TRUE
FreshTxn == CHOOSE t \in Txn \ opened : TRUE

\* begin_registration: a fresh token for an agent without one or with a retired
\* one.  An agent that has one keeps its record.
Unregistered(a) == pub[a].st \in {"none", "retired"}

MintPending(a) ==
    /\ Unregistered(a)
    /\ Incarnation \ minted # {}
    /\ minted' = minted \cup {FreshToken}
    /\ pub' = [pub EXCEPT ![a] = [st |-> "pending", inc |-> FreshToken, gen |-> 0]]

BeginRegistration(w, a) ==
    /\ GuardFree
    /\ call[w].state = "idle"
    /\ a \in local
    /\ ~ Fenced(a)
    /\ MintPending(a) \/ (~ Unregistered(a) /\ UNCHANGED <<minted, pub>>)
    /\ Issue(RegisterRequest(w, a, pub'[a].inc, None))
    /\ UNCHANGED <<booted, guard, local, journal, outbox, drain, opened>>

\* The republisher plans for the agents it read as live: catalog_epoch_for_plan
\* begins the registration of each and checks neither the guard nor the fences,
\* nor whether the agent still is.  How old its reading is, is left open.
PlanCaptured(a) ==
    /\ booted
    /\ a \in local \/ pub[a].st = "retired"
    /\ MintPending(a)
    /\ UNCHANGED <<netVars, booted, guard, local, journal, outbox, drain, opened>>

\* A change of an agent's abilities, also by its start or stop, first creates
\* the record it lacks and takes back that the last projection is published.
FenceCatalogCommit(a) ==
    /\ booted
    /\ a \in local \/ Startable(a)
    /\ \/ pub[a].st = "none" /\ MintPending(a)
       \/ /\ pub[a].st = "published"
          /\ pub' = [pub EXCEPT ![a].st = "assigned"]
          /\ UNCHANGED minted
    /\ UNCHANGED <<netVars, booted, guard, local, journal, outbox, drain, opened>>

\* bind_assignment: the answer fits the record as it is now.
Bindable(a, i, g) ==
    /\ pub[a].inc = i
    /\ pub[a].st = "pending" \/ (Assigned(pub[a]) /\ pub[a].gen = g)

Bound(a, g) ==
    IF pub[a].st = "pending"
    THEN [pub EXCEPT ![a].st = "assigned", ![a].gen = g]
    ELSE pub

\* The assignment is bound first, then the fences are read: a retraction that
\* committed meanwhile gets the assignment, and no ability is published.
Activate(w) ==
    LET r == call[w].req
        g == call[w].gen
    IN  /\ GuardFree
        /\ call[w].state = "ok" /\ r.kind = "register"
        /\ Bindable(r.agent, r.inc, g)
        /\ pub' = Bound(r.agent, g)
        /\ IF JournalHolds(r.agent)
           THEN call' = [call EXCEPT ![w].state = "handoff"] /\ UNCHANGED inbox
           ELSE IF OutboxHolds(r.agent) \/ r.agent \notin local
           THEN HangUp(w)
           ELSE Issue(PublishRequest(w, r.agent, r.inc, g))
        /\ UNCHANGED <<booted, guard, local, journal, outbox, drain, minted, opened>>

ActivateRefused(w) ==
    /\ GuardFree
    /\ call[w].state = "ok" /\ call[w].req.kind = "register"
    /\ ~ Bindable(call[w].req.agent, call[w].req.inc, call[w].gen)
    /\ HangUp(w)
    /\ UNCHANGED deviceVars

\* mark_published takes no guard: it checks the record itself, and refuses a
\* projection that a catalog commit has overtaken.
MarkPublished(w) ==
    LET r == call[w].req IN
    /\ call[w].state = "ok" /\ r.kind = "publish"
    /\ \/ /\ Assigned(pub[r.agent])
          /\ pub[r.agent].inc = r.inc /\ pub[r.agent].gen = r.gen
          /\ pub' = [pub EXCEPT ![r.agent].st = "published"]
       \/ UNCHANGED pub
    /\ HangUp(w)
    /\ UNCHANGED <<booted, guard, local, journal, outbox, drain, minted, opened>>

\* The call is refused, or times out while the hub may still run it.
Abandon(c) ==
    /\ call[c].state \in {"waiting", "refused"}
    /\ HangUp(c)
    /\ UNCHANGED deviceVars

-----------------------------------------------------------------------------
(* Retraction: agent.stop and agent.purge.                                 *)

BeginRetraction(a) ==
    /\ GuardFree
    /\ Recovered
    /\ a \in local
    /\ Txn \ opened # {}
    /\ opened' = opened \cup {FreshTxn}
    /\ journal' = [NoJournal EXCEPT !.stage = "uncommitted", !.txn = FreshTxn, !.agent = a]
    /\ guard' = "retracting"
    /\ UNCHANGED <<netVars, booted, local, pub, outbox, drain, minted>>

CommitRetraction ==
    /\ guard = "retracting"
    /\ journal.stage = "uncommitted"
    /\ local' = local \ {journal.agent}
    /\ journal' = [journal EXCEPT !.stage = "committed"]
    /\ UNCHANGED <<netVars, booted, guard, pub, outbox, drain, minted, opened>>

RollBack ==
    /\ guard = "retracting"
    /\ journal.stage = "uncommitted"
    /\ journal' = NoJournal
    /\ guard' = "free"
    /\ UNCHANGED <<netVars, booted, local, pub, outbox, drain, minted, opened>>

\* prepare_retraction_tombstone_publication.
TombstonePlan ==
    LET p == pub[journal.agent] IN
    IF p.st = "pending"
    THEN [journal EXCEPT !.stage = "assignmentPending", !.inc = p.inc]
    ELSE [journal EXCEPT !.stage = "tombstonePrepared",
                         !.gen = IF Assigned(p) THEN p.gen ELSE 0]

FinalizeRetraction ==
    /\ guard = "retracting"
    /\ journal.stage = "committed"
    /\ journal' = TombstonePlan
    /\ guard' = IF pub[journal.agent].st = "pending" THEN "free" ELSE guard
    /\ UNCHANGED <<netVars, booted, local, pub, outbox, drain, minted, opened>>

NewEntry == [NoEntry EXCEPT !.txn = journal.txn, !.gen = journal.gen]

\* An entry of this transaction is left as it is, one of another is an error.
EnqueuePublication ==
    /\ guard = "retracting"
    /\ journal.stage = "tombstonePrepared"
    /\ journal.gen # 0
    /\ outbox[journal.agent].txn \in {None, journal.txn}
    /\ outbox' = IF OutboxHolds(journal.agent) THEN outbox
                 ELSE [outbox EXCEPT ![journal.agent] = NewEntry]
    /\ guard' = "enqueued"
    /\ UNCHANGED <<netVars, booted, local, pub, journal, drain, minted, opened>>

\* OutboxEnqueued is written and the journal removed.
ClearJournal ==
    /\ \/ guard = "enqueued"
       \/ guard = "retracting" /\ journal.stage = "tombstonePrepared" /\ journal.gen = 0
    /\ journal' = NoJournal
    /\ guard' = "free"
    /\ UNCHANGED <<netVars, booted, local, pub, outbox, drain, minted, opened>>

\* A write fails: the operation returns and the journal stays where it is.
RetractionStops ==
    /\ guard # "free"
    /\ guard' = "free"
    /\ UNCHANGED <<netVars, booted, local, pub, journal, outbox, drain, minted, opened>>

\* The next guarded operation, or boot, takes the journal up again.
RecoverRetraction ==
    /\ guard = "free"
    /\ ~ Recovered
    /\ guard' = "retracting"
    /\ UNCHANGED <<netVars, booted, local, pub, journal, outbox, drain, minted, opened>>

-----------------------------------------------------------------------------
(* A retraction that waits for its assignment.                             *)

\* The worker whose late answer was bound hands it to the journal.
HandOff(w) ==
    LET a == call[w].req.agent IN
    /\ GuardFree
    /\ call[w].state = "handoff"
    /\ IF JournalHolds(a) /\ journal.stage # "uncommitted"
       THEN /\ guard' = "retracting"
            /\ journal' = IF journal.stage = "assignmentPending"
                          THEN TombstonePlan ELSE journal
       ELSE UNCHANGED <<guard, journal>>
    /\ HangUp(w)
    /\ UNCHANGED <<booted, local, pub, outbox, drain, minted, opened>>

\* Session-ready recovery repeats the exact registration, if it is pending.
ReplayAssignment ==
    /\ GuardFree
    /\ call[Replay].state = "idle"
    /\ journal.stage = "assignmentPending"
    /\ pub[journal.agent].st = "pending"
    /\ pub[journal.agent].inc = journal.inc
    /\ Issue(RegisterRequest(Replay, journal.agent, journal.inc, journal.txn))
    /\ UNCHANGED deviceVars

StillAwaited(r) ==
    /\ journal.stage = "assignmentPending"
    /\ journal.txn = r.txn
    /\ Bindable(r.agent, r.inc, call[Replay].gen)

BindReplayed ==
    LET r == call[Replay].req IN
    /\ GuardFree
    /\ call[Replay].state = "ok"
    /\ IF StillAwaited(r)
       THEN pub' = Bound(r.agent, call[Replay].gen) /\ guard' = "promoting"
       ELSE UNCHANGED <<pub, guard>>
    /\ HangUp(Replay)
    /\ UNCHANGED <<booted, local, journal, outbox, drain, minted, opened>>

\* promote_bound_assignment_retraction: the second of the two writes.
Promote ==
    /\ guard = "promoting"
    /\ journal' = TombstonePlan
    /\ guard' = "retracting"
    /\ UNCHANGED <<netVars, booted, local, pub, outbox, drain, minted, opened>>

-----------------------------------------------------------------------------
(* The outbox drain.                                                       *)

\* begin_drain_epoch gives up the claims an earlier drain left behind.
BeginDrain ==
    /\ booted
    /\ ~ drain.on
    /\ \E a \in Agent : OutboxHolds(a)
    /\ drain' = [NoDrain EXCEPT !.on = TRUE]
    /\ outbox' = [a \in Agent |->
                    IF outbox[a].retry = "claimed"
                    THEN [outbox[a] EXCEPT !.retry = "ready", !.fence = 0]
                    ELSE outbox[a]]
    /\ UNCHANGED <<netVars, booted, guard, local, pub, journal, minted, opened>>

Claimed(e) ==
    [e EXCEPT !.retry = "claimed", !.fence = e.next, !.next = e.next + 1]

ClaimNext(a) ==
    /\ drain.on /\ drain.agent = None
    /\ OutboxHolds(a)
    /\ outbox[a].retry = "ready"
    /\ outbox[a].txn \notin drain.done
    /\ outbox[a].next <= MaxFence
    /\ outbox' = [outbox EXCEPT ![a] = Claimed(@)]
    /\ drain' = [drain EXCEPT !.agent = a, !.done = @ \cup {outbox[a].txn}]
    /\ Issue(DrainRequest(a, Claimed(outbox[a])))
    /\ UNCHANGED <<booted, guard, local, pub, journal, minted, opened>>

AdvanceToRevoke ==
    LET a == drain.agent
        e == [outbox[a] EXCEPT !.stage = "revoke", !.attempts = 0]
    IN  /\ call[Drain].state = "ok" /\ call[Drain].req.kind = "publish"
        /\ outbox' = [outbox EXCEPT ![a] = e]
        /\ Issue(DrainRequest(a, e))
        /\ UNCHANGED <<booted, guard, local, pub, journal, drain, minted, opened>>

\* retire_generation: the record is of that generation, or there is none.
Retirable(a, g) ==
    pub[a].st = "none" \/ (pub[a].st # "pending" /\ pub[a].gen = g)

\* Mutant: the record is retired once the revoke is sent.
RetireEarly ==
    LET a == drain.agent IN
    /\ call[Drain].state \in {"waiting", "ok"} /\ call[Drain].req.kind = "revoke"
    /\ Retirable(a, outbox[a].gen)
    /\ pub' = IF pub[a].st = "none" THEN pub ELSE [pub EXCEPT ![a].st = "retired"]
    /\ call' = [call EXCEPT ![Drain].state = "retired"]
    /\ UNCHANGED <<inbox, booted, guard, local, journal, outbox, drain, minted, opened>>

\* Mutant: the entry completes without the record being retired.
RetireSkipped ==
    /\ call[Drain].state = "ok" /\ call[Drain].req.kind = "revoke"
    /\ call' = [call EXCEPT ![Drain].state = "retired"]
    /\ UNCHANGED <<inbox, deviceVars>>

RetireLocally ==
    LET a == drain.agent IN
    /\ call[Drain].state = "ok" /\ call[Drain].req.kind = "revoke"
    /\ Retirable(a, outbox[a].gen)
    /\ pub' = IF pub[a].st = "none" THEN pub ELSE [pub EXCEPT ![a].st = "retired"]
    /\ call' = [call EXCEPT ![Drain].state = "retired"]
    /\ UNCHANGED <<inbox, booted, guard, local, journal, outbox, drain, minted, opened>>

CompleteEntry ==
    /\ call[Drain].state = "retired"
    /\ outbox' = [outbox EXCEPT ![drain.agent] = NoEntry]
    /\ drain' = [drain EXCEPT !.agent = None]
    /\ HangUp(Drain)
    /\ UNCHANGED <<booted, guard, local, pub, journal, minted, opened>>

\* Mutant: the limit is compared with the attempts made before this one.
FailedLate(e) ==
    [e EXCEPT !.attempts = @ + 1, !.fence = 0,
              !.retry = IF e.attempts = MaxAttempts THEN "reconcile" ELSE "ready"]

Failed(e) ==
    [e EXCEPT !.attempts = @ + 1, !.fence = 0,
              !.retry = IF e.attempts + 1 = MaxAttempts THEN "reconcile" ELSE "ready"]

\* A refusal, a timeout, a superseded revoke and a record that cannot be
\* retired all count against the stage's attempts.
RecordFailure ==
    LET a == drain.agent IN
    /\ \/ call[Drain].state \in {"waiting", "refused", "superseded"}
       \/ /\ call[Drain].state = "ok" /\ call[Drain].req.kind = "revoke"
          /\ ~ Retirable(a, outbox[a].gen)
    /\ outbox' = [outbox EXCEPT ![a] = Failed(@)]
    /\ drain' = [drain EXCEPT !.agent = None]
    /\ HangUp(Drain)
    /\ UNCHANGED <<booted, guard, local, pub, journal, minted, opened>>

\* The batch is over, or a write of the outbox fails and the claim stays.
EndDrain ==
    /\ drain.on
    /\ drain' = NoDrain
    /\ HangUp(Drain)
    /\ UNCHANGED <<booted, guard, local, pub, journal, outbox, minted, opened>>

\* The operator's retry of an entry that used up its attempts.
ReconcileRetry(a) ==
    /\ booted
    /\ outbox[a].retry = "reconcile"
    /\ outbox' = [outbox EXCEPT ![a].retry = "ready", ![a].attempts = 0]
    /\ UNCHANGED <<netVars, booted, guard, local, pub, journal, drain, minted, opened>>

-----------------------------------------------------------------------------
(* Crash and boot.                                                         *)

DeviceCrash ==
    /\ booted \/ guard # "free"
    /\ booted' = FALSE
    /\ guard' = "free"
    /\ drain' = NoDrain
    /\ call' = [c \in Caller |-> IdleCall]
    /\ UNCHANGED <<inbox, local, pub, journal, outbox, minted, opened>>

\* Boot goes on once the journal needs the hub or nothing at all.
DeviceBoots ==
    /\ ~ booted
    /\ guard = "free"
    /\ Recovered
    /\ booted' = TRUE
    /\ UNCHANGED <<netVars, guard, local, pub, journal, outbox, drain, minted, opened>>

DeviceNext ==
    \/ \E a \in Agent :
         \/ StartAgent(a) \/ BeginRetraction(a)
         \/ PlanCaptured(a) \/ FenceCatalogCommit(a)
    \/ \E w \in Worker :
         \/ \E a \in Agent : BeginRegistration(w, a)
         \/ Activate(w) \/ ActivateRefused(w) \/ MarkPublished(w) \/ HandOff(w)
    \/ \E c \in Worker \cup {Replay} : Abandon(c)
    \/ CommitRetraction \/ RollBack \/ FinalizeRetraction
    \/ EnqueuePublication \/ ClearJournal \/ RetractionStops \/ RecoverRetraction
    \/ ReplayAssignment \/ BindReplayed \/ Promote
    \/ BeginDrain \/ AdvanceToRevoke \/ RetireLocally \/ CompleteEntry
    \/ RecordFailure \/ EndDrain
    \/ \E a \in Agent : ClaimNext(a) \/ ReconcileRetry(a)
    \/ DeviceCrash \/ DeviceBoots

Next ==
    \/ HubNext /\ UNCHANGED deviceVars
    \/ DeviceNext /\ UNCHANGED hubVars

Spec == Init /\ [][Next]_vars

-----------------------------------------------------------------------------
(* Properties.                                                             *)

\* Every variable has its type.
TypeOK == InventoryTypeOK /\ DeviceTypeOK

\* A prepared revoke can always be applied: its agent's record is still there,
\* has not fallen behind, and at the transaction's generation still holds the
\* incarnation the transaction was prepared for.  apply_prepared_revoke fails
\* otherwise, recover_prepared_revokes passes the failure on, and the hub
\* would never boot again.
RecoveryNeverWedges ==
    \A t \in Txn : txns[t].state = "prepared" => Appliable(txns[t])

\* While no retraction of the agent is pending, an assignment the device has
\* bound is the one the hub holds active, whatever was lost, late or repeated.
PublishedIsActive ==
    \A a \in Agent :
        Assigned(pub[a]) /\ ~ Fenced(a) =>
            record[a] = [life |-> "active", gen |-> pub[a].gen, inc |-> pub[a].inc]

\* The device considers an incarnation retired only if the hub durably gave
\* that generation up: `retire` follows the hub's acknowledgement.
RetiredIsRevoked ==
    \A a \in Agent : pub[a].st = "retired" =>
        \/ record[a].gen > pub[a].gen
        \/ record[a].gen = pub[a].gen /\ record[a].life = "retired"

\* The hub retires a generation only for a purge the device still has queued
\* or has finished: a delayed or repeated revoke never ends a later one.
RetirementIsAsked ==
    \A a \in Agent : record[a].life = "retired" =>
        \/ OutboxHolds(a) /\ outbox[a].gen = record[a].gen
        \/ pub[a].st = "retired" /\ pub[a].gen = record[a].gen
        \/ pub[a].st = "pending"

\* Routing rows are those of the active record, unless the purge of their
\* generation is still in the outbox, whose revoke will remove them: a revoke
\* that took effect and reported an error leaves such rows.
DirectoryIsBacked ==
    \A a \in Agent : \A g \in {advertised[a], catalog[a].gen} \ {0} :
        \/ record[a].life = "active" /\ record[a].gen = g
        \/ OutboxHolds(a) /\ outbox[a].gen = g

\* Generations only advance; an active agent is retired only in the step that
\* applies a transaction bound to exactly that generation and incarnation; a
\* transaction that is prepared keeps its command and its incarnation, an
\* applied one its outcome too, whatever is delivered again.
RecordStep(a) ==
    record'[a] # record[a] =>
        /\ record'[a].gen >= record[a].gen
        /\ record[a].life = "active" /\ record'[a].life # "active" =>
             \E t \in Txn :
                /\ txns[t].state # "applied" /\ txns'[t].outcome = "retired"
                /\ txns'[t].agent = a
                /\ txns'[t].gen = record[a].gen /\ txns'[t].inc = record[a].inc

TransactionStep(t) ==
    txns'[t] # txns[t] /\ txns[t].state # "absent" =>
        /\ txns'[t].agent = txns[t].agent
        /\ txns'[t].gen = txns[t].gen
        /\ txns'[t].inc = txns[t].inc
        /\ txns'[t].fence >= txns[t].fence
        /\ txns[t].state = "applied" =>
             txns'[t].state = "applied" /\ txns'[t].outcome = txns[t].outcome

RevokeIsExact ==
    [][(\A a \in Agent : RecordStep(a)) /\ (\A t \in Txn : TransactionStep(t))]_vars

(***************************************************************************)
(* Hub and device keep the contract of AgentContract.  A retraction counts *)
(* as asked for while it is in the outbox; messages, journal, transactions *)
(* and crashes are invisible in the contract.                              *)
(***************************************************************************)
Rows(a) == {advertised[a], catalog[a].gen} \ {0}

Binding(a) == [pub[a] EXCEPT !.st = IF Assigned(pub[a]) THEN "bound" ELSE @]

Requested(a) == IF OutboxHolds(a) THEN outbox[a].gen ELSE 0

Contract == INSTANCE AgentContract WITH
    held   <- record,
    routed <- [a \in Agent |-> Rows(a)],
    bound  <- [a \in Agent |-> Binding(a)],
    asked  <- [a \in Agent |-> Requested(a)]

ImplementsContract == Contract!Spec

\* A journal that waits for an assignment can still get one: the registration
\* it would replay is pending, or an assignment just bound is being promoted
\* or handed over.
AssignmentIsReplayable ==
    journal.stage = "assignmentPending" =>
        \/ pub[journal.agent].st = "pending" /\ pub[journal.agent].inc = journal.inc
        \/ guard = "promoting"
        \/ \E w \in Worker : call[w].state = "handoff"

=============================================================================
