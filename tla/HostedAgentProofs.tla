-------------------------- MODULE HostedAgentProofs --------------------------
(***************************************************************************)
(* Proofs about HostedAgentLifecycle: type correctness, that a hub can     *)
(* always apply the revokes it prepared, that a revoke is exact, and that  *)
(* the device's files and the hub's agree: what the device has bound is    *)
(* active, what it retired is revoked, the hub retires nothing unasked and *)
(* leaves no routing row behind.                                           *)
(***************************************************************************)
EXTENDS HostedAgentLifecycle, TLAPS

Call == [state : CallState, req : Request, gen : Generation]

\* A request on the wire names an agent, and a revoke its transaction.
RequestOK(r) ==
    /\ r \in Request
    /\ r.from \in Caller
    /\ r.agent \in Agent
    /\ r.kind = "revoke" => r.txn \in Txn

CallsOK(f) ==
    /\ f \in [Caller -> Call]
    /\ \A c \in Caller : f[c].state # "idle" => RequestOK(f[c].req)

RequestsOK ==
    /\ \A r \in inbox : RequestOK(r)
    /\ CallsOK(call)

\* The drain works on an entry it has claimed, and never on a spent one.
DrainOK ==
    /\ call[Drain].state # "idle" =>
         /\ drain.on
         /\ drain.agent \in Agent
         /\ outbox[drain.agent].txn # None
         /\ outbox[drain.agent].retry = "claimed"
    /\ \A a \in Agent : outbox[a].retry # "reconcile" => outbox[a].attempts < MaxAttempts

\* A journal names its agent and its transaction.
JournalOK ==
    /\ journal.stage # "none" => journal.agent \in Agent /\ journal.txn \in Txn
    /\ guard = "promoting" => journal.stage = "assignmentPending"
    /\ guard = "enqueued" => journal.stage = "tombstonePrepared"

\* The inductive form of RecoveryNeverWedges.
PreparedOK ==
    \A t \in Txn : txns[t].state = "prepared" =>
        txns[t].agent \in Agent /\ Appliable(txns[t])

Inv ==
    /\ TypeOK
    /\ RequestsOK
    /\ DrainOK
    /\ JournalOK
    /\ PreparedOK


-----------------------------------------------------------------------------
(* Lemmas about the operators.                                             *)

LEMMA NoRequestType == NoRequest \in Request
BY InventoryAssumption DEF NoRequest, Request, Generation, Fence

LEMMA IdleCallType == IdleCall \in Call
BY NoRequestType, InventoryAssumption DEF IdleCall, Call, CallState, Generation

\* An answer keeps the calls well formed and wakes no idle caller.
LEMMA AnsweredOK ==
    ASSUME CallsOK(call), NEW r, RequestOK(r),
           NEW state \in CallState \ {"idle"}, NEW gen \in Generation
    PROVE  /\ CallsOK(Answered(r, state, gen))
           /\ \A c \in Caller : Answered(r, state, gen)[c].state # "idle" =>
                call[c].state # "idle"
<1>1. CASE call[r.from].state = "waiting" /\ call[r.from].req = r
  <2> DEFINE f == [call EXCEPT ![r.from] = [state |-> state, req |-> r, gen |-> gen]]
  <2>1. [state |-> state, req |-> r, gen |-> gen] \in Call
    BY DEF Call, RequestOK
  <2>2. f \in [Caller -> Call]
    BY <2>1 DEF CallsOK
  <2>3. \A c \in Caller : f[c].state # "idle" => RequestOK(f[c].req)
    BY DEF CallsOK
  <2>4. \A c \in Caller : f[c].state # "idle" => call[c].state # "idle"
    BY <1>1 DEF CallsOK
  <2> QED
    BY <1>1, <2>2, <2>3, <2>4 DEF Answered, CallsOK
<1>2. CASE ~ (call[r.from].state = "waiting" /\ call[r.from].req = r)
  BY <1>2 DEF Answered
<1> QED
  BY <1>1, <1>2

\* A well-formed request can be issued by any caller.
LEMMA IssueOK ==
    ASSUME RequestsOK, NEW r, RequestOK(r), Issue(r)
    PROVE  /\ RequestsOK'
           /\ \A c \in Caller \ {r.from} : call'[c] = call[c]
<1> DEFINE x == [state |-> "waiting", req |-> r, gen |-> 0]
<1>1. x \in Call
  BY InventoryAssumption DEF Call, CallState, RequestOK, Generation
<1>2. call' = [call EXCEPT ![r.from] = x] /\ inbox' = inbox \cup {r}
  BY DEF Issue
<1>3. call' \in [Caller -> Call]
  BY <1>1, <1>2 DEF RequestsOK, CallsOK
<1>4. \A c \in Caller : call'[c].state # "idle" => RequestOK(call'[c].req)
  BY <1>2 DEF RequestsOK, CallsOK
<1>5. \A q \in inbox' : RequestOK(q)
  BY <1>2 DEF RequestsOK
<1>6. \A c \in Caller \ {r.from} : call'[c] = call[c]
  BY <1>2 DEF RequestsOK, CallsOK
<1> QED
  BY <1>3, <1>4, <1>5, <1>6 DEF RequestsOK, CallsOK

\* A caller that hangs up leaves the others as they are.
LEMMA HangUpOK ==
    ASSUME RequestsOK, NEW c \in Caller, HangUp(c)
    PROVE  /\ RequestsOK'
           /\ call'[c].state = "idle"
           /\ \A d \in Caller \ {c} : call'[d] = call[d]
<1>1. call' = [call EXCEPT ![c] = IdleCall] /\ inbox' = inbox
  BY DEF HangUp
<1>2. call' \in [Caller -> Call]
  BY <1>1, IdleCallType DEF RequestsOK, CallsOK
<1>3. IdleCall.state = "idle"
  BY DEF IdleCall
<1>4. \A d \in Caller : call'[d].state # "idle" => RequestOK(call'[d].req)
  BY <1>1, <1>3 DEF RequestsOK, CallsOK
<1>5. call'[c].state = "idle" /\ \A d \in Caller \ {c} : call'[d] = call[d]
  BY <1>1, <1>3 DEF RequestsOK, CallsOK
<1> QED
  BY <1>1, <1>2, <1>4, <1>5 DEF RequestsOK, CallsOK

-----------------------------------------------------------------------------
(* The initial state.                                                      *)

LEMMA InitInv == Init => Inv
<1> SUFFICES ASSUME Init PROVE Inv
  OBVIOUS
<1> USE InventoryAssumption, LifecycleAssumption
<1>1. InventoryTypeOK
  BY NoRequestType, IdleCallType
     DEF Init, InventoryInit, InventoryTypeOK, CatalogRow, HubCall, InventoryRecord, RevokeTransaction,
         Delivery, Generation, Fence, Disposition, NoRow, Call
<1>2. DeviceTypeOK
  BY DEF Init, DeviceInit, DeviceTypeOK, DrainBatch, PublicationRecord, Journal, OutboxEntry,
         NoJournal, NoEntry, NoDrain, Generation, Fence
<1>3. RequestsOK
  BY IdleCallType DEF Init, InventoryInit, RequestsOK, CallsOK, IdleCall
<1>4. DrainOK
  BY DEF Init, InventoryInit, DeviceInit, DrainOK, IdleCall, NoEntry
<1>5. JournalOK
  BY DEF Init, DeviceInit, JournalOK, NoJournal
<1>6. PreparedOK
  BY DEF Init, InventoryInit, PreparedOK
<1> QED
  BY <1>1, <1>2, <1>3, <1>4, <1>5, <1>6 DEF Inv, TypeOK

-----------------------------------------------------------------------------
(* Steps of the hub.                                                       *)

\* What a step of the hub establishes while the device's state is unchanged.
HubKeeps ==
    /\ InventoryTypeOK'
    /\ RequestsOK'
    /\ PreparedOK'
    /\ \A c \in Caller : call'[c].state # "idle" => call[c].state # "idle"

\* Taking a request off the wire and answering it.
LEMMA TakenOK ==
    ASSUME RequestsOK, NEW r \in inbox, inbox' = inbox \ {r},
           NEW state \in CallState \ {"idle"}, NEW gen \in Generation,
           call' = Answered(r, state, gen)
    PROVE  /\ RequestsOK'
           /\ inbox' \in SUBSET Request
           /\ call' \in [Caller -> Call]
           /\ \A c \in Caller : call'[c].state # "idle" => call[c].state # "idle"
<1>1. RequestOK(r) /\ CallsOK(call)
  BY DEF RequestsOK
<1>2. CallsOK(call') /\ \A c \in Caller : call'[c].state # "idle" => call[c].state # "idle"
  BY <1>1, AnsweredOK
<1>3. \A q \in inbox' : RequestOK(q)
  BY DEF RequestsOK
<1> QED
  BY <1>2, <1>3 DEF RequestsOK, CallsOK, RequestOK

LEMMA RefusedOK ==
    ASSUME RequestsOK, NEW r \in inbox, inbox' = inbox \ {r}, Refuse(r)
    PROVE  /\ RequestsOK'
           /\ inbox' \in SUBSET Request
           /\ call' \in [Caller -> Call]
           /\ \A c \in Caller : call'[c].state # "idle" => call[c].state # "idle"
BY TakenOK, InventoryAssumption DEF Refuse, CallState, Generation

\* A refusal that changes no state of the hub.
LEMMA RefusalKeeps ==
    ASSUME Inv, NEW r \in inbox, inbox' = inbox \ {r}, Refuse(r), UNCHANGED hubVars
    PROVE  HubKeeps
<1>1. /\ RequestsOK' /\ inbox' \in SUBSET Request /\ call' \in [Caller -> Call]
      /\ \A c \in Caller : call'[c].state # "idle" => call[c].state # "idle"
  BY RefusedOK DEF Inv
<1>2. InventoryTypeOK'
  BY <1>1 DEF Inv, TypeOK, InventoryTypeOK, CatalogRow, HubCall, hubVars, Call
<1>3. PreparedOK'
  BY DEF Inv, PreparedOK, Appliable, hubVars
<1> QED
  BY <1>1, <1>2, <1>3 DEF HubKeeps

\* A registration leaves every prepared transaction appliable.
LEMMA RegisterKeeps ==
    ASSUME Inv, NEW r \in inbox, Register(r)
    PROVE  /\ record' \in [Agent -> InventoryRecord]
           /\ PreparedOK'
<1> DEFINE a == r.agent
           g == AssignedGeneration(record[a])
<1>1. a \in Agent /\ r.inc \in Incarnation \cup {None}
  BY DEF Inv, RequestsOK, RequestOK, Request
<1>2. record[a] \in InventoryRecord
  BY <1>1 DEF Inv, TypeOK, InventoryTypeOK, CatalogRow, HubCall
<1>3. record' = [record EXCEPT ![a] = [life |-> "active", gen |-> g, inc |-> r.inc]]
  BY <1>1, <1>2 DEF Register, Inv, TypeOK, InventoryTypeOK, CatalogRow, HubCall
<1>4. [life |-> "active", gen |-> g, inc |-> r.inc] \in InventoryRecord
  BY <1>1 DEF Register, InventoryRecord
<1>5. record' \in [Agent -> InventoryRecord]
  BY <1>3, <1>4 DEF Inv, TypeOK, InventoryTypeOK, CatalogRow, HubCall
<1>6. txns' = txns
  BY DEF Register
<1>7. ASSUME NEW t \in Txn, txns'[t].state = "prepared"
      PROVE  txns'[t].agent \in Agent /\ Appliable(txns[t])'
  <2>1. txns[t].agent \in Agent /\ Appliable(txns[t]) /\ txns[t] \in RevokeTransaction
    BY <1>6, <1>7 DEF Inv, PreparedOK, TypeOK, InventoryTypeOK, CatalogRow, HubCall
  <2>2. CASE txns[t].agent # a
    BY <1>3, <1>6, <2>1, <2>2 DEF Appliable, Inv, TypeOK, InventoryTypeOK, CatalogRow, HubCall
  <2>3. CASE txns[t].agent = a
    <3>1. record'[a] = [life |-> "active", gen |-> g, inc |-> r.inc]
      BY <1>1, <1>3 DEF Inv, TypeOK, InventoryTypeOK, CatalogRow, HubCall
    <3>2. record[a].life # "absent" /\ record[a].gen >= txns[t].gen
          /\ (record[a].gen = txns[t].gen => record[a].inc = txns[t].inc)
      BY <2>1, <2>3 DEF Appliable
    <3>3. record[a].gen \in Nat /\ txns[t].gen \in Nat
      BY <1>2, <2>1 DEF InventoryRecord, RevokeTransaction, Generation
    <3>4. CASE record[a].life = "active"
      <4>1. g = record[a].gen /\ record[a].inc = r.inc
        BY <3>4 DEF AssignedGeneration, Register, Registrable
      <4> QED
        BY <1>6, <2>1, <2>3, <3>1, <3>2, <4>1 DEF Appliable
    <3>5. CASE record[a].life = "retired"
      <4>1. g = record[a].gen + 1
        BY <3>5 DEF AssignedGeneration
      <4>2. g > txns[t].gen
        BY <3>2, <3>3, <4>1
      <4>3. /\ record'[txns'[t].agent].life # "absent"
            /\ record'[txns'[t].agent].gen >= txns'[t].gen
            /\ record'[txns'[t].agent].gen # txns'[t].gen
        BY <1>6, <2>3, <3>1, <3>3, <4>1, <4>2
      <4> QED
        BY <1>6, <2>1, <4>3 DEF Appliable
    <3> QED
      BY <1>2, <3>2, <3>4, <3>5 DEF InventoryRecord
  <2> QED
    BY <2>2, <2>3
<1> QED
  BY <1>5, <1>6, <1>7 DEF PreparedOK

LEMMA RegisterAgentKeeps ==
    ASSUME Inv, NEW r \in inbox, RegisterAgent(r)
    PROVE  HubKeeps
<1> DEFINE g == AssignedGeneration(record[r.agent])
<1>1. Register(r) /\ inbox' = inbox \ {r} /\ g \in Generation
  BY DEF RegisterAgent, Register, Takes
<1>2. record' \in [Agent -> InventoryRecord] /\ PreparedOK'
  BY <1>1, RegisterKeeps
<1>3. RequestsOK
  BY DEF Inv
<1>4. /\ RequestsOK' /\ inbox' \in SUBSET Request /\ call' \in [Caller -> Call]
      /\ \A c \in Caller : call'[c].state # "idle" => call[c].state # "idle"
  <2>1. CASE advertised[r.agent] > g
    BY <1>1, <1>3, <2>1, RefusedOK DEF RegisterAgent
  <2>2. CASE ~ (advertised[r.agent] > g)
    <3>1. call' = Answered(r, "ok", g)
      BY <2>2 DEF RegisterAgent
    <3> QED
      BY <1>1, <1>3, <3>1, TakenOK DEF CallState
  <2> QED
    BY <2>1, <2>2
<1>5. advertised' \in [Agent -> Generation]
  BY <1>1 DEF RegisterAgent, Inv, TypeOK, InventoryTypeOK, CatalogRow, HubCall
<1>6. InventoryTypeOK'
  BY <1>1, <1>2, <1>4, <1>5 DEF Register, Inv, TypeOK, InventoryTypeOK, CatalogRow, HubCall, Call
<1> QED
  BY <1>2, <1>4, <1>6 DEF HubKeeps

LEMMA RegisterUnboundKeeps ==
    ASSUME Inv, NEW r \in inbox, RegisterUnbound(r)
    PROVE  HubKeeps
<1>1. Register(r) /\ Refuse(r) /\ advertised' = advertised /\ inbox' = inbox \ {r}
  BY DEF RegisterUnbound, Register, Takes
<1>2. record' \in [Agent -> InventoryRecord] /\ PreparedOK'
  BY <1>1, RegisterKeeps
<1>3. /\ RequestsOK' /\ inbox' \in SUBSET Request /\ call' \in [Caller -> Call]
      /\ \A c \in Caller : call'[c].state # "idle" => call[c].state # "idle"
  BY <1>1, RefusedOK DEF Inv
<1>4. InventoryTypeOK'
  BY <1>1, <1>2, <1>3 DEF Register, Inv, TypeOK, InventoryTypeOK, CatalogRow, HubCall, Call
<1> QED
  BY <1>2, <1>3, <1>4 DEF HubKeeps

LEMMA PublishKeeps ==
    ASSUME Inv, NEW r \in inbox, PublishProjection(r)
    PROVE  HubKeeps
<1>1. r \in Request /\ r.agent \in Agent /\ r.gen \in Generation /\ r.fence \in Fence
  BY DEF Inv, RequestsOK, RequestOK, Request
<1>2. inbox' = inbox \ {r} /\ UNCHANGED <<hub, record, txns, advertised>>
  BY DEF PublishProjection, Takes
<1>3. RequestsOK
  BY DEF Inv
<1>4. /\ RequestsOK' /\ inbox' \in SUBSET Request /\ call' \in [Caller -> Call]
      /\ \A c \in Caller : call'[c].state # "idle" => call[c].state # "idle"
  <2>1. CASE StaleRow(r)
    BY <1>2, <1>3, <2>1, RefusedOK DEF PublishProjection
  <2>2. CASE ~ StaleRow(r)
    <3>1. call' = Answered(r, "ok", r.gen)
      BY <2>2 DEF PublishProjection
    <3> QED
      BY <1>1, <1>2, <1>3, <3>1, TakenOK DEF CallState
  <2> QED
    BY <2>1, <2>2
<1>5. deliveries' \in [Txn -> Delivery]
  BY <1>1 DEF PublishProjection, Delivery, Inv, TypeOK, InventoryTypeOK, CatalogRow, HubCall
<1>6. catalog' \in [Agent -> [gen : Generation, rev : 0..2]]
  <2>1. [gen |-> r.gen, rev |-> RevisionOf(r)] \in [gen : Generation, rev : 0..2]
    BY <1>1 DEF RevisionOf
  <2> QED
    BY <2>1 DEF PublishProjection, Inv, TypeOK, InventoryTypeOK, CatalogRow, HubCall
<1>7. InventoryTypeOK'
  BY <1>2, <1>4, <1>5, <1>6 DEF Inv, TypeOK, InventoryTypeOK, CatalogRow, HubCall, Call
<1>8. PreparedOK'
  BY <1>2 DEF Inv, PreparedOK, Appliable
<1> QED
  BY <1>4, <1>7, <1>8 DEF HubKeeps

\* The transaction a revoke request leads to is bound to the agent's record.
LEMMA PreparedByOK ==
    ASSUME Inv, NEW r \in inbox, r.kind = "revoke", Preparable(r)
    PROVE  /\ r.txn \in Txn /\ r.agent \in Agent /\ r.gen \in Generation
           /\ PreparedBy(r) \in RevokeTransaction
           /\ PreparedBy(r).agent = r.agent
           /\ PreparedBy(r).gen = r.gen
           /\ PreparedBy(r).fence = r.fence
           /\ Appliable(PreparedBy(r))
<1> DEFINE x == PreparedBy(r)
<1>1. /\ r.txn \in Txn /\ r.agent \in Agent /\ r.gen \in Generation /\ r.fence \in Fence
  BY DEF Inv, RequestsOK, RequestOK, Request
<1>2. record[r.agent] \in InventoryRecord /\ txns[r.txn] \in RevokeTransaction
  BY <1>1 DEF Inv, TypeOK, InventoryTypeOK, CatalogRow, HubCall
<1>3. x.agent = r.agent /\ x.gen = r.gen /\ x.fence = r.fence
      /\ x.inc = IF txns[r.txn].state = "absent" THEN record[r.agent].inc
                 ELSE txns[r.txn].inc
  BY DEF PreparedBy, Transaction
<1>4. x \in RevokeTransaction
  BY <1>1, <1>2 DEF PreparedBy, Transaction, RevokeTransaction, InventoryRecord, Disposition
<1>5. Appliable(x)
  <2>1. CASE txns[r.txn].state = "absent"
    <3>1. record[r.agent].life # "absent" /\ record[r.agent].gen = r.gen
      BY <2>1 DEF Preparable
    <3>2. record[r.agent].gen \in Nat
      BY <1>2 DEF InventoryRecord, Generation
    <3> QED
      BY <1>3, <2>1, <3>1, <3>2 DEF Appliable
  <2>2. CASE txns[r.txn].state # "absent"
    <3>1. txns[r.txn].state = "prepared" /\ SameRevoke(r)
      BY <2>2 DEF Preparable
    <3>2. Appliable(txns[r.txn])
      BY <1>1, <3>1 DEF Inv, PreparedOK
    <3> QED
      BY <1>3, <2>2, <3>1, <3>2 DEF Appliable, SameRevoke
  <2> QED
    BY <2>1, <2>2
<1> QED
  BY <1>1, <1>3, <1>4, <1>5

\* Writing a prepared transaction keeps the others appliable.
LEMMA PreparedWriteKeeps ==
    ASSUME Inv, NEW t \in Txn, NEW x \in RevokeTransaction, x.agent \in Agent,
           Appliable(x), txns' = [txns EXCEPT ![t] = x], record' = record
    PROVE  txns' \in [Txn -> RevokeTransaction] /\ PreparedOK'
<1>1. txns' \in [Txn -> RevokeTransaction]
  BY DEF Inv, TypeOK, InventoryTypeOK, CatalogRow, HubCall
<1>2. ASSUME NEW u \in Txn, txns'[u].state = "prepared"
      PROVE  txns'[u].agent \in Agent /\ Appliable(txns[u])'
  <2>1. CASE u = t
    <3>1. txns'[u] = x
      BY <2>1 DEF Inv, TypeOK, InventoryTypeOK, CatalogRow, HubCall
    <3> QED
      BY <3>1 DEF Appliable
  <2>2. CASE u # t
    <3>1. txns'[u] = txns[u]
      BY <2>2 DEF Inv, TypeOK, InventoryTypeOK, CatalogRow, HubCall
    <3> QED
      BY <1>2, <3>1 DEF Appliable, Inv, PreparedOK
  <2> QED
    BY <2>1, <2>2
<1> QED
  BY <1>1, <1>2 DEF PreparedOK

\* Applying a transaction changes no generation and no incarnation.
LEMMA ApplyKeeps ==
    ASSUME Inv, NEW t \in Txn, NEW x \in RevokeTransaction, x.agent \in Agent,
           Apply(t, x)
    PROVE  /\ record' \in [Agent -> InventoryRecord]
           /\ txns' \in [Txn -> RevokeTransaction]
           /\ PreparedOK'
<1> DEFINE y == [x EXCEPT !.state = "applied", !.outcome = DispositionOf(x)]
<1>1. y \in RevokeTransaction /\ y.state = "applied"
  BY DEF RevokeTransaction, Disposition, DispositionOf
<1>2. txns' = [txns EXCEPT ![t] = y]
  BY DEF Apply
<1>3. txns' \in [Txn -> RevokeTransaction]
  BY <1>1, <1>2 DEF Inv, TypeOK, InventoryTypeOK, CatalogRow, HubCall
<1>4. record \in [Agent -> InventoryRecord]
  BY DEF Inv, TypeOK, InventoryTypeOK, CatalogRow, HubCall
<1>5. /\ record' \in [Agent -> InventoryRecord]
      /\ \A a \in Agent : /\ record'[a].gen = record[a].gen
                          /\ record'[a].inc = record[a].inc
                          /\ record[a].life # "absent" => record'[a].life # "absent"
  <2>1. CASE record' = record
    BY <1>4, <2>1
  <2>2. CASE record' = [record EXCEPT ![x.agent].life = "retired"]
    BY <1>4, <2>2 DEF InventoryRecord
  <2> QED
    BY <2>1, <2>2 DEF Apply
<1>6. ASSUME NEW u \in Txn, txns'[u].state = "prepared"
      PROVE  txns'[u].agent \in Agent /\ Appliable(txns[u])'
  <2>1. u # t /\ txns'[u] = txns[u]
    BY <1>1, <1>2, <1>6 DEF Inv, TypeOK, InventoryTypeOK, CatalogRow, HubCall
  <2>2. txns[u].agent \in Agent /\ Appliable(txns[u])
    BY <1>6, <2>1 DEF Inv, PreparedOK
  <2> QED
    BY <1>5, <2>1, <2>2 DEF Appliable
<1> QED
  BY <1>3, <1>5, <1>6 DEF PreparedOK

LEMMA ConcludeOK ==
    ASSUME Inv, NEW r \in inbox, inbox' = inbox \ {r}, NEW outcome, Conclude(r, outcome)
    PROVE  /\ RequestsOK' /\ inbox' \in SUBSET Request /\ call' \in [Caller -> Call]
           /\ \A c \in Caller : call'[c].state # "idle" => call[c].state # "idle"
           /\ advertised' \in [Agent -> Generation]
           /\ catalog' \in [Agent -> [gen : Generation, rev : 0..2]]
<1>1. RequestsOK /\ r.gen \in Generation
  BY DEF Inv, RequestsOK, RequestOK, Request
<1>2. /\ advertised \in [Agent -> Generation]
      /\ catalog \in [Agent -> [gen : Generation, rev : 0..2]]
  BY DEF Inv, TypeOK, InventoryTypeOK, CatalogRow, HubCall
<1>3. CASE outcome = "superseded"
  <2>1. call' = Answered(r, "superseded", r.gen) /\ UNCHANGED <<advertised, catalog>>
    BY <1>3 DEF Conclude
  <2> QED
    BY <1>1, <1>2, <2>1, TakenOK DEF CallState
<1>4. CASE outcome # "superseded"
  <2>1. call' = Answered(r, "ok", r.gen) /\ RemoveGeneration(r.agent, r.gen)
    BY <1>4 DEF Conclude
  <2>2. 0 \in Generation /\ NoRow \in [gen : Generation, rev : 0..2]
    BY InventoryAssumption DEF Generation, NoRow
  <2>3. advertised' \in [Agent -> Generation]
    BY <1>2, <2>1, <2>2 DEF RemoveGeneration
  <2>4. catalog' \in [Agent -> [gen : Generation, rev : 0..2]]
    BY <1>2, <2>1, <2>2 DEF RemoveGeneration
  <2> QED
    BY <1>1, <2>1, <2>3, <2>4, TakenOK DEF CallState
<1> QED
  BY <1>3, <1>4

LEMMA RevokeAgentKeeps ==
    ASSUME Inv, NEW r \in inbox, RevokeAgent(r)
    PROVE  HubKeeps
<1>1. /\ r.kind = "revoke" /\ inbox' = inbox \ {r} /\ Preparable(r)
      /\ Apply(r.txn, PreparedBy(r)) /\ Conclude(r, DispositionOf(PreparedBy(r)))
      /\ UNCHANGED <<hub, deliveries>>
  BY DEF RevokeAgent, Takes
<1>2. r.txn \in Txn /\ PreparedBy(r) \in RevokeTransaction /\ PreparedBy(r).agent \in Agent
  BY <1>1, PreparedByOK
<1>3. /\ record' \in [Agent -> InventoryRecord] /\ txns' \in [Txn -> RevokeTransaction]
      /\ PreparedOK'
  BY <1>1, <1>2, ApplyKeeps
<1>4. /\ RequestsOK' /\ inbox' \in SUBSET Request /\ call' \in [Caller -> Call]
      /\ \A c \in Caller : call'[c].state # "idle" => call[c].state # "idle"
      /\ advertised' \in [Agent -> Generation]
      /\ catalog' \in [Agent -> [gen : Generation, rev : 0..2]]
  BY <1>1, ConcludeOK
<1>5. InventoryTypeOK'
  BY <1>1, <1>3, <1>4 DEF Inv, TypeOK, InventoryTypeOK, CatalogRow, HubCall, Call
<1> QED
  BY <1>3, <1>4, <1>5 DEF HubKeeps

LEMMA RevokePreparedKeeps ==
    ASSUME Inv, NEW r \in inbox, RevokePrepared(r)
    PROVE  HubKeeps
<1>1. /\ r.kind = "revoke" /\ inbox' = inbox \ {r} /\ Preparable(r)
      /\ txns' = [txns EXCEPT ![r.txn] = PreparedBy(r)] /\ Refuse(r)
      /\ UNCHANGED <<hub, record, deliveries, advertised, catalog>>
  BY DEF RevokePrepared, Takes
<1>2. /\ r.txn \in Txn /\ PreparedBy(r) \in RevokeTransaction
      /\ PreparedBy(r).agent \in Agent /\ Appliable(PreparedBy(r))
  BY <1>1, PreparedByOK
<1>3. txns' \in [Txn -> RevokeTransaction] /\ PreparedOK'
  BY <1>1, <1>2, PreparedWriteKeeps
<1>4. /\ RequestsOK' /\ inbox' \in SUBSET Request /\ call' \in [Caller -> Call]
      /\ \A c \in Caller : call'[c].state # "idle" => call[c].state # "idle"
  BY <1>1, RefusedOK DEF Inv
<1>5. InventoryTypeOK'
  BY <1>1, <1>3, <1>4 DEF Inv, TypeOK, InventoryTypeOK, CatalogRow, HubCall, Call
<1> QED
  BY <1>3, <1>4, <1>5 DEF HubKeeps

LEMMA RevokeUnreportedKeeps ==
    ASSUME Inv, NEW r \in inbox, RevokeUnreported(r)
    PROVE  HubKeeps
<1>1. /\ r.kind = "revoke" /\ inbox' = inbox \ {r} /\ Preparable(r)
      /\ Apply(r.txn, PreparedBy(r)) /\ Refuse(r)
      /\ UNCHANGED <<hub, deliveries, advertised, catalog>>
  BY DEF RevokeUnreported, Takes
<1>2. r.txn \in Txn /\ PreparedBy(r) \in RevokeTransaction /\ PreparedBy(r).agent \in Agent
  BY <1>1, PreparedByOK
<1>3. /\ record' \in [Agent -> InventoryRecord] /\ txns' \in [Txn -> RevokeTransaction]
      /\ PreparedOK'
  BY <1>1, <1>2, ApplyKeeps
<1>4. /\ RequestsOK' /\ inbox' \in SUBSET Request /\ call' \in [Caller -> Call]
      /\ \A c \in Caller : call'[c].state # "idle" => call[c].state # "idle"
  BY <1>1, RefusedOK DEF Inv
<1>5. InventoryTypeOK'
  BY <1>1, <1>3, <1>4 DEF Inv, TypeOK, InventoryTypeOK, CatalogRow, HubCall, Call
<1> QED
  BY <1>3, <1>4, <1>5 DEF HubKeeps

\* A transaction that is applied, or stays so, binds nothing.
LEMMA AppliedWriteKeeps ==
    ASSUME Inv, NEW t \in Txn, NEW x \in RevokeTransaction, x.state = "applied",
           txns' = [txns EXCEPT ![t] = x], record' = record
    PROVE  txns' \in [Txn -> RevokeTransaction] /\ PreparedOK'
<1>1. txns' \in [Txn -> RevokeTransaction]
  BY DEF Inv, TypeOK, InventoryTypeOK, CatalogRow, HubCall
<1>2. ASSUME NEW u \in Txn, txns'[u].state = "prepared"
      PROVE  txns'[u].agent \in Agent /\ Appliable(txns[u])'
  <2>1. u # t /\ txns'[u] = txns[u]
    BY <1>2 DEF Inv, TypeOK, InventoryTypeOK, CatalogRow, HubCall
  <2> QED
    BY <1>2, <2>1 DEF Appliable, Inv, PreparedOK
<1> QED
  BY <1>1, <1>2 DEF PreparedOK

LEMMA RevokeSupersededKeeps ==
    ASSUME Inv, NEW r \in inbox, RevokeSuperseded(r)
    PROVE  HubKeeps
<1> DEFINE x == Transaction(r, "applied", None, "superseded")
<1>1. /\ r.kind = "revoke" /\ inbox' = inbox \ {r} /\ Conclude(r, "superseded")
      /\ txns' = [txns EXCEPT ![r.txn] = x] /\ UNCHANGED <<hub, record, deliveries>>
  BY DEF RevokeSuperseded, Takes
<1>2. /\ r.txn \in Txn /\ r.agent \in Agent /\ r.gen \in Generation /\ r.fence \in Fence
  BY <1>1 DEF Inv, RequestsOK, RequestOK, Request
<1>3. x \in RevokeTransaction /\ x.state = "applied"
  BY <1>2 DEF Transaction, RevokeTransaction, Disposition
<1>4. txns' \in [Txn -> RevokeTransaction] /\ PreparedOK'
  BY <1>1, <1>2, <1>3, AppliedWriteKeeps
<1>5. /\ RequestsOK' /\ inbox' \in SUBSET Request /\ call' \in [Caller -> Call]
      /\ \A c \in Caller : call'[c].state # "idle" => call[c].state # "idle"
      /\ advertised' \in [Agent -> Generation]
      /\ catalog' \in [Agent -> [gen : Generation, rev : 0..2]]
  BY <1>1, ConcludeOK
<1>6. InventoryTypeOK'
  BY <1>1, <1>4, <1>5 DEF Inv, TypeOK, InventoryTypeOK, CatalogRow, HubCall, Call
<1> QED
  BY <1>4, <1>5, <1>6 DEF HubKeeps

LEMMA RevokeReplayedKeeps ==
    ASSUME Inv, NEW r \in inbox, RevokeReplayed(r)
    PROVE  HubKeeps
<1> DEFINE x == [txns[r.txn] EXCEPT !.fence = r.fence]
<1>1. /\ r.kind = "revoke" /\ inbox' = inbox \ {r} /\ Conclude(r, txns[r.txn].outcome)
      /\ txns[r.txn].state = "applied" /\ UNCHANGED <<hub, record, deliveries>>
  BY DEF RevokeReplayed, Takes
<1>2. r.txn \in Txn /\ r.fence \in Fence /\ txns[r.txn] \in RevokeTransaction
  BY <1>1 DEF Inv, RequestsOK, RequestOK, Request, TypeOK, InventoryTypeOK, CatalogRow, HubCall
<1>3. x \in RevokeTransaction /\ x.state = "applied"
  BY <1>1, <1>2 DEF RevokeTransaction
<1>4. txns' = [txns EXCEPT ![r.txn] = x]
  BY <1>2 DEF RevokeReplayed, Inv, TypeOK, InventoryTypeOK, CatalogRow, HubCall
<1>5. txns' \in [Txn -> RevokeTransaction] /\ PreparedOK'
  BY <1>1, <1>2, <1>3, <1>4, AppliedWriteKeeps
<1>6. /\ RequestsOK' /\ inbox' \in SUBSET Request /\ call' \in [Caller -> Call]
      /\ \A c \in Caller : call'[c].state # "idle" => call[c].state # "idle"
      /\ advertised' \in [Agent -> Generation]
      /\ catalog' \in [Agent -> [gen : Generation, rev : 0..2]]
  BY <1>1, ConcludeOK
<1>7. InventoryTypeOK'
  BY <1>1, <1>5, <1>6 DEF Inv, TypeOK, InventoryTypeOK, CatalogRow, HubCall, Call
<1> QED
  BY <1>5, <1>6, <1>7 DEF HubKeeps

\* Every step of the hub.
LEMMA HubStep ==
    ASSUME Inv, HubNext
    PROVE  HubKeeps
<1>1. ASSUME NEW r \in inbox, RequestLost(r) PROVE HubKeeps
  <2>1. RequestsOK' /\ inbox' \in SUBSET Request /\ call' = call
    BY <1>1 DEF RequestLost, Inv, RequestsOK, RequestOK
  <2>2. InventoryTypeOK'
    BY <1>1, <2>1 DEF RequestLost, hubVars, Inv, TypeOK, InventoryTypeOK, CatalogRow, HubCall
  <2>3. PreparedOK'
    BY <1>1 DEF RequestLost, hubVars, Inv, PreparedOK, Appliable
  <2> QED
    BY <2>1, <2>2, <2>3 DEF HubKeeps
<1>2. ASSUME NEW r \in inbox,
             RegisterRefused(r) \/ ProjectionRefused(r) \/ RevokeRefused(r)
      PROVE  HubKeeps
  <2>1. inbox' = inbox \ {r} /\ Refuse(r) /\ UNCHANGED hubVars
    BY <1>2 DEF RegisterRefused, ProjectionRefused, RevokeRefused, Takes
  <2> QED
    BY <2>1, RefusalKeeps
<1>3. ASSUME NEW a \in Agent, RevokeImmediate(a) PROVE HubKeeps
  <2>1. 0 \in Generation /\ NoRow \in [gen : Generation, rev : 0..2]
    BY InventoryAssumption DEF Generation, NoRow
  <2>2. InventoryTypeOK'
    BY <1>3, <2>1 DEF RevokeImmediate, netVars, Inv, TypeOK, InventoryTypeOK, CatalogRow, HubCall
  <2>3. RequestsOK' /\ PreparedOK' /\ call' = call
    BY <1>3 DEF RevokeImmediate, netVars, Inv, RequestsOK, CallsOK, RequestOK,
                PreparedOK, Appliable
  <2> QED
    BY <2>2, <2>3 DEF HubKeeps
<1>4. CASE HubCrash
  <2>1. 0 \in Generation /\ NoRow \in [gen : Generation, rev : 0..2]
    BY InventoryAssumption DEF Generation, NoRow
  <2>2. InventoryTypeOK'
    BY <1>4, <2>1 DEF HubCrash, netVars, Inv, TypeOK, InventoryTypeOK, CatalogRow, HubCall
  <2>3. RequestsOK' /\ PreparedOK' /\ call' = call
    BY <1>4 DEF HubCrash, netVars, Inv, RequestsOK, CallsOK, RequestOK,
                PreparedOK, Appliable
  <2> QED
    BY <2>2, <2>3 DEF HubKeeps
<1>5. CASE HydrateDirectory
  <2>1. \A a \in Agent : record[a].gen \in Generation
    BY DEF Inv, TypeOK, InventoryTypeOK, CatalogRow, HubCall, InventoryRecord
  <2>2. 0 \in Generation
    BY InventoryAssumption DEF Generation
  <2>3. InventoryTypeOK'
    BY <1>5, <2>1, <2>2 DEF HydrateDirectory, netVars, Inv, TypeOK, InventoryTypeOK, CatalogRow, HubCall
  <2>4. RequestsOK' /\ PreparedOK' /\ call' = call
    BY <1>5 DEF HydrateDirectory, netVars, Inv, RequestsOK, CallsOK, RequestOK,
                PreparedOK, Appliable
  <2> QED
    BY <2>3, <2>4 DEF HubKeeps
<1>6. ASSUME NEW t \in Txn, RecoverRevoke(t) PROVE HubKeeps
  <2>1. /\ txns[t] \in RevokeTransaction /\ txns[t].agent \in Agent /\ Apply(t, txns[t])
        /\ UNCHANGED <<hub, deliveries, advertised, catalog, inbox, call>>
    BY <1>6 DEF RecoverRevoke, netVars, Inv, TypeOK, InventoryTypeOK, CatalogRow, HubCall, PreparedOK
  <2>2. /\ record' \in [Agent -> InventoryRecord] /\ txns' \in [Txn -> RevokeTransaction]
        /\ PreparedOK'
    BY <2>1, ApplyKeeps
  <2>3. InventoryTypeOK'
    BY <2>1, <2>2 DEF Inv, TypeOK, InventoryTypeOK, CatalogRow, HubCall
  <2>4. RequestsOK'
    BY <2>1 DEF Inv, RequestsOK, CallsOK, RequestOK
  <2> QED
    BY <2>1, <2>2, <2>3, <2>4 DEF HubKeeps
<1> QED
  BY <1>1, <1>2, <1>3, <1>4, <1>5, <1>6, RegisterAgentKeeps, RegisterUnboundKeeps,
     PublishKeeps, RevokeAgentKeeps, RevokePreparedKeeps, RevokeUnreportedKeeps,
     RevokeSupersededKeeps, RevokeReplayedKeeps
     DEF HubNext

-----------------------------------------------------------------------------
(* Steps of the device.                                                    *)

\* What a step of the device establishes while the hub's state is unchanged.
DeviceKeeps ==
    /\ DeviceTypeOK'
    /\ RequestsOK'
    /\ DrainOK'
    /\ JournalOK'

\* A step that changes neither the outbox, the drain nor its call.
LEMMA DrainUndisturbed ==
    ASSUME Inv, UNCHANGED <<outbox, drain>>, call'[Drain] = call[Drain]
    PROVE  DrainOK'
BY DEF Inv, DrainOK

LEMMA DrainIsCaller ==
    /\ Drain \in Caller /\ Replay \in Caller /\ Worker \subseteq Caller
    /\ Drain \notin Worker /\ Replay # Drain
BY LifecycleAssumption

\* A step that leaves the calls alone leaves them well formed.
LEMMA NetUndisturbed ==
    ASSUME Inv, UNCHANGED netVars
    PROVE  RequestsOK' /\ call' = call
BY DEF Inv, RequestsOK, CallsOK, RequestOK, netVars

LEMMA RegisterRequestOK ==
    ASSUME NEW c \in Caller, NEW a \in Agent, NEW i \in Incarnation \cup {None},
           NEW t \in Txn \cup {None}
    PROVE  RequestOK(RegisterRequest(c, a, i, t)) /\ RegisterRequest(c, a, i, t).from = c
<1>1. 0 \in Generation /\ 0 \in Fence
  BY InventoryAssumption DEF Generation, Fence
<1> QED
  BY <1>1 DEF RequestOK, RegisterRequest, NoRequest, Request

LEMMA PublishRequestOK ==
    ASSUME NEW c \in Caller, NEW a \in Agent, NEW i \in Incarnation \cup {None},
           NEW g \in Generation
    PROVE  RequestOK(PublishRequest(c, a, i, g)) /\ PublishRequest(c, a, i, g).from = c
<1>1. 0 \in Generation /\ 0 \in Fence
  BY InventoryAssumption DEF Generation, Fence
<1> QED
  BY <1>1 DEF RequestOK, PublishRequest, NoRequest, Request

LEMMA DrainRequestOK ==
    ASSUME NEW a \in Agent, NEW e \in OutboxEntry, e.txn # None
    PROVE  RequestOK(DrainRequest(a, e)) /\ DrainRequest(a, e).from = Drain
BY InventoryAssumption, DrainIsCaller
   DEF RequestOK, DrainRequest, NoRequest, Request, OutboxEntry, Generation, Fence

LEMMA StartAgentKeeps ==
    ASSUME Inv, NEW a \in Agent, StartAgent(a)
    PROVE  DeviceKeeps
<1>1. DeviceTypeOK'
  BY DEF StartAgent, Inv, TypeOK, DeviceTypeOK, DrainBatch
<1>2. JournalOK'
  BY DEF StartAgent, Inv, JournalOK
<1> QED
  BY <1>1, <1>2, DrainUndisturbed, NetUndisturbed DEF StartAgent, DeviceKeeps

\* A token is drawn from the unused ones, for one record.
LEMMA Minted ==
    ASSUME NEW a \in Agent, MintPending(a)
    PROVE  /\ FreshToken \in Incarnation \ minted /\ minted' = minted \cup {FreshToken}
           /\ pub[a].st \in {"none", "retired"}
           /\ pub' = [pub EXCEPT ![a] = [st |-> "pending", inc |-> FreshToken, gen |-> 0]]
BY DEF MintPending, FreshToken, Unregistered

LEMMA MintedType ==
    ASSUME Inv, NEW a \in Agent, MintPending(a)
    PROVE  pub' \in [Agent -> PublicationRecord] /\ minted' \in SUBSET Incarnation
<1>1. pub \in [Agent -> PublicationRecord] /\ minted \in SUBSET Incarnation
  BY DEF Inv, TypeOK, DeviceTypeOK, DrainBatch
<1>2. [st |-> "pending", inc |-> FreshToken, gen |-> 0] \in PublicationRecord
  BY Minted, InventoryAssumption DEF PublicationRecord, Generation
<1> QED BY <1>1, <1>2, Minted

LEMMA BeginRegistrationKeeps ==
    ASSUME Inv, NEW w \in Worker, NEW a \in Agent, BeginRegistration(w, a)
    PROVE  DeviceKeeps
<1>1. pub \in [Agent -> PublicationRecord] /\ minted \in SUBSET Incarnation /\ RequestsOK
  BY DEF Inv, TypeOK, DeviceTypeOK, DrainBatch
<1>2. pub' \in [Agent -> PublicationRecord] /\ minted' \in SUBSET Incarnation
  BY <1>1, MintedType DEF BeginRegistration
<1>3. PICK i \in Incarnation \cup {None} : Issue(RegisterRequest(w, a, i, None))
  BY <1>2 DEF BeginRegistration, PublicationRecord
<1>4. RequestOK(RegisterRequest(w, a, i, None)) /\ RegisterRequest(w, a, i, None).from = w
  BY RegisterRequestOK, DrainIsCaller
<1>5. RequestsOK' /\ call'[Drain] = call[Drain]
  BY <1>1, <1>3, <1>4, IssueOK, DrainIsCaller
<1>6. DeviceTypeOK'
  BY <1>2 DEF BeginRegistration, Inv, TypeOK, DeviceTypeOK, DrainBatch
<1>7. JournalOK'
  BY DEF BeginRegistration, Inv, JournalOK
<1>8. DrainOK'
  BY <1>5, DrainUndisturbed DEF BeginRegistration
<1> QED
  BY <1>5, <1>6, <1>7, <1>8 DEF DeviceKeeps

\* The steps that write a publication record and nothing else of the device.
LEMMA RecordWriteKeeps ==
    ASSUME Inv, NEW a \in Agent, PlanCaptured(a) \/ FenceCatalogCommit(a)
    PROVE  DeviceKeeps
<1>1. pub \in [Agent -> PublicationRecord] /\ minted \in SUBSET Incarnation
  BY DEF Inv, TypeOK, DeviceTypeOK, DrainBatch
<1>2. [pub EXCEPT ![a].st = "assigned"] \in [Agent -> PublicationRecord]
  BY <1>1 DEF PublicationRecord
<1>3. pub' \in [Agent -> PublicationRecord] /\ minted' \in SUBSET Incarnation
  BY <1>1, <1>2, MintedType DEF PlanCaptured, FenceCatalogCommit
<1>4. UNCHANGED <<netVars, booted, guard, local, journal, outbox, drain, opened>>
  BY DEF PlanCaptured, FenceCatalogCommit
<1>5. DeviceTypeOK' /\ JournalOK'
  BY <1>3, <1>4 DEF Inv, TypeOK, DeviceTypeOK, DrainBatch, JournalOK
<1> QED
  BY <1>4, <1>5, DrainUndisturbed, NetUndisturbed DEF DeviceKeeps

\* Binding an assignment keeps the publication records typed.
LEMMA BoundType ==
    ASSUME Inv, NEW a \in Agent, NEW g \in Generation
    PROVE  Bound(a, g) \in [Agent -> PublicationRecord]
<1>1. pub \in [Agent -> PublicationRecord]
  BY DEF Inv, TypeOK, DeviceTypeOK, DrainBatch
<1>2. [pub EXCEPT ![a].st = "assigned", ![a].gen = g] \in [Agent -> PublicationRecord]
  BY <1>1 DEF PublicationRecord
<1> QED
  BY <1>1, <1>2 DEF Bound

LEMMA ActivateKeeps ==
    ASSUME Inv, NEW w \in Worker, Activate(w)
    PROVE  DeviceKeeps
<1> DEFINE r == call[w].req
           g == call[w].gen
<1>1. w \in Caller /\ w # Drain /\ Drain \in Caller /\ RequestsOK
  BY DrainIsCaller DEF Inv
<1>2. RequestOK(r) /\ g \in Generation /\ call \in [Caller -> Call] /\ call[w].state = "ok"
  BY <1>1 DEF Activate, RequestsOK, CallsOK, Call
<1>3. r.agent \in Agent /\ r.inc \in Incarnation \cup {None}
  BY <1>2 DEF RequestOK, Request
<1>4. RequestsOK' /\ call'[Drain] = call[Drain]
  <2>1. CASE call' = [call EXCEPT ![w].state = "handoff"] /\ inbox' = inbox
    <3>1. call' \in [Caller -> Call]
      BY <1>2, <2>1 DEF Call, CallState
    <3>2. \A c \in Caller : call'[c].state # "idle" => RequestOK(call'[c].req)
      BY <1>1, <1>2, <2>1 DEF RequestsOK, CallsOK, Call
    <3> QED
      BY <1>1, <1>2, <2>1, <3>1, <3>2 DEF RequestsOK, CallsOK
  <2>2. CASE HangUp(w)
    BY <1>1, <2>2, HangUpOK
  <2>3. CASE Issue(PublishRequest(w, r.agent, r.inc, g))
    <3>1. /\ RequestOK(PublishRequest(w, r.agent, r.inc, g))
          /\ PublishRequest(w, r.agent, r.inc, g).from = w
      BY <1>1, <1>2, <1>3, PublishRequestOK
    <3> QED
      BY <1>1, <2>3, <3>1, IssueOK
  <2> QED
    BY <2>1, <2>2, <2>3 DEF Activate
<1>5. pub' \in [Agent -> PublicationRecord]
  BY <1>2, <1>3, BoundType DEF Activate
<1>6. DeviceTypeOK'
  BY <1>5 DEF Activate, Inv, TypeOK, DeviceTypeOK, DrainBatch
<1>7. JournalOK'
  BY DEF Activate, Inv, JournalOK
<1>8. DrainOK'
  BY <1>4, DrainUndisturbed DEF Activate
<1> QED
  BY <1>4, <1>6, <1>7, <1>8 DEF DeviceKeeps

\* A caller other than the drain hangs up and nothing else happens.
LEMMA HangUpKeeps ==
    ASSUME Inv, NEW c \in Worker \cup {Replay}, HangUp(c), UNCHANGED deviceVars
    PROVE  DeviceKeeps
<1>1. c \in Caller /\ c # Drain /\ Drain \in Caller /\ RequestsOK
  BY DrainIsCaller DEF Inv
<1>2. RequestsOK' /\ call'[Drain] = call[Drain]
  BY <1>1, HangUpOK
<1>3. DeviceTypeOK' /\ JournalOK'
  BY DEF Inv, TypeOK, DeviceTypeOK, DrainBatch, JournalOK, deviceVars
<1> QED
  BY <1>2, <1>3, DrainUndisturbed DEF DeviceKeeps, deviceVars

LEMMA MarkPublishedKeeps ==
    ASSUME Inv, NEW w \in Worker, MarkPublished(w)
    PROVE  DeviceKeeps
<1>1. w \in Caller /\ w # Drain /\ Drain \in Caller /\ RequestsOK
  BY DrainIsCaller DEF Inv
<1>2. RequestsOK' /\ call'[Drain] = call[Drain]
  BY <1>1, HangUpOK DEF MarkPublished
<1>3. pub' \in [Agent -> PublicationRecord]
  BY DEF MarkPublished, PublicationRecord, Inv, TypeOK, DeviceTypeOK, DrainBatch
<1>4. DeviceTypeOK'
  BY <1>3 DEF MarkPublished, Inv, TypeOK, DeviceTypeOK, DrainBatch
<1>5. JournalOK'
  BY DEF MarkPublished, Inv, JournalOK
<1> QED
  BY <1>2, <1>4, <1>5, DrainUndisturbed DEF DeviceKeeps, MarkPublished

\* The retraction steps that change the journal, the guard and the local
\* agents only.
LEMMA RetractionKeeps ==
    ASSUME Inv, UNCHANGED <<netVars, pub, outbox, drain, minted>>,
           booted' \in BOOLEAN, local' \in SUBSET Agent, opened' \in SUBSET Txn,
           guard' \in {"free", "retracting", "promoting", "enqueued"},
           journal' \in Journal, JournalOK'
    PROVE  DeviceKeeps
<1>1. DeviceTypeOK'
  BY DEF Inv, TypeOK, DeviceTypeOK, DrainBatch
<1> QED
  BY <1>1, DrainUndisturbed, NetUndisturbed DEF DeviceKeeps

LEMMA TombstonePlanType ==
    ASSUME Inv, journal.agent \in Agent, journal.stage # "none"
    PROVE  /\ TombstonePlan \in Journal
           /\ TombstonePlan.stage \in {"assignmentPending", "tombstonePrepared"}
           /\ TombstonePlan.agent = journal.agent
           /\ TombstonePlan.txn = journal.txn
<1>1. journal \in Journal /\ pub[journal.agent] \in PublicationRecord
  BY DEF Inv, TypeOK, DeviceTypeOK, DrainBatch
<1>2. 0 \in Generation
  BY InventoryAssumption DEF Generation
<1> QED
  BY <1>1, <1>2 DEF TombstonePlan, Journal, PublicationRecord

LEMMA BeginRetractionKeeps ==
    ASSUME Inv, NEW a \in Agent, BeginRetraction(a)
    PROVE  DeviceKeeps
<1>1. PICK t \in Txn \ opened :
         /\ opened' = opened \cup {t}
         /\ journal' = [NoJournal EXCEPT !.stage = "uncommitted", !.txn = t, !.agent = a]
  BY DEF BeginRetraction, FreshTxn
<1>2. 0 \in Generation
  BY InventoryAssumption DEF Generation
<1>3. journal' \in Journal /\ journal'.agent = a /\ journal'.txn = t
  BY <1>1, <1>2 DEF NoJournal, Journal
<1>4. guard' = "retracting"
  BY DEF BeginRetraction
<1>5. JournalOK'
  BY <1>3, <1>4 DEF JournalOK
<1> QED
  BY <1>1, <1>3, <1>4, <1>5, RetractionKeeps
     DEF BeginRetraction, Inv, TypeOK, DeviceTypeOK, DrainBatch

\* The steps that only move the journal and the guard.
LEMMA JournalStepKeeps ==
    ASSUME Inv,
           \/ CommitRetraction \/ RollBack \/ FinalizeRetraction \/ ClearJournal
           \/ RetractionStops \/ RecoverRetraction \/ Promote \/ DeviceBoots
    PROVE  DeviceKeeps
<1>1. /\ journal \in Journal /\ local \in SUBSET Agent /\ opened \in SUBSET Txn
      /\ booted \in BOOLEAN /\ JournalOK
      /\ guard \in {"free", "retracting", "promoting", "enqueued"}
  BY DEF Inv, TypeOK, DeviceTypeOK, DrainBatch
<1>2. NoJournal \in Journal /\ NoJournal.stage = "none"
  BY InventoryAssumption DEF NoJournal, Journal, Generation
<1>3. CASE CommitRetraction
  <2>1. /\ journal'.stage = "committed" /\ journal'.agent = journal.agent
        /\ journal'.txn = journal.txn /\ journal' \in Journal
    BY <1>1, <1>3 DEF CommitRetraction, Journal
  <2>2. JournalOK' /\ guard' = guard /\ local' \in SUBSET Agent
    BY <1>1, <1>3, <2>1 DEF CommitRetraction, JournalOK
  <2> QED
    BY <1>1, <1>3, <2>1, <2>2, RetractionKeeps DEF CommitRetraction
<1>4. CASE RollBack \/ ClearJournal
  <2>1. /\ journal' = NoJournal /\ guard' = "free"
        /\ UNCHANGED <<netVars, booted, local, pub, outbox, drain, minted, opened>>
    BY <1>4 DEF RollBack, ClearJournal
  <2>2. JournalOK'
    BY <1>2, <2>1 DEF JournalOK
  <2> QED
    BY <1>1, <1>2, <2>1, <2>2, RetractionKeeps
<1>5. CASE FinalizeRetraction
  <2>1. journal.agent \in Agent /\ journal.txn \in Txn /\ journal.stage # "none"
    BY <1>1, <1>5 DEF FinalizeRetraction, JournalOK
  <2>2. /\ journal' \in Journal /\ journal'.agent = journal.agent
        /\ journal'.txn = journal.txn
    BY <1>5, <2>1, TombstonePlanType DEF FinalizeRetraction
  <2>3. guard' \in {"free", "retracting"}
    BY <1>5 DEF FinalizeRetraction
  <2>4. JournalOK'
    BY <2>1, <2>2, <2>3 DEF JournalOK
  <2> QED
    BY <1>1, <1>5, <2>2, <2>3, <2>4, RetractionKeeps DEF FinalizeRetraction
<1>6. CASE Promote
  <2>1. journal.agent \in Agent /\ journal.txn \in Txn /\ journal.stage # "none"
    BY <1>1, <1>6 DEF Promote, JournalOK
  <2>2. /\ journal' \in Journal /\ journal'.agent = journal.agent
        /\ journal'.txn = journal.txn
    BY <1>6, <2>1, TombstonePlanType DEF Promote
  <2>3. guard' = "retracting"
    BY <1>6 DEF Promote
  <2>4. JournalOK'
    BY <2>1, <2>2, <2>3 DEF JournalOK
  <2> QED
    BY <1>1, <1>6, <2>2, <2>3, <2>4, RetractionKeeps DEF Promote
<1>7. CASE RetractionStops \/ RecoverRetraction \/ DeviceBoots
  <2>1. /\ journal' = journal /\ guard' \in {"free", "retracting"} /\ booted' \in BOOLEAN
        /\ UNCHANGED <<netVars, local, pub, outbox, drain, minted, opened>>
    BY <1>1, <1>7 DEF RetractionStops, RecoverRetraction, DeviceBoots
  <2>2. JournalOK'
    BY <1>1, <2>1 DEF JournalOK
  <2> QED
    BY <1>1, <2>1, <2>2, RetractionKeeps
<1> QED
  BY <1>3, <1>4, <1>5, <1>6, <1>7

LEMMA EnqueueKeeps ==
    ASSUME Inv, EnqueuePublication
    PROVE  DeviceKeeps
<1>1. journal.agent \in Agent /\ journal.txn \in Txn /\ journal \in Journal
  BY DEF EnqueuePublication, Inv, JournalOK, TypeOK, DeviceTypeOK, DrainBatch
<1>2. outbox \in [Agent -> OutboxEntry]
  BY DEF Inv, TypeOK, DeviceTypeOK, DrainBatch
<1>3. 0 \in Fence /\ 1 \in 1..(MaxFence + 1) /\ 0 \in 0..MaxAttempts /\ 0 < MaxAttempts
  BY InventoryAssumption, LifecycleAssumption DEF Fence
<1>4. NewEntry \in OutboxEntry /\ NewEntry.attempts = 0
  BY <1>1, <1>3 DEF NewEntry, NoEntry, OutboxEntry, Journal
<1>5. outbox' \in [Agent -> OutboxEntry]
  BY <1>1, <1>2, <1>4 DEF EnqueuePublication
<1>6. DeviceTypeOK'
  BY <1>5 DEF EnqueuePublication, Inv, TypeOK, DeviceTypeOK, DrainBatch
<1>7. DrainOK'
  <2>1. CASE OutboxHolds(journal.agent)
    <3>1. UNCHANGED <<outbox, drain>> /\ call' = call
      BY <2>1 DEF EnqueuePublication, netVars
    <3> QED
      BY <3>1, DrainUndisturbed
  <2>2. CASE ~ OutboxHolds(journal.agent)
    <3>1. /\ outbox' = [outbox EXCEPT ![journal.agent] = NewEntry]
          /\ drain' = drain /\ call' = call
      BY <2>2 DEF EnqueuePublication, netVars
    <3>2. \A a \in Agent \ {journal.agent} : outbox'[a] = outbox[a]
      BY <1>2, <3>1
    <3>3. outbox'[journal.agent] = NewEntry
      BY <1>1, <1>2, <3>1
    <3>4. ASSUME call'[Drain].state # "idle"
          PROVE  /\ drain'.on /\ drain'.agent \in Agent
                 /\ outbox'[drain'.agent].txn # None
                 /\ outbox'[drain'.agent].retry = "claimed"
      BY <2>2, <3>1, <3>2, <3>4 DEF Inv, DrainOK, OutboxHolds
    <3>5. \A a \in Agent : outbox'[a].retry # "reconcile" => outbox'[a].attempts < MaxAttempts
      BY <1>3, <1>4, <3>2, <3>3 DEF Inv, DrainOK
    <3> QED
      BY <3>4, <3>5 DEF DrainOK
  <2> QED
    BY <2>1, <2>2
<1>8. JournalOK'
  BY DEF EnqueuePublication, Inv, JournalOK
<1> QED
  BY <1>6, <1>7, <1>8, NetUndisturbed DEF EnqueuePublication, DeviceKeeps

LEMMA HandOffKeeps ==
    ASSUME Inv, NEW w \in Worker, HandOff(w)
    PROVE  DeviceKeeps
<1>1. w \in Caller /\ w # Drain /\ Drain \in Caller /\ RequestsOK
  BY DrainIsCaller DEF Inv
<1>2. RequestsOK' /\ call'[Drain] = call[Drain]
  BY <1>1, HangUpOK DEF HandOff
<1>3. journal' \in Journal /\ guard' \in {"free", "retracting"} /\ JournalOK'
  <2>1. CASE UNCHANGED <<guard, journal>>
    BY <2>1 DEF HandOff, GuardFree, Inv, TypeOK, DeviceTypeOK, DrainBatch, JournalOK
  <2>2. CASE /\ journal.stage # "none" /\ guard' = "retracting"
             /\ journal' = journal \/ journal' = TombstonePlan
    <3>1. journal.agent \in Agent /\ journal.txn \in Txn /\ journal \in Journal
      BY <2>2 DEF Inv, JournalOK, TypeOK, DeviceTypeOK, DrainBatch
    <3>2. /\ journal' \in Journal /\ journal'.agent = journal.agent
          /\ journal'.txn = journal.txn
      BY <2>2, <3>1, TombstonePlanType
    <3> QED
      BY <2>2, <3>1, <3>2 DEF JournalOK
  <2> QED
    BY <2>1, <2>2 DEF HandOff, JournalHolds
<1>4. DeviceTypeOK'
  BY <1>3 DEF HandOff, Inv, TypeOK, DeviceTypeOK, DrainBatch
<1> QED
  BY <1>2, <1>3, <1>4, DrainUndisturbed DEF HandOff, DeviceKeeps

LEMMA ReplayAssignmentKeeps ==
    ASSUME Inv, ReplayAssignment
    PROVE  DeviceKeeps
<1> DEFINE r == RegisterRequest(Replay, journal.agent, journal.inc, journal.txn)
<1>1. /\ journal.agent \in Agent /\ journal.txn \in Txn
      /\ journal.inc \in Incarnation \cup {None}
  BY DEF ReplayAssignment, Inv, JournalOK, TypeOK, DeviceTypeOK, DrainBatch, Journal
<1>2. RequestOK(r) /\ r.from = Replay /\ RequestsOK
  BY <1>1, RegisterRequestOK, DrainIsCaller DEF Inv
<1>3. RequestsOK' /\ call'[Drain] = call[Drain]
  BY <1>2, IssueOK, DrainIsCaller DEF ReplayAssignment
<1>4. DeviceTypeOK' /\ JournalOK'
  BY DEF ReplayAssignment, Inv, TypeOK, DeviceTypeOK, DrainBatch, JournalOK, deviceVars
<1> QED
  BY <1>3, <1>4, DrainUndisturbed DEF ReplayAssignment, DeviceKeeps, deviceVars

LEMMA BindReplayedKeeps ==
    ASSUME Inv, BindReplayed
    PROVE  DeviceKeeps
<1>1. Replay \in Caller /\ Replay # Drain /\ Drain \in Caller /\ RequestsOK
  BY DrainIsCaller DEF Inv
<1>2. RequestsOK' /\ call'[Drain] = call[Drain]
  BY <1>1, HangUpOK DEF BindReplayed
<1>3. call[Replay].req.agent \in Agent /\ call[Replay].gen \in Generation
  BY <1>1 DEF BindReplayed, RequestsOK, CallsOK, Call, RequestOK
<1>4. pub' \in [Agent -> PublicationRecord]
  BY <1>3, BoundType DEF BindReplayed, Inv, TypeOK, DeviceTypeOK, DrainBatch
<1>5. DeviceTypeOK'
  BY <1>4 DEF BindReplayed, Inv, TypeOK, DeviceTypeOK, DrainBatch
<1>6. JournalOK'
  BY DEF BindReplayed, StillAwaited, GuardFree, Inv, JournalOK
<1> QED
  BY <1>2, <1>5, <1>6, DrainUndisturbed DEF BindReplayed, DeviceKeeps

\* A step of the drain leaves the lifecycle's own state alone.
LEMMA DrainStepKeeps ==
    ASSUME Inv, RequestsOK', DrainOK',
           outbox' \in [Agent -> OutboxEntry], pub' \in [Agent -> PublicationRecord],
           drain' \in [on : BOOLEAN, agent : Agent \cup {None}, done : SUBSET Txn],
           UNCHANGED <<booted, guard, local, journal, minted, opened>>
    PROVE  DeviceKeeps
<1>1. DeviceTypeOK'
  BY DEF Inv, TypeOK, DeviceTypeOK, DrainBatch
<1>2. JournalOK'
  BY DEF Inv, JournalOK
<1> QED
  BY <1>1, <1>2 DEF DeviceKeeps

\* The drain's call is over and one entry, or none, was rewritten.
LEMMA EntryEnds ==
    ASSUME Inv, NEW a \in Agent, NEW e \in OutboxEntry,
           e.retry # "reconcile" => e.attempts < MaxAttempts,
           outbox' = [outbox EXCEPT ![a] = e], HangUp(Drain),
           pub' = pub, drain' \in [on : BOOLEAN, agent : Agent \cup {None}, done : SUBSET Txn],
           UNCHANGED <<booted, guard, local, journal, minted, opened>>
    PROVE  DeviceKeeps
<1>1. RequestsOK' /\ call'[Drain].state = "idle"
  BY HangUpOK, DrainIsCaller DEF Inv
<1>2. outbox \in [Agent -> OutboxEntry] /\ pub \in [Agent -> PublicationRecord]
  BY DEF Inv, TypeOK, DeviceTypeOK, DrainBatch
<1>3. outbox' \in [Agent -> OutboxEntry] /\ outbox'[a] = e
      /\ \A b \in Agent \ {a} : outbox'[b] = outbox[b]
  BY <1>2
<1>4. DrainOK'
  BY <1>1, <1>3 DEF Inv, DrainOK
<1> QED
  BY <1>1, <1>2, <1>3, <1>4, DrainStepKeeps

LEMMA BeginDrainKeeps ==
    ASSUME Inv, BeginDrain
    PROVE  DeviceKeeps
<1>1. /\ outbox \in [Agent -> OutboxEntry] /\ pub \in [Agent -> PublicationRecord]
      /\ drain \in [on : BOOLEAN, agent : Agent \cup {None}, done : SUBSET Txn]
  BY DEF Inv, TypeOK, DeviceTypeOK, DrainBatch
<1>2. 0 \in Fence
  BY InventoryAssumption DEF Fence
<1>3. \A a \in Agent : [outbox[a] EXCEPT !.retry = "ready", !.fence = 0] \in OutboxEntry
  BY <1>1, <1>2 DEF OutboxEntry
<1>4. outbox' \in [Agent -> OutboxEntry]
  BY <1>1, <1>3 DEF BeginDrain
<1>5. drain' \in [on : BOOLEAN, agent : Agent \cup {None}, done : SUBSET Txn]
  BY DEF BeginDrain, NoDrain
<1>6. RequestsOK' /\ call' = call /\ call[Drain].state = "idle"
  BY NetUndisturbed DEF BeginDrain, Inv, DrainOK
<1>7. ASSUME NEW a \in Agent, outbox'[a].retry # "reconcile"
      PROVE  outbox'[a].attempts < MaxAttempts
  <2>1. outbox'[a].attempts = outbox[a].attempts
    BY <1>1 DEF BeginDrain, OutboxEntry
  <2>2. outbox[a].retry # "reconcile"
    BY <1>7 DEF BeginDrain
  <2> QED
    BY <2>1, <2>2 DEF Inv, DrainOK
<1>8. DrainOK'
  BY <1>6, <1>7 DEF DrainOK
<1> QED
  BY <1>1, <1>4, <1>5, <1>6, <1>8, DrainStepKeeps DEF BeginDrain

\* The drain's current entry is rewritten, and its next request sent.
LEMMA EntrySent ==
    ASSUME Inv, NEW a \in Agent, NEW e \in OutboxEntry, e.txn # None,
           e.retry = "claimed", e.attempts < MaxAttempts,
           outbox' = [outbox EXCEPT ![a] = e], Issue(DrainRequest(a, e)),
           drain'.on, drain'.agent = a,
           drain' \in [on : BOOLEAN, agent : Agent \cup {None}, done : SUBSET Txn],
           UNCHANGED <<booted, guard, local, pub, journal, minted, opened>>
    PROVE  DeviceKeeps
<1>1. RequestOK(DrainRequest(a, e))
  BY DrainRequestOK
<1>2. RequestsOK'
  BY <1>1, IssueOK DEF Inv
<1>3. outbox \in [Agent -> OutboxEntry] /\ pub \in [Agent -> PublicationRecord]
  BY DEF Inv, TypeOK, DeviceTypeOK, DrainBatch
<1>4. outbox' \in [Agent -> OutboxEntry] /\ outbox'[a] = e
      /\ \A b \in Agent \ {a} : outbox'[b] = outbox[b]
  BY <1>3
<1>5. DrainOK'
  BY <1>4 DEF Inv, DrainOK
<1> QED
  BY <1>2, <1>3, <1>4, <1>5, DrainStepKeeps

LEMMA ClaimNextKeeps ==
    ASSUME Inv, NEW a \in Agent, ClaimNext(a)
    PROVE  DeviceKeeps
<1> DEFINE e == Claimed(outbox[a])
<1>1. /\ outbox[a] \in OutboxEntry /\ outbox \in [Agent -> OutboxEntry]
      /\ drain \in [on : BOOLEAN, agent : Agent \cup {None}, done : SUBSET Txn]
  BY DEF Inv, TypeOK, DeviceTypeOK, DrainBatch
<1>2. outbox[a].next \in Fence /\ outbox[a].next + 1 \in 1..(MaxFence + 1)
  BY <1>1, InventoryAssumption DEF ClaimNext, OutboxEntry, Fence
<1>3. e \in OutboxEntry /\ e.retry = "claimed" /\ e.txn = outbox[a].txn
      /\ e.attempts = outbox[a].attempts
  BY <1>1, <1>2 DEF Claimed, OutboxEntry
<1>4. e.txn # None /\ e.attempts < MaxAttempts /\ outbox[a].txn \in Txn
  BY <1>1, <1>3 DEF ClaimNext, OutboxHolds, Inv, DrainOK, OutboxEntry
<1>5. /\ drain' \in [on : BOOLEAN, agent : Agent \cup {None}, done : SUBSET Txn]
      /\ drain'.on /\ drain'.agent = a
  BY <1>1, <1>4 DEF ClaimNext
<1>6. outbox' = [outbox EXCEPT ![a] = e] /\ Issue(DrainRequest(a, e))
      /\ UNCHANGED <<booted, guard, local, pub, journal, minted, opened>>
  BY DEF ClaimNext
<1> QED
  BY <1>3, <1>4, <1>5, <1>6, EntrySent

LEMMA AdvanceToRevokeKeeps ==
    ASSUME Inv, AdvanceToRevoke
    PROVE  DeviceKeeps
<1> DEFINE a == drain.agent
           e == [outbox[a] EXCEPT !.stage = "revoke", !.attempts = 0]
<1>1. /\ drain.on /\ a \in Agent /\ outbox[a].txn # None /\ outbox[a].retry = "claimed"
  BY DEF AdvanceToRevoke, Inv, DrainOK
<1>2. /\ outbox[a] \in OutboxEntry
      /\ drain \in [on : BOOLEAN, agent : Agent \cup {None}, done : SUBSET Txn]
  BY <1>1 DEF Inv, TypeOK, DeviceTypeOK, DrainBatch
<1>3. 0 \in 0..MaxAttempts /\ 0 < MaxAttempts
  BY LifecycleAssumption
<1>4. e \in OutboxEntry /\ e.txn # None /\ e.retry = "claimed" /\ e.attempts < MaxAttempts
  BY <1>1, <1>2, <1>3 DEF OutboxEntry
<1>5. /\ outbox' = [outbox EXCEPT ![a] = e] /\ Issue(DrainRequest(a, e))
      /\ UNCHANGED <<booted, guard, local, pub, journal, drain, minted, opened>>
  BY DEF AdvanceToRevoke
<1> QED
  BY <1>1, <1>2, <1>4, <1>5, EntrySent

LEMMA RetireLocallyKeeps ==
    ASSUME Inv, RetireLocally
    PROVE  DeviceKeeps
<1>1. Drain \in Caller /\ call \in [Caller -> Call] /\ RequestsOK
  BY DrainIsCaller DEF Inv, RequestsOK, CallsOK
<1>2. call' = [call EXCEPT ![Drain].state = "retired"] /\ inbox' = inbox
      /\ call[Drain].state = "ok"
  BY DEF RetireLocally
<1>3. call' \in [Caller -> Call]
  BY <1>1, <1>2 DEF Call, CallState
<1>4. \A c \in Caller : call'[c].state # "idle" => RequestOK(call'[c].req)
  BY <1>1, <1>2 DEF RequestsOK, CallsOK, Call
<1>5. RequestsOK'
  BY <1>1, <1>2, <1>3, <1>4 DEF RequestsOK, CallsOK
<1>6. /\ outbox \in [Agent -> OutboxEntry] /\ pub \in [Agent -> PublicationRecord]
      /\ drain \in [on : BOOLEAN, agent : Agent \cup {None}, done : SUBSET Txn]
  BY DEF Inv, TypeOK, DeviceTypeOK, DrainBatch
<1>7. pub' \in [Agent -> PublicationRecord]
  <2>1. drain.agent \in Agent
    BY <1>2 DEF Inv, DrainOK
  <2>2. [pub EXCEPT ![drain.agent].st = "retired"] \in [Agent -> PublicationRecord]
    BY <1>6, <2>1 DEF PublicationRecord
  <2> QED
    BY <1>6, <2>2 DEF RetireLocally
<1>8. DrainOK'
  BY <1>2 DEF RetireLocally, Inv, DrainOK
<1> QED
  BY <1>5, <1>6, <1>7, <1>8, DrainStepKeeps DEF RetireLocally

LEMMA CompleteEntryKeeps ==
    ASSUME Inv, CompleteEntry
    PROVE  DeviceKeeps
<1>1. drain.agent \in Agent
  BY DEF CompleteEntry, Inv, DrainOK
<1>2. drain \in [on : BOOLEAN, agent : Agent \cup {None}, done : SUBSET Txn]
  BY DEF Inv, TypeOK, DeviceTypeOK, DrainBatch
<1>3. 0 \in Fence /\ 0 \in Generation /\ 1 \in 1..(MaxFence + 1) /\ 0 \in 0..MaxAttempts
      /\ 0 < MaxAttempts
  BY InventoryAssumption, LifecycleAssumption DEF Fence, Generation
<1>4. NoEntry \in OutboxEntry /\ NoEntry.attempts < MaxAttempts
  BY <1>3 DEF NoEntry, OutboxEntry
<1>5. drain' \in [on : BOOLEAN, agent : Agent \cup {None}, done : SUBSET Txn]
  BY <1>2 DEF CompleteEntry
<1> QED
  BY <1>1, <1>4, <1>5, EntryEnds DEF CompleteEntry

LEMMA RecordFailureKeeps ==
    ASSUME Inv, RecordFailure
    PROVE  DeviceKeeps
<1> DEFINE a == drain.agent
           e == Failed(outbox[a])
<1>1. a \in Agent /\ outbox[a].retry = "claimed"
  BY DEF RecordFailure, Inv, DrainOK
<1>2. /\ drain \in [on : BOOLEAN, agent : Agent \cup {None}, done : SUBSET Txn]
      /\ outbox[a] \in OutboxEntry
  BY <1>1 DEF Inv, TypeOK, DeviceTypeOK, DrainBatch
<1>3. outbox[a].attempts \in Nat /\ outbox[a].attempts < MaxAttempts /\ MaxAttempts \in Nat
  BY <1>1, <1>2, LifecycleAssumption DEF OutboxEntry, Inv, DrainOK
<1>4. 0 \in Fence /\ outbox[a].attempts + 1 \in 0..MaxAttempts
  BY <1>3, InventoryAssumption DEF Fence
<1>5. e \in OutboxEntry /\ e.attempts = outbox[a].attempts + 1
      /\ e.retry = IF outbox[a].attempts + 1 = MaxAttempts THEN "reconcile" ELSE "ready"
  BY <1>2, <1>4 DEF Failed, OutboxEntry
<1>6. e.retry # "reconcile" => e.attempts < MaxAttempts
  BY <1>3, <1>5
<1>7. drain' \in [on : BOOLEAN, agent : Agent \cup {None}, done : SUBSET Txn]
  BY <1>2 DEF RecordFailure
<1>8. outbox' = [outbox EXCEPT ![a] = e]
  BY DEF RecordFailure
<1> QED
  BY <1>1, <1>5, <1>6, <1>7, <1>8, EntryEnds DEF RecordFailure

LEMMA EndDrainKeeps ==
    ASSUME Inv, EndDrain
    PROVE  DeviceKeeps
<1>1. RequestsOK' /\ call'[Drain].state = "idle"
  BY HangUpOK, DrainIsCaller DEF EndDrain, Inv
<1>2. outbox \in [Agent -> OutboxEntry] /\ pub \in [Agent -> PublicationRecord]
  BY DEF Inv, TypeOK, DeviceTypeOK, DrainBatch
<1>3. drain' \in [on : BOOLEAN, agent : Agent \cup {None}, done : SUBSET Txn]
  BY DEF EndDrain, NoDrain
<1>4. DrainOK'
  BY <1>1 DEF EndDrain, Inv, DrainOK
<1> QED
  BY <1>1, <1>2, <1>3, <1>4, DrainStepKeeps DEF EndDrain

LEMMA ReconcileRetryKeeps ==
    ASSUME Inv, NEW a \in Agent, ReconcileRetry(a)
    PROVE  DeviceKeeps
<1>1. RequestsOK' /\ call' = call
  BY NetUndisturbed DEF ReconcileRetry
<1>2. /\ outbox \in [Agent -> OutboxEntry] /\ pub \in [Agent -> PublicationRecord]
      /\ drain \in [on : BOOLEAN, agent : Agent \cup {None}, done : SUBSET Txn]
  BY DEF Inv, TypeOK, DeviceTypeOK, DrainBatch
<1>3. 0 \in 0..MaxAttempts /\ 0 < MaxAttempts
  BY LifecycleAssumption
<1>4. outbox' = [outbox EXCEPT ![a] = [outbox[a] EXCEPT !.retry = "ready", !.attempts = 0]]
  BY <1>2 DEF ReconcileRetry
<1>5. /\ outbox' \in [Agent -> OutboxEntry] /\ outbox'[a].attempts = 0
      /\ \A b \in Agent \ {a} : outbox'[b] = outbox[b]
  BY <1>2, <1>3, <1>4 DEF OutboxEntry
<1>6. DrainOK'
  BY <1>1, <1>3, <1>5 DEF ReconcileRetry, Inv, DrainOK
<1> QED
  BY <1>1, <1>2, <1>5, <1>6, DrainStepKeeps DEF ReconcileRetry

LEMMA DeviceCrashKeeps ==
    ASSUME Inv, DeviceCrash
    PROVE  DeviceKeeps
<1>1. RequestsOK' /\ call'[Drain].state = "idle"
  BY IdleCallType, DrainIsCaller DEF DeviceCrash, Inv, RequestsOK, CallsOK, RequestOK, IdleCall
<1>2. DrainOK'
  BY <1>1 DEF DeviceCrash, Inv, DrainOK
<1>3. drain' \in [on : BOOLEAN, agent : Agent \cup {None}, done : SUBSET Txn]
  BY DEF DeviceCrash, NoDrain
<1>4. DeviceTypeOK'
  BY <1>3 DEF DeviceCrash, Inv, TypeOK, DeviceTypeOK, DrainBatch
<1>5. JournalOK'
  BY DEF DeviceCrash, Inv, JournalOK
<1> QED
  BY <1>1, <1>2, <1>4, <1>5 DEF DeviceKeeps

\* Every step of the device.
LEMMA DeviceStep ==
    ASSUME Inv, DeviceNext
    PROVE  DeviceKeeps
<1>1. ASSUME NEW w \in Worker, ActivateRefused(w) PROVE DeviceKeeps
  BY <1>1, HangUpKeeps DEF ActivateRefused
<1>2. ASSUME NEW c \in Worker \cup {Replay}, Abandon(c) PROVE DeviceKeeps
  BY <1>2, HangUpKeeps DEF Abandon
<1> QED
  BY <1>1, <1>2, StartAgentKeeps, BeginRegistrationKeeps, RecordWriteKeeps, ActivateKeeps,
     MarkPublishedKeeps, BeginRetractionKeeps, JournalStepKeeps, EnqueueKeeps,
     HandOffKeeps, ReplayAssignmentKeeps, BindReplayedKeeps, BeginDrainKeeps,
     ClaimNextKeeps, AdvanceToRevokeKeeps, RetireLocallyKeeps, CompleteEntryKeeps,
     RecordFailureKeeps, EndDrainKeeps, ReconcileRetryKeeps, DeviceCrashKeeps
     DEF DeviceNext

-----------------------------------------------------------------------------
(* The invariant.                                                          *)

LEMMA InvStep == Inv /\ [Next]_vars => Inv'
<1> SUFFICES ASSUME Inv, [Next]_vars PROVE Inv'
  OBVIOUS
<1>1. CASE HubNext /\ UNCHANGED deviceVars
  <2>1. HubKeeps
    BY <1>1, HubStep
  <2>2. DeviceTypeOK' /\ JournalOK'
    BY <1>1 DEF deviceVars, Inv, TypeOK, DeviceTypeOK, DrainBatch, JournalOK
  <2>3. DrainOK'
    BY <1>1, <2>1, DrainIsCaller DEF deviceVars, HubKeeps, Inv, DrainOK
  <2> QED
    BY <2>1, <2>2, <2>3 DEF HubKeeps, Inv, TypeOK
<1>2. CASE DeviceNext /\ UNCHANGED hubVars
  <2>1. DeviceKeeps
    BY <1>2, DeviceStep
  <2>2. inbox' \in SUBSET Request /\ call' \in [Caller -> Call]
    BY <2>1 DEF DeviceKeeps, RequestsOK, RequestOK, CallsOK
  <2>3. InventoryTypeOK'
    BY <1>2, <2>2 DEF hubVars, Inv, TypeOK, InventoryTypeOK, CatalogRow, HubCall, Call
  <2>4. PreparedOK'
    BY <1>2 DEF hubVars, Inv, PreparedOK, Appliable
  <2> QED
    BY <2>1, <2>3, <2>4 DEF DeviceKeeps, Inv, TypeOK
<1>3. CASE UNCHANGED vars
  <2>1. UNCHANGED hubVars /\ UNCHANGED netVars /\ UNCHANGED deviceVars
    BY <1>3 DEF vars
  <2>2. TypeOK'
    BY <2>1 DEF hubVars, netVars, deviceVars, Inv, TypeOK, InventoryTypeOK, CatalogRow, HubCall, DeviceTypeOK, DrainBatch
  <2>3. RequestsOK' /\ DrainOK' /\ JournalOK' /\ PreparedOK'
    BY <2>1 DEF hubVars, netVars, deviceVars, Inv, RequestsOK, CallsOK, RequestOK,
                DrainOK, JournalOK, PreparedOK, Appliable
  <2> QED
    BY <2>2, <2>3 DEF Inv
<1> QED
  BY <1>1, <1>2, <1>3 DEF Next

LEMMA Invariant == Spec => []Inv
BY InitInv, InvStep, PTL DEF Spec

\* Every variable keeps its type, whatever is lost, repeated or interrupted.
THEOREM HostedAgentTypeCorrect == Spec => []TypeOK
<1>1. Inv => TypeOK
  BY DEF Inv
<1> QED
  BY <1>1, Invariant, PTL

\* A hub that crashed with prepared revokes can apply each of them, so its
\* boot, which ends the process when recover_prepared_revokes fails, goes on.
THEOREM PreparedRevokesRecover == Spec => []RecoveryNeverWedges
<1>1. Inv => RecoveryNeverWedges
  BY DEF Inv, PreparedOK, RecoveryNeverWedges
<1> QED
  BY <1>1, Invariant, PTL

-----------------------------------------------------------------------------
(* What a revoke does.                                                     *)

\* A step that leaves the hub's records and transactions as they are.
LEMMA QuietStep ==
    ASSUME Inv, record' = record, txns' = txns
    PROVE  (\A a \in Agent : RecordStep(a)) /\ (\A t \in Txn : TransactionStep(t))
<1>1. /\ \A a \in Agent : record[a].gen \in Nat
      /\ \A t \in Txn : txns[t].fence \in Nat
  BY DEF Inv, TypeOK, InventoryTypeOK, CatalogRow, HubCall, InventoryRecord, RevokeTransaction, Generation, Fence
<1> QED
  BY <1>1 DEF RecordStep, TransactionStep

\* Applying a transaction that was not applied retires exactly what it names.
LEMMA ApplyIsExact ==
    ASSUME Inv, NEW t \in Txn, NEW x \in RevokeTransaction, x.agent \in Agent,
           Apply(t, x), txns[t].state # "applied",
           txns[t].state # "absent" =>
             /\ x.agent = txns[t].agent /\ x.gen = txns[t].gen /\ x.inc = txns[t].inc
             /\ x.fence >= txns[t].fence
    PROVE  (\A a \in Agent : RecordStep(a)) /\ (\A u \in Txn : TransactionStep(u))
<1> DEFINE y == [x EXCEPT !.state = "applied", !.outcome = DispositionOf(x)]
<1>1. /\ record \in [Agent -> InventoryRecord] /\ txns \in [Txn -> RevokeTransaction]
  BY DEF Inv, TypeOK, InventoryTypeOK, CatalogRow, HubCall
<1>2. /\ \A a \in Agent : record[a].gen \in Nat
      /\ \A u \in Txn : txns[u].fence \in Nat
      /\ x.gen \in Nat
  BY <1>1 DEF InventoryRecord, RevokeTransaction, Generation, Fence
<1>3. /\ y.agent = x.agent /\ y.gen = x.gen /\ y.inc = x.inc /\ y.fence = x.fence
      /\ y.outcome = DispositionOf(x)
  BY DEF RevokeTransaction
<1>4. txns'[t] = y /\ \A u \in Txn \ {t} : txns'[u] = txns[u]
  BY <1>1 DEF Apply
<1>5. ASSUME NEW a \in Agent PROVE RecordStep(a)
  <2>1. CASE DispositionOf(x) = "retired" /\ a = x.agent
    <3>1. record'[a].gen = record[a].gen
      BY <1>1, <2>1 DEF Apply, InventoryRecord
    <3>2. record[a].gen = x.gen /\ record[a].inc = x.inc
      <4>1. ~ (record[a].gen > x.gen) /\ record[a].gen >= x.gen
            /\ (record[a].gen = x.gen => record[a].inc = x.inc)
        BY <2>1 DEF Apply, Appliable, DispositionOf
      <4> QED
        BY <1>2, <4>1
    <3>3. record'[a].gen >= record[a].gen
      BY <1>2, <3>1
    <3>4. /\ txns[t].state # "applied" /\ txns'[t].outcome = "retired"
          /\ txns'[t].agent = a
          /\ txns'[t].gen = record[a].gen /\ txns'[t].inc = record[a].inc
      BY <1>3, <1>4, <2>1, <3>2
    <3> QED
      BY <3>3, <3>4, Zenon DEF RecordStep
  <2>2. CASE ~ (DispositionOf(x) = "retired" /\ a = x.agent)
    <3>1. record'[a] = record[a]
      BY <1>1, <2>2 DEF Apply
    <3> QED
      BY <1>2, <3>1 DEF RecordStep
  <2> QED
    BY <2>1, <2>2
<1>6. ASSUME NEW u \in Txn PROVE TransactionStep(u)
  <2>1. CASE u = t
    BY <1>3, <1>4, <2>1 DEF TransactionStep
  <2>2. CASE u # t
    BY <1>2, <1>4, <2>2 DEF TransactionStep
  <2> QED
    BY <2>1, <2>2
<1> QED
  BY <1>5, <1>6

\* A revoke's preparation keeps what the transaction was bound to.
LEMMA PreparedByIsBound ==
    ASSUME Inv, NEW r \in inbox, r.kind = "revoke", Preparable(r)
    PROVE  /\ txns[r.txn].state # "applied"
           /\ txns[r.txn].state # "absent" =>
                /\ PreparedBy(r).agent = txns[r.txn].agent
                /\ PreparedBy(r).gen = txns[r.txn].gen
                /\ PreparedBy(r).inc = txns[r.txn].inc
                /\ PreparedBy(r).fence >= txns[r.txn].fence
BY DEF Preparable, SameRevoke, PreparedBy, Transaction

\* Writing one transaction without touching the records.
LEMMA WriteIsExact ==
    ASSUME Inv, NEW t \in Txn, NEW x, record' = record, txns' = [txns EXCEPT ![t] = x],
           txns[t].state # "absent" =>
             /\ x.agent = txns[t].agent /\ x.gen = txns[t].gen /\ x.inc = txns[t].inc
             /\ x.fence >= txns[t].fence
             /\ txns[t].state = "applied" =>
                  x.state = "applied" /\ x.outcome = txns[t].outcome
    PROVE  (\A a \in Agent : RecordStep(a)) /\ (\A u \in Txn : TransactionStep(u))
<1>1. /\ \A a \in Agent : record[a].gen \in Nat
      /\ \A u \in Txn : txns[u].fence \in Nat
  BY DEF Inv, TypeOK, InventoryTypeOK, CatalogRow, HubCall, InventoryRecord, RevokeTransaction, Generation, Fence
<1>2. txns'[t] = x /\ \A u \in Txn \ {t} : txns'[u] = txns[u]
  BY DEF Inv, TypeOK, InventoryTypeOK, CatalogRow, HubCall
<1>3. \A a \in Agent : RecordStep(a)
  BY <1>1 DEF RecordStep
<1>4. ASSUME NEW u \in Txn PROVE TransactionStep(u)
  <2>1. CASE u = t
    BY <1>2, <2>1 DEF TransactionStep
  <2>2. CASE u # t
    BY <1>1, <1>2, <2>2 DEF TransactionStep
  <2> QED
    BY <2>1, <2>2
<1> QED
  BY <1>3, <1>4

LEMMA RegisterIsExact ==
    ASSUME Inv, NEW r \in inbox, Register(r)
    PROVE  (\A a \in Agent : RecordStep(a)) /\ (\A t \in Txn : TransactionStep(t))
<1>1. r.agent \in Agent /\ record \in [Agent -> InventoryRecord] /\ txns' = txns
  BY DEF Register, Inv, RequestsOK, RequestOK, TypeOK, InventoryTypeOK, CatalogRow, HubCall
<1>2. /\ \A a \in Agent : record[a].gen \in Nat
      /\ \A t \in Txn : txns[t].fence \in Nat
  BY DEF Inv, TypeOK, InventoryTypeOK, CatalogRow, HubCall, InventoryRecord, RevokeTransaction, Generation, Fence
<1>3. AssignedGeneration(record[r.agent]) >= record[r.agent].gen
  BY <1>1, <1>2 DEF AssignedGeneration
<1>4. /\ record'[r.agent].life = "active"
      /\ record'[r.agent].gen = AssignedGeneration(record[r.agent])
      /\ \A a \in Agent \ {r.agent} : record'[a] = record[a]
  BY <1>1 DEF Register
<1>5. \A a \in Agent : RecordStep(a)
  BY <1>2, <1>3, <1>4 DEF RecordStep
<1>6. \A t \in Txn : TransactionStep(t)
  BY <1>1, <1>2 DEF TransactionStep
<1> QED
  BY <1>5, <1>6

LEMMA RevokeStep ==
    ASSUME Inv, [Next]_vars
    PROVE  (\A a \in Agent : RecordStep(a)) /\ (\A t \in Txn : TransactionStep(t))
<1> DEFINE Exact == (\A a \in Agent : RecordStep(a)) /\ (\A t \in Txn : TransactionStep(t))
<1>1. ASSUME NEW r \in inbox, RegisterAgent(r) \/ RegisterUnbound(r) PROVE Exact
  BY <1>1, RegisterIsExact DEF RegisterAgent, RegisterUnbound
<1>2. ASSUME NEW r \in inbox, RevokeAgent(r) \/ RevokeUnreported(r) PROVE Exact
  <2>1. r.kind = "revoke" /\ Preparable(r) /\ Apply(r.txn, PreparedBy(r))
    BY <1>2 DEF RevokeAgent, RevokeUnreported, Takes
  <2>2. r.txn \in Txn /\ PreparedBy(r) \in RevokeTransaction /\ PreparedBy(r).agent \in Agent
    BY <2>1, PreparedByOK
  <2> QED
    BY <2>1, <2>2, PreparedByIsBound, ApplyIsExact
<1>3. ASSUME NEW r \in inbox, RevokePrepared(r) PROVE Exact
  <2>1. /\ r.kind = "revoke" /\ Preparable(r) /\ record' = record
        /\ txns' = [txns EXCEPT ![r.txn] = PreparedBy(r)]
    BY <1>3 DEF RevokePrepared, Takes
  <2>2. r.txn \in Txn
    BY <2>1, PreparedByOK
  <2> QED
    BY <2>1, <2>2, PreparedByIsBound, WriteIsExact
<1>4. ASSUME NEW r \in inbox, RevokeSuperseded(r) PROVE Exact
  <2>1. r.txn \in Txn
    BY <1>4 DEF RevokeSuperseded, Takes, Inv, RequestsOK, RequestOK
  <2> QED
    BY <1>4, <2>1, WriteIsExact DEF RevokeSuperseded
<1>5. ASSUME NEW r \in inbox, RevokeReplayed(r) PROVE Exact
  <2> DEFINE x == [txns[r.txn] EXCEPT !.fence = r.fence]
  <2>1. r.txn \in Txn /\ txns[r.txn] \in RevokeTransaction
    BY <1>5 DEF RevokeReplayed, Takes, Inv, RequestsOK, RequestOK, TypeOK, InventoryTypeOK, CatalogRow, HubCall
  <2>2. txns' = [txns EXCEPT ![r.txn] = x] /\ record' = record /\ r.fence >= txns[r.txn].fence
    BY <1>5, <2>1 DEF RevokeReplayed, SameRevoke, Inv, TypeOK, InventoryTypeOK, CatalogRow, HubCall
  <2>3. /\ x.agent = txns[r.txn].agent /\ x.gen = txns[r.txn].gen /\ x.inc = txns[r.txn].inc
        /\ x.state = txns[r.txn].state /\ x.outcome = txns[r.txn].outcome
        /\ x.fence = r.fence
    BY <2>1 DEF RevokeTransaction
  <2>4. txns[r.txn].state = "applied"
    BY <1>5 DEF RevokeReplayed
  <2> HIDE DEF x
  <2> QED
    BY <2>1, <2>2, <2>3, <2>4, WriteIsExact
<1>6. ASSUME NEW t \in Txn, RecoverRevoke(t) PROVE Exact
  <2>1. /\ txns[t].state = "prepared" /\ Apply(t, txns[t])
        /\ txns[t] \in RevokeTransaction /\ txns[t].agent \in Agent
        /\ txns[t].fence \in Nat
    BY <1>6 DEF RecoverRevoke, Inv, PreparedOK, TypeOK, InventoryTypeOK, CatalogRow, HubCall,
                RevokeTransaction, Fence
  <2> QED
    BY <2>1, ApplyIsExact
<1>7. ASSUME record' = record, txns' = txns PROVE Exact
  BY <1>7, QuietStep
<1>8. CASE HubNext
  <2>1. ASSUME NEW r \in inbox,
               \/ RequestLost(r) \/ RegisterRefused(r) \/ PublishProjection(r)
               \/ ProjectionRefused(r) \/ RevokeRefused(r)
        PROVE  record' = record /\ txns' = txns
    BY <2>1 DEF RequestLost, RegisterRefused, PublishProjection, ProjectionRefused,
                RevokeRefused, hubVars
  <2>2. ASSUME HubCrash \/ HydrateDirectory \/ \E a \in Agent : RevokeImmediate(a)
        PROVE  record' = record /\ txns' = txns
    BY <2>2 DEF HubCrash, HydrateDirectory, RevokeImmediate
  <2> QED
    BY <1>1, <1>2, <1>3, <1>4, <1>5, <1>6, <1>7, <1>8, <2>1, <2>2 DEF HubNext
<1>9. CASE UNCHANGED hubVars
  BY <1>7, <1>9 DEF hubVars
<1> QED
  BY <1>8, <1>9 DEF Next, vars

\* Through crashes, repeated, delayed and overtaken deliveries: generations
\* never go back, an active agent is retired only by a transaction bound to
\* its generation and its incarnation, and no transaction changes what it is
\* bound to or, once applied, its outcome.
THEOREM RevokeExact == Spec => RevokeIsExact
<1>1. Inv /\ [Next]_vars =>
        [(\A a \in Agent : RecordStep(a)) /\ (\A t \in Txn : TransactionStep(t))]_vars
  BY RevokeStep
<1> QED
  BY <1>1, Invariant, PTL DEF Spec, RevokeIsExact

-----------------------------------------------------------------------------
(***************************************************************************)
(* The device and the hub agree.  The four invariants that relate the      *)
(* device's files to the hub's are not inductive: a late revoke, a revoke  *)
(* that stayed prepared and a late answer to a registration all act on     *)
(* what they were sent for.  The invariant says what each of them can      *)
(* still do.                                                               *)
(***************************************************************************)
\* The hub has given generation g of the agent up.
Gone(a, g) ==
    \/ record[a].gen > g
    \/ record[a].gen = g /\ record[a].life = "retired"

\* ... and routes to none of its rows.
Settled(a, g) == Gone(a, g) /\ advertised[a] # g /\ catalog[a].gen # g

\* The hub may still be made to retire generation g.
Source(a, g) ==
    \/ \E r \in inbox : r.kind = "revoke" /\ r.agent = a /\ r.gen = g
    \/ \E t \in Txn : txns[t].state = "prepared" /\ txns[t].agent = a /\ txns[t].gen = g

HoldsGen(a, g) == OutboxHolds(a) /\ outbox[a].gen = g

ActiveAs(a, g, i) == record[a] = [life |-> "active", gen |-> g, inc |-> i]

HasGeneration(p) == p.st \in {"assigned", "published", "retired"}

TokensMinted ==
    /\ \A a \in Agent : pub[a].st # "none" => pub[a].inc \in minted
    /\ \A a \in Agent : record[a].inc \in minted \cup {None}
    /\ \A r \in inbox : r.kind = "register" => r.inc \in minted
    /\ \A c \in Caller : call[c].state # "idle" /\ call[c].req.kind = "register" =>
         call[c].req.inc \in minted

\* The drain's call is about the entry it works on.
DrainCallOK ==
    call[Drain].state # "idle" =>
        /\ call[Drain].req.agent = drain.agent
        /\ call[Drain].req.gen = outbox[drain.agent].gen
        /\ call[Drain].req.kind # "register"

\* The replay only ever repeats registrations.
ReplayRegisters == call[Replay].state # "idle" => call[Replay].req.kind = "register"

\* A retraction past its plan is of the generation the device has bound, or
\* of one the hub gave up before the device drew its present token.
Retracts(a, g) ==
    /\ g # 0 /\ g <= record[a].gen
    /\ \/ HasGeneration(pub[a]) /\ pub[a].gen = g
       \/ /\ Gone(a, g)
          /\ pub[a].st = "pending" \/ (HasGeneration(pub[a]) /\ pub[a].gen > g)

RetractionIsBound ==
    /\ \A a \in Agent : OutboxHolds(a) => Retracts(a, outbox[a].gen)
    /\ journal.stage = "tombstonePrepared" /\ journal.gen # 0 =>
         Retracts(journal.agent, journal.gen)

BoundIsKnown == \A a \in Agent : HasGeneration(pub[a]) => pub[a].gen <= record[a].gen

BoundIsActive ==
    \A a \in Agent : Assigned(pub[a]) /\ ~ HoldsGen(a, pub[a].gen) =>
        ActiveAs(a, pub[a].gen, pub[a].inc)

PendingIsActive ==
    \A a \in Agent : pub[a].st = "pending" /\ record[a].inc = pub[a].inc =>
        record[a].life = "active"

AnswerIsActive ==
    \A c \in Caller : call[c].state = "ok" /\ call[c].req.kind = "register" =>
        LET a == call[c].req.agent IN
        pub[a].st = "pending" /\ pub[a].inc = call[c].req.inc =>
            ActiveAs(a, call[c].gen, pub[a].inc)

RevokesAreAsked ==
    \A a \in Agent, g \in Generation : Source(a, g) =>
        Gone(a, g) \/ (record[a].gen = g /\ HoldsGen(a, g))

RevokesNameGeneration == \A r \in inbox : r.kind = "revoke" => r.gen # 0

AppliedIsGone ==
    \A t \in Txn : txns[t].state = "applied" /\ txns[t].outcome # "superseded" =>
        txns[t].agent \in Agent /\ Gone(txns[t].agent, txns[t].gen)

\* The device holds no assignment of generation g.
Released(a, g) == ~ (Assigned(pub[a]) /\ pub[a].gen = g)

DrainIsSettled ==
    /\ call[Drain].state = "ok" /\ call[Drain].req.kind = "revoke" =>
         Settled(call[Drain].req.agent, call[Drain].req.gen)
    /\ call[Drain].state = "retired" =>
         /\ Settled(call[Drain].req.agent, call[Drain].req.gen)
         /\ Released(call[Drain].req.agent, call[Drain].req.gen)

LifeInv ==
    /\ TokensMinted /\ DrainCallOK /\ ReplayRegisters /\ RetractionIsBound
    /\ BoundIsKnown /\ BoundIsActive
    /\ PendingIsActive /\ AnswerIsActive /\ RevokesAreAsked /\ RevokesNameGeneration
    /\ AppliedIsGone /\ DrainIsSettled /\ RetiredIsRevoked /\ RetirementIsAsked /\ DirectoryIsBacked

\* What a step of the hub may do to a record, a transaction, a call and the rows.
RecordMoves(a) ==
    \/ record'[a] = record[a]
    \/ /\ record[a].life # "active" /\ record'[a].life = "active"
       /\ record'[a].gen = record[a].gen + 1 /\ record'[a].inc \in minted
    \/ /\ record[a].life = "active" /\ record'[a].life = "retired"
       /\ record'[a].gen = record[a].gen /\ record'[a].inc = record[a].inc
       /\ Source(a, record[a].gen)

TransactionMoves(t) ==
    txns'[t].state = "applied" /\ txns'[t].outcome # "superseded" =>
        \/ /\ txns[t].state = "applied" /\ txns[t].outcome # "superseded"
           /\ txns'[t].agent = txns[t].agent /\ txns'[t].gen = txns[t].gen
        \/ txns'[t].agent \in Agent /\ Gone(txns[t].agent, txns[t].gen)'

AnswerMoves(c) ==
    \/ call'[c] = call[c]
    \/ /\ call[c].state = "waiting" /\ call'[c].req = call[c].req
       /\ call'[c].state \in {"ok", "refused", "superseded"}
       /\ call'[c].state = "ok" /\ call[c].req.kind = "register" =>
            ActiveAs(call[c].req.agent, call[c].gen, call[c].req.inc)'
       /\ call'[c].state = "ok" /\ call[c].req.kind = "revoke" =>
            Settled(call[c].req.agent, call[c].req.gen)'

RowMoves(a) ==
    \A g \in {advertised'[a], catalog'[a].gen} \ {0} :
        g \in {advertised[a], catalog[a].gen} \/ (record'[a].life = "active" /\ record'[a].gen = g)

HubMoves ==
    /\ inbox' \subseteq inbox
    /\ \A a \in Agent : RecordMoves(a)
    /\ \A a \in Agent : RowMoves(a)
    /\ \A t \in Txn : TransactionMoves(t)
    /\ \A c \in Caller : AnswerMoves(c)
    /\ \A a \in Agent, g \in Generation : Source(a, g)' => Source(a, g)

\* What a step of the device may do to a publication record, an outbox entry,
\* the journal, the wire and a call.
EntryStays(a) == outbox'[a].txn = outbox[a].txn /\ outbox'[a].gen = outbox[a].gen

PubMoves(a) ==
    \/ pub'[a] = pub[a]
    \/ /\ pub[a].st \in {"none", "retired"}
       /\ pub'[a].st = "pending" /\ pub'[a].inc \in minted' \ minted
    \/ /\ pub[a].st = "pending" /\ pub'[a].st = "assigned" /\ pub'[a].inc = pub[a].inc
       /\ ActiveAs(a, pub'[a].gen, pub[a].inc)
    \/ /\ Assigned(pub[a]) /\ Assigned(pub'[a])
       /\ pub'[a].gen = pub[a].gen /\ pub'[a].inc = pub[a].inc
    \/ /\ HasGeneration(pub[a]) /\ pub'[a].st = "retired"
       /\ pub'[a].gen = pub[a].gen /\ pub'[a].inc = pub[a].inc
       /\ OutboxHolds(a) /\ Gone(a, pub[a].gen)

OutboxMoves(a) ==
    \/ EntryStays(a)
    \/ /\ ~ OutboxHolds(a)
       /\ Retracts(a, outbox'[a].gen) /\ pub'[a] = pub[a]
    \/ /\ outbox'[a].txn = None
       /\ Released(a, outbox[a].gen) /\ pub'[a] = pub[a] /\ Settled(a, outbox[a].gen)

JournalMoves ==
    journal'.stage = "tombstonePrepared" /\ journal'.gen # 0 =>
        \/ journal' = journal
        \/ Retracts(journal'.agent, journal'.gen) /\ pub' = pub

WireMoves ==
    \A r \in inbox' \ inbox :
        /\ r.kind = "register" => r.inc \in minted'
        /\ r.kind = "revoke" => r.agent \in Agent /\ HoldsGen(r.agent, r.gen) /\ EntryStays(r.agent)

CallMoves(c) ==
    \/ call'[c] = call[c]
    \/ call'[c].state = "idle"
    \/ /\ call'[c].state \in {"waiting", "handoff", "retired"}
       /\ call'[c].req.kind = "register" => call'[c].req.inc \in minted'

DrainMoves ==
    call'[Drain].state # "idle" =>
        \/ /\ call'[Drain] = call[Drain] /\ drain'.agent = drain.agent
           /\ EntryStays(drain.agent)
        \/ /\ call'[Drain].state = "waiting"
           /\ call'[Drain].req.agent = drain'.agent
           /\ call'[Drain].req.gen = outbox'[drain'.agent].gen
           /\ call'[Drain].req.kind # "register"
        \/ /\ call[Drain].state = "ok" /\ call[Drain].req.kind = "revoke"
           /\ call'[Drain].state = "retired" /\ call'[Drain].req = call[Drain].req
           /\ drain' = drain /\ outbox' = outbox
           /\ pub'[drain.agent].st = "retired"

ReplayMoves ==
    call'[Replay].state # "idle" =>
        call'[Replay] = call[Replay] \/ call'[Replay].req.kind = "register"

CallsMove == WireMoves /\ DrainMoves /\ ReplayMoves /\ \A c \in Caller : CallMoves(c)

DeviceMoves ==
    /\ minted \subseteq minted'
    /\ \A a \in Agent : PubMoves(a)
    /\ \A a \in Agent : OutboxMoves(a)
    /\ JournalMoves
    /\ CallsMove

-----------------------------------------------------------------------------
(* The steps, as far as the device's and the hub's views go.               *)

LEMMA InvTypes ==
    ASSUME Inv
    PROVE  /\ \A a \in Agent :
                /\ record[a] \in InventoryRecord /\ record[a].gen \in Nat
                /\ record[a].gen \in Generation
                /\ pub[a] \in PublicationRecord /\ pub[a].gen \in Generation
                /\ outbox[a].gen \in Generation
                /\ advertised[a] \in Generation /\ catalog[a].gen \in Generation
           /\ \A t \in Txn : txns[t] \in RevokeTransaction
           /\ \A c \in Caller : call[c] \in Call /\ call[c].req.gen \in Generation
           /\ Generation \subseteq Nat
           /\ journal \in Journal
<1> USE InventoryAssumption
<1>1. Generation \subseteq Nat BY DEF Generation
<1>2. \A a \in Agent : record[a] \in InventoryRecord /\ pub[a] \in PublicationRecord
                       /\ outbox[a] \in OutboxEntry /\ advertised[a] \in Generation
                       /\ catalog[a] \in [gen : Generation, rev : 0..2]
  BY DEF Inv, TypeOK, InventoryTypeOK, CatalogRow, HubCall, DeviceTypeOK, DrainBatch
<1>3. \A t \in Txn : txns[t] \in RevokeTransaction BY DEF Inv, TypeOK, InventoryTypeOK, CatalogRow, HubCall
<1>4. \A c \in Caller : call[c] \in Call BY DEF Inv, TypeOK, InventoryTypeOK, CatalogRow, HubCall, Call
<1>5. \A c \in Caller : call[c].req.gen \in Generation BY <1>4 DEF Call, Request
<1>6. journal \in Journal BY DEF Inv, TypeOK, DeviceTypeOK, DrainBatch
<1> QED
  BY <1>1, <1>2, <1>3, <1>4, <1>5, <1>6 DEF InventoryRecord, PublicationRecord, OutboxEntry

\* A generation that is given up stays so; one in force is given up only for
\* the entry of the outbox that asked for it.
LEMMA RecordMovesOn ==
    ASSUME Inv, LifeInv, NEW a \in Agent, RecordMoves(a)
    PROVE  /\ \A g \in Generation : Gone(a, g) => Gone(a, g)'
           /\ record'[a].gen >= record[a].gen
           /\ \/ record'[a] = record[a]
              \/ /\ record[a].life # "active" /\ record'[a].life = "active"
                 /\ record'[a].gen = record[a].gen + 1 /\ record'[a].inc \in minted
              \/ /\ record[a].life = "active" /\ record'[a].life = "retired"
                 /\ record'[a].gen = record[a].gen /\ record'[a].inc = record[a].inc
                 /\ HoldsGen(a, record[a].gen)
<1>1. record[a].gen \in Nat /\ record[a].gen \in Generation /\ Generation \subseteq Nat
  BY InvTypes
<1>2. CASE record'[a] = record[a] BY <1>1, <1>2 DEF Gone
<1>3. CASE /\ record[a].life # "active" /\ record'[a].life = "active"
           /\ record'[a].gen = record[a].gen + 1 /\ record'[a].inc \in minted
  BY <1>1, <1>3 DEF Gone
<1>4. CASE /\ record[a].life = "active" /\ record'[a].life = "retired"
           /\ record'[a].gen = record[a].gen /\ record'[a].inc = record[a].inc
           /\ Source(a, record[a].gen)
  <2>1. ~ Gone(a, record[a].gen) BY <1>1, <1>4 DEF Gone
  <2>2. HoldsGen(a, record[a].gen)
    BY <1>1, <1>4, <2>1 DEF LifeInv, RevokesAreAsked
  <2> QED BY <1>1, <1>4, <2>2 DEF Gone
<1> QED BY <1>2, <1>3, <1>4 DEF RecordMoves

\* The drain's entry has a generation.
LEMMA DrainHoldsEntry ==
    ASSUME Inv, LifeInv, call[Drain].state # "idle"
    PROVE  /\ drain.agent \in Agent /\ OutboxHolds(drain.agent)
           /\ call[Drain].req.agent = drain.agent
           /\ HoldsGen(drain.agent, call[Drain].req.gen)
           /\ call[Drain].req.gen # 0 /\ call[Drain].req.gen \in Generation
           /\ Retracts(drain.agent, call[Drain].req.gen)
<1>1. drain.agent \in Agent /\ OutboxHolds(drain.agent) BY DEF Inv, DrainOK, OutboxHolds
<1>2. /\ call[Drain].req.agent = drain.agent
      /\ call[Drain].req.gen = outbox[drain.agent].gen
  BY DEF LifeInv, DrainCallOK
<1>3. Retracts(drain.agent, outbox[drain.agent].gen) /\ outbox[drain.agent].gen # 0
  BY <1>1 DEF LifeInv, RetractionIsBound, Retracts
<1>4. outbox[drain.agent].gen \in Generation BY <1>1, InvTypes
<1> QED BY <1>1, <1>2, <1>3, <1>4 DEF HoldsGen

LEMMA HubKeepsLife ==
    ASSUME Inv, LifeInv, HubMoves, UNCHANGED deviceVars
    PROVE  LifeInv'
<1> USE DEF deviceVars
<1>0. UNCHANGED <<pub, journal, outbox, drain, minted>> OBVIOUS
<1>1. \A a \in Agent :
        /\ \A g \in Generation : Gone(a, g) => Gone(a, g)'
        /\ record'[a].gen >= record[a].gen
        /\ \/ record'[a] = record[a]
           \/ /\ record[a].life # "active" /\ record'[a].life = "active"
              /\ record'[a].gen = record[a].gen + 1 /\ record'[a].inc \in minted
           \/ /\ record[a].life = "active" /\ record'[a].life = "retired"
              /\ record'[a].gen = record[a].gen /\ record'[a].inc = record[a].inc
              /\ HoldsGen(a, record[a].gen)
  BY RecordMovesOn DEF HubMoves
<1>2. \A a \in Agent : /\ OutboxHolds(a)' = OutboxHolds(a)
                       /\ \A g \in Generation : HoldsGen(a, g)' = HoldsGen(a, g)
  BY <1>0 DEF OutboxHolds, HoldsGen
<1>3. \A a \in Agent :
        /\ record[a].gen \in Nat /\ record[a].gen \in Generation
        /\ pub[a].gen \in Generation /\ outbox[a].gen \in Generation
  BY InvTypes
<1>4. Generation \subseteq Nat BY InvTypes
<1>5. \A a \in Agent : HoldsGen(a, record[a].gen) /\ record[a].life = "active" => pub[a].st # "pending"
  <2> SUFFICES ASSUME NEW a \in Agent, HoldsGen(a, record[a].gen), record[a].life = "active"
               PROVE  pub[a].st # "pending"
    OBVIOUS
  <2>1. Retracts(a, record[a].gen) BY DEF LifeInv, RetractionIsBound, HoldsGen
  <2>2. ~ Gone(a, record[a].gen) BY <1>3 DEF Gone
  <2> QED BY <2>1, <2>2 DEF Retracts, HasGeneration
<1>6. \A c \in Caller : AnswerMoves(c) BY DEF HubMoves
<1>7. Drain \in Caller BY DrainIsCaller
<1>8. TokensMinted'
  <2>1. \A a \in Agent : record'[a].inc \in minted \cup {None}
    BY <1>1 DEF LifeInv, TokensMinted
  <2>2. \A r \in inbox' : r.kind = "register" => r.inc \in minted
    BY DEF HubMoves, LifeInv, TokensMinted
  <2>3. \A c \in Caller : call'[c].state # "idle" /\ call'[c].req.kind = "register" =>
          call'[c].req.inc \in minted
    BY <1>6 DEF AnswerMoves, LifeInv, TokensMinted
  <2>4. \A a \in Agent : pub[a].st # "none" => pub[a].inc \in minted
    BY DEF LifeInv, TokensMinted
  <2> QED BY <1>0, <2>1, <2>2, <2>3, <2>4 DEF TokensMinted
<1>9. DrainCallOK'
  BY <1>0, <1>6, <1>7 DEF AnswerMoves, LifeInv, DrainCallOK
<1>10. RetractionIsBound'
  <2>1. ASSUME NEW a \in Agent, NEW g \in Generation, Retracts(a, g) PROVE Retracts(a, g)'
    <3>1. g \in Nat /\ record[a].gen \in Nat BY <1>3, <1>4
    <3>2. record'[a].gen = record[a].gen \/ record'[a].gen = record[a].gen + 1 BY <1>1
    <3>3. g <= record'[a].gen BY <2>1, <3>1, <3>2 DEF Retracts
    <3>4. Gone(a, g) => Gone(a, g)' BY <1>1
    <3> QED BY <1>0, <2>1, <3>3, <3>4 DEF Retracts, HasGeneration
  <2>2. \A a \in Agent : OutboxHolds(a)' => Retracts(a, outbox[a].gen)'
    BY <1>0, <1>2, <1>3, <2>1 DEF LifeInv, RetractionIsBound
  <2>3. journal.stage = "tombstonePrepared" => journal.agent \in Agent /\ journal.gen \in Generation
    BY InvTypes DEF Inv, JournalOK, Journal
  <2>4. journal.stage = "tombstonePrepared" /\ journal.gen # 0 => Retracts(journal.agent, journal.gen)'
    BY <2>1, <2>3 DEF LifeInv, RetractionIsBound
  <2> QED BY <1>0, <2>2, <2>4 DEF RetractionIsBound, Retracts, Gone, HasGeneration
<1>11. BoundIsKnown'
  <2> SUFFICES ASSUME NEW a \in Agent, HasGeneration(pub[a]) PROVE pub[a].gen <= record'[a].gen
    BY <1>0 DEF BoundIsKnown, HasGeneration
  <2>1. pub[a].gen <= record[a].gen BY DEF LifeInv, BoundIsKnown
  <2>2. record[a].gen \in Nat /\ pub[a].gen \in Nat BY <1>3, <1>4
  <2>3. record'[a].gen = record[a].gen \/ record'[a].gen = record[a].gen + 1 BY <1>1
  <2> QED BY <2>1, <2>2, <2>3
<1>12. BoundIsActive'
  <2> SUFFICES ASSUME NEW a \in Agent, Assigned(pub[a]), ~ HoldsGen(a, pub[a].gen)
               PROVE  record'[a] = record[a]
    BY <1>0, <1>2, <1>3 DEF BoundIsActive, LifeInv, Assigned, ActiveAs, HoldsGen
  <2>1. ActiveAs(a, pub[a].gen, pub[a].inc) BY DEF LifeInv, BoundIsActive
  <2>2. record[a].life = "active" /\ record[a].gen = pub[a].gen BY <2>1 DEF ActiveAs
  <2> QED BY <1>1, <2>2
<1>13. PendingIsActive'
  <2> SUFFICES ASSUME NEW a \in Agent, pub[a].st = "pending", record'[a].inc = pub[a].inc
               PROVE  record'[a].life = "active"
    BY <1>0 DEF PendingIsActive
  <2> QED BY <1>1, <1>5 DEF LifeInv, PendingIsActive
<1>14. AnswerIsActive'
  <2> SUFFICES ASSUME NEW c \in Caller, call'[c].state = "ok", call'[c].req.kind = "register",
                      pub[call'[c].req.agent].st = "pending",
                      pub[call'[c].req.agent].inc = call'[c].req.inc
               PROVE  ActiveAs(call[c].req.agent, call[c].gen, pub[call[c].req.agent].inc)'
    BY <1>0 DEF AnswerIsActive
  <2>0. PICK a : a = call'[c].req.agent OBVIOUS
  <2>1. CASE call'[c] = call[c]
    <3>1. a \in Agent
      BY <2>0, <2>1 DEF Inv, RequestsOK, CallsOK, RequestOK
    <3>2. ActiveAs(a, call[c].gen, pub[a].inc) BY <2>0, <2>1 DEF LifeInv, AnswerIsActive
    <3>3. pub[a].st = "pending" /\ record[a].life = "active" BY <2>0, <3>2 DEF ActiveAs
    <3>4. record'[a] = record[a] BY <1>1, <1>5, <3>1, <3>3
    <3> QED BY <1>0, <2>0, <2>1, <3>2, <3>4 DEF ActiveAs
  <2>2. CASE call'[c] # call[c]
    <3>1. /\ call'[c].req = call[c].req
          /\ ActiveAs(call[c].req.agent, call[c].gen, call[c].req.inc)'
      BY <1>6, <2>2 DEF AnswerMoves
    <3> QED BY <1>0, <3>1 DEF ActiveAs
  <2> QED BY <2>1, <2>2
<1>15. RevokesAreAsked'
  <2> SUFFICES ASSUME NEW a \in Agent, NEW g \in Generation, Source(a, g)'
               PROVE  Gone(a, g)' \/ (record'[a].gen = g /\ HoldsGen(a, g))
    BY <1>2 DEF RevokesAreAsked
  <2>1. Gone(a, g) \/ (record[a].gen = g /\ HoldsGen(a, g))
    BY DEF HubMoves, LifeInv, RevokesAreAsked
  <2>2. CASE Gone(a, g) BY <1>1, <2>2
  <2>3. CASE record[a].gen = g /\ HoldsGen(a, g)
    BY <1>1, <1>3, <1>4, <2>3 DEF Gone
  <2> QED BY <2>1, <2>2, <2>3
<1>16. AppliedIsGone'
  <2> SUFFICES ASSUME NEW t \in Txn, txns'[t].state = "applied", txns'[t].outcome # "superseded"
               PROVE  txns'[t].agent \in Agent /\ Gone(txns[t].agent, txns[t].gen)'
    BY DEF AppliedIsGone
  <2>1. CASE /\ txns[t].state = "applied" /\ txns[t].outcome # "superseded"
             /\ txns'[t].agent = txns[t].agent /\ txns'[t].gen = txns[t].gen
    <3>1. PICK a, g : a = txns[t].agent /\ g = txns[t].gen OBVIOUS
    <3>2. a \in Agent /\ Gone(a, g) BY <2>1, <3>1 DEF LifeInv, AppliedIsGone
    <3>3. g \in Generation BY <3>1, InvTypes DEF RevokeTransaction
    <3>4. Gone(a, g)' BY <1>1, <3>2, <3>3
    <3> QED BY <2>1, <3>1, <3>2, <3>4 DEF Gone
  <2>2. CASE txns'[t].agent \in Agent /\ Gone(txns[t].agent, txns[t].gen)' BY <2>2
  <2> QED BY <2>1, <2>2 DEF HubMoves, TransactionMoves
<1>17. DrainIsSettled'
  <2>1. ASSUME call[Drain].state # "idle",
               Settled(call[Drain].req.agent, call[Drain].req.gen), call'[Drain] = call[Drain]
        PROVE  Settled(call[Drain].req.agent, call[Drain].req.gen)'
    <3>1. PICK a, g : a = call[Drain].req.agent /\ g = call[Drain].req.gen OBVIOUS
    <3>2. a \in Agent /\ g \in Generation /\ g # 0 BY <2>1, <3>1, DrainHoldsEntry
    <3>3. Gone(a, g) /\ advertised[a] # g /\ catalog[a].gen # g BY <2>1, <3>1 DEF Settled
    <3>4. Gone(a, g)' BY <1>1, <3>2, <3>3
    <3>5. ~ (record'[a].life = "active" /\ record'[a].gen = g)
      BY <1>1, <1>3, <1>4, <3>2, <3>4 DEF Gone
    <3>6. advertised'[a] # g /\ catalog'[a].gen # g
      BY <3>2, <3>3, <3>5 DEF HubMoves, RowMoves
    <3>7. Settled(a, g)' BY <3>4, <3>6 DEF Settled
    <3> QED BY <2>1, <3>1, <3>7 DEF Settled, Gone
  <2>2. CASE call'[Drain] = call[Drain]
    BY <1>0, <2>1, <2>2 DEF LifeInv, DrainIsSettled, Released
  <2>3. CASE call'[Drain] # call[Drain]
    BY <1>6, <1>7, <2>3 DEF AnswerMoves, DrainIsSettled
  <2> QED BY <2>2, <2>3
<1>18. RetiredIsRevoked'
  <2> SUFFICES ASSUME NEW a \in Agent, pub[a].st = "retired" PROVE Gone(a, pub[a].gen)'
    BY <1>0 DEF RetiredIsRevoked, Gone
  <2>1. PICK g : g = pub[a].gen OBVIOUS
  <2>2. Gone(a, g) BY <2>1 DEF LifeInv, RetiredIsRevoked, Gone
  <2>3. Gone(a, g)' BY <1>1, <1>3, <2>1, <2>2
  <2> QED BY <1>0, <2>1, <2>3 DEF Gone
<1>19. RetirementIsAsked'
  <2> SUFFICES ASSUME NEW a \in Agent, record'[a].life = "retired"
               PROVE  \/ HoldsGen(a, record'[a].gen)
                      \/ pub[a].st = "retired" /\ pub[a].gen = record'[a].gen
                      \/ pub[a].st = "pending"
    BY <1>0 DEF RetirementIsAsked, HoldsGen, OutboxHolds
  <2> QED BY <1>1 DEF LifeInv, RetirementIsAsked, HoldsGen
<1>20. DirectoryIsBacked'
  <2> SUFFICES ASSUME NEW a \in Agent, NEW g \in {advertised'[a], catalog'[a].gen} \ {0}
               PROVE  \/ record'[a].life = "active" /\ record'[a].gen = g
                      \/ HoldsGen(a, g)
    BY <1>0 DEF DirectoryIsBacked, HoldsGen, OutboxHolds
  <2>1. CASE record'[a].life = "active" /\ record'[a].gen = g BY <2>1
  <2>2. CASE g \in {advertised[a], catalog[a].gen}
    <3>1. \/ record[a].life = "active" /\ record[a].gen = g
          \/ HoldsGen(a, g)
      BY <2>2 DEF LifeInv, DirectoryIsBacked, HoldsGen
    <3> QED BY <1>1, <3>1
  <2> QED BY <2>1, <2>2 DEF HubMoves, RowMoves
<1>21. RevokesNameGeneration' BY DEF HubMoves, LifeInv, RevokesNameGeneration
<1>22. ReplayRegisters'
  BY DrainIsCaller DEF HubMoves, AnswerMoves, LifeInv, ReplayRegisters
<1> QED
  BY <1>8, <1>9, <1>10, <1>11, <1>12, <1>13, <1>14, <1>15, <1>16, <1>17, <1>18, <1>19, <1>20,
     <1>21, <1>22
  DEF LifeInv

\* A retraction stays about a generation that is bound or given up, and one
\* that is given up is not bound again.
LEMMA RetractsStays ==
    ASSUME Inv, LifeInv, UNCHANGED record, NEW a \in Agent, PubMoves(a),
           NEW g \in Generation, Retracts(a, g)
    PROVE  /\ Retracts(a, g)'
           /\ Gone(a, g) /\ Released(a, g) => Released(a, g)'
<1>1. record[a].gen \in Nat /\ g \in Nat /\ pub[a].gen \in Nat BY InvTypes
<1>2. Gone(a, g)' = Gone(a, g) BY DEF Gone
<1>3. pub[a].st = "retired" /\ pub[a].gen = g => Gone(a, g)
  BY DEF LifeInv, RetiredIsRevoked, Gone
<1>4. CASE pub'[a] = pub[a] BY <1>2, <1>4 DEF Retracts, Released, HasGeneration, Assigned
<1>5. CASE pub[a].st \in {"none", "retired"} /\ pub'[a].st = "pending"
  BY <1>2, <1>3, <1>5 DEF Retracts, Released, HasGeneration, Assigned
<1>6. CASE /\ pub[a].st = "pending" /\ pub'[a].st = "assigned"
           /\ ActiveAs(a, pub'[a].gen, pub[a].inc)
  <2>1. pub'[a].gen = record[a].gen /\ record[a].life = "active" BY <1>6 DEF ActiveAs
  <2>2. Gone(a, g) /\ record[a].gen > g BY <1>1, <1>6, <2>1 DEF Retracts, Gone, HasGeneration
  <2> QED BY <1>1, <1>2, <1>6, <2>1, <2>2 DEF Retracts, Released, HasGeneration
<1>7. CASE /\ HasGeneration(pub[a]) /\ HasGeneration(pub'[a]) /\ pub'[a].gen = pub[a].gen
           /\ Assigned(pub'[a]) => Assigned(pub[a])
  BY <1>2, <1>7 DEF Retracts, Released, HasGeneration, Assigned
<1> QED BY <1>4, <1>5, <1>6, <1>7 DEF PubMoves, HasGeneration, Assigned

LEMMA DeviceKeepsLife ==
    ASSUME Inv, LifeInv, DeviceMoves, UNCHANGED hubVars, minted' \subseteq Incarnation
    PROVE  LifeInv'
<1> USE DEF hubVars
<1>0. UNCHANGED <<record, txns, advertised, catalog>> OBVIOUS
<1>1. \A a \in Agent : PubMoves(a) /\ OutboxMoves(a) BY DEF DeviceMoves
<1>2. \A c \in Caller : CallMoves(c) BY DEF DeviceMoves, CallsMove
<1>3. \A a \in Agent :
        /\ record[a].gen \in Nat /\ pub[a].gen \in Nat /\ outbox[a].gen \in Nat
  BY InvTypes
<1>4. \A a \in Agent, g \in Generation : Gone(a, g)' = Gone(a, g) /\ Settled(a, g)' = Settled(a, g)
  BY <1>0 DEF Gone, Settled
<1>5. \A a \in Agent : OutboxHolds(a) => Retracts(a, outbox[a].gen)
  BY DEF LifeInv, RetractionIsBound
<1>6. \A a \in Agent : \/ EntryStays(a)
                       \/ /\ ~ OutboxHolds(a)
                          /\ Retracts(a, outbox'[a].gen) /\ pub'[a] = pub[a]
                       \/ /\ ~ OutboxHolds(a)' /\ Released(a, outbox[a].gen)
                          /\ pub'[a] = pub[a] /\ Settled(a, outbox[a].gen)
  BY <1>1 DEF OutboxMoves, OutboxHolds
<1>7. \A a \in Agent : EntryStays(a) =>
        /\ OutboxHolds(a)' = OutboxHolds(a)
        /\ outbox'[a].gen = outbox[a].gen
  BY DEF EntryStays, OutboxHolds
<1>8. Drain \in Caller BY DrainIsCaller
<1>9. TokensMinted'
  <2>0. minted \subseteq minted' BY DEF DeviceMoves
  <2>1. \A a \in Agent : pub'[a].st # "none" => pub'[a].inc \in minted'
    BY <1>1, <2>0 DEF PubMoves, Assigned, HasGeneration, LifeInv, TokensMinted
  <2>2. \A a \in Agent : record'[a].inc \in minted' \cup {None}
    BY <1>0, <2>0 DEF LifeInv, TokensMinted
  <2>3. \A r \in inbox' : r.kind = "register" => r.inc \in minted'
    BY <2>0 DEF DeviceMoves, CallsMove, WireMoves, LifeInv, TokensMinted
  <2>4. \A c \in Caller : call'[c].state # "idle" /\ call'[c].req.kind = "register" =>
          call'[c].req.inc \in minted'
    BY <1>2, <2>0 DEF CallMoves, LifeInv, TokensMinted
  <2> QED BY <2>1, <2>2, <2>3, <2>4 DEF TokensMinted
<1>10. DrainCallOK'
  <2> SUFFICES ASSUME call'[Drain].state # "idle" PROVE DrainCallOK' BY DEF DrainCallOK
  <2>1. CASE call'[Drain] = call[Drain] /\ drain'.agent = drain.agent /\ EntryStays(drain.agent)
    BY <2>1 DEF LifeInv, DrainCallOK, EntryStays
  <2>2. CASE /\ call'[Drain].req.agent = drain'.agent
             /\ call'[Drain].req.gen = outbox'[drain'.agent].gen
             /\ call'[Drain].req.kind # "register"
    BY <2>2 DEF DrainCallOK
  <2>3. CASE /\ call[Drain].state = "ok" /\ call'[Drain].req = call[Drain].req
             /\ drain' = drain /\ outbox' = outbox
    BY <2>3 DEF LifeInv, DrainCallOK
  <2> QED BY <2>1, <2>2, <2>3 DEF DeviceMoves, CallsMove, DrainMoves
<1>11. RetractionIsBound'
  <2>1. ASSUME NEW a \in Agent, OutboxHolds(a)' PROVE Retracts(a, outbox[a].gen)'
    <3>1. CASE EntryStays(a)
      <4>1. PICK g \in Generation : g = outbox[a].gen BY InvTypes
      <4>2. Retracts(a, g) /\ outbox'[a].gen = g BY <1>5, <1>7, <2>1, <3>1, <4>1
      <4>3. Retracts(a, g)' BY <1>0, <1>1, <4>2, RetractsStays
      <4> QED BY <4>2, <4>3 DEF Retracts, Gone
    <3>2. CASE Retracts(a, outbox'[a].gen) /\ pub'[a] = pub[a]
      BY <1>0, <3>2 DEF Retracts, Gone, HasGeneration
    <3> QED BY <1>6, <2>1, <3>1, <3>2
  <2>2. ASSUME journal'.stage = "tombstonePrepared", journal'.gen # 0
        PROVE  Retracts(journal.agent, journal.gen)'
    <3>1. CASE journal' = journal
      <4>1. PICK a \in Agent, g \in Generation : a = journal.agent /\ g = journal.gen
        BY <2>2, <3>1, InvTypes DEF Inv, JournalOK, Journal
      <4>2. Retracts(a, g) BY <2>2, <3>1, <4>1 DEF LifeInv, RetractionIsBound
      <4>3. Retracts(a, g)' BY <1>0, <1>1, <4>2, RetractsStays
      <4> QED BY <3>1, <4>1, <4>3 DEF Retracts, Gone
    <3>2. CASE Retracts(journal'.agent, journal'.gen) /\ pub' = pub
      BY <1>0, <3>2 DEF Retracts, Gone, HasGeneration
    <3> QED BY <2>2, <3>1, <3>2 DEF DeviceMoves, JournalMoves
  <2> QED BY <2>1, <2>2 DEF RetractionIsBound
<1>12. BoundIsKnown'
  <2> SUFFICES ASSUME NEW a \in Agent, HasGeneration(pub'[a]) PROVE pub'[a].gen <= record[a].gen
    BY <1>0 DEF BoundIsKnown, HasGeneration
  <2>1. CASE ActiveAs(a, pub'[a].gen, pub[a].inc)
    <3>1. pub'[a].gen = record[a].gen BY <2>1 DEF ActiveAs
    <3> QED BY <1>3, <3>1
  <2>2. CASE HasGeneration(pub[a]) /\ pub'[a].gen = pub[a].gen
    BY <2>2 DEF LifeInv, BoundIsKnown
  <2> QED BY <1>1, <2>1, <2>2 DEF PubMoves, HasGeneration, Assigned
<1>13. BoundIsActive'
  <2> SUFFICES ASSUME NEW a \in Agent, Assigned(pub'[a]), ~ HoldsGen(a, pub[a].gen)'
               PROVE  ActiveAs(a, pub'[a].gen, pub'[a].inc)
    BY <1>0 DEF BoundIsActive, Assigned, ActiveAs
  <2>1. Assigned(pub[a]) /\ pub'[a].gen = pub[a].gen /\ pub'[a].inc = pub[a].inc
          => ~ HoldsGen(a, pub[a].gen)
    BY <1>6, <1>7 DEF HoldsGen, Released
  <2>2. CASE Assigned(pub[a]) /\ pub'[a].gen = pub[a].gen /\ pub'[a].inc = pub[a].inc
    BY <2>1, <2>2 DEF LifeInv, BoundIsActive
  <2> QED BY <1>1, <2>2 DEF PubMoves, Assigned
<1>14. PendingIsActive'
  <2> SUFFICES ASSUME NEW a \in Agent, pub'[a].st = "pending", record[a].inc = pub'[a].inc
               PROVE  record[a].life = "active"
    BY <1>0 DEF PendingIsActive
  <2>1. CASE pub'[a] = pub[a] BY <2>1 DEF LifeInv, PendingIsActive
  <2>2. CASE pub'[a].inc \in minted' \ minted
    BY <2>2, InventoryAssumption DEF LifeInv, TokensMinted
  <2> QED BY <1>1, <2>1, <2>2 DEF PubMoves, Assigned
<1>15. AnswerIsActive'
  <2> SUFFICES ASSUME NEW c \in Caller, call'[c].state = "ok", call'[c].req.kind = "register",
                      pub'[call'[c].req.agent].st = "pending",
                      pub'[call'[c].req.agent].inc = call'[c].req.inc
               PROVE  ActiveAs(call[c].req.agent, call[c].gen, pub[call[c].req.agent].inc)'
    BY DEF AnswerIsActive
  <2>0. call'[c] = call[c] BY <1>2 DEF CallMoves
  <2>1. PICK a : a = call[c].req.agent OBVIOUS
  <2>2. a \in Agent BY <2>0, <2>1 DEF Inv, RequestsOK, CallsOK, RequestOK
  <2>3. call[c].req.inc \in minted BY <2>0 DEF LifeInv, TokensMinted
  <2>4. pub'[a] = pub[a] BY <1>1, <2>0, <2>1, <2>2, <2>3 DEF PubMoves, Assigned
  <2>5. ActiveAs(a, call[c].gen, pub[a].inc)
    BY <2>0, <2>1, <2>4 DEF LifeInv, AnswerIsActive
  <2> QED BY <1>0, <2>0, <2>1, <2>4, <2>5 DEF ActiveAs
<1>16. RevokesAreAsked'
  <2> SUFFICES ASSUME NEW a \in Agent, NEW g \in Generation, Source(a, g)'
               PROVE  Gone(a, g) \/ (record[a].gen = g /\ HoldsGen(a, g)')
    BY <1>0, <1>4 DEF RevokesAreAsked
  <2>1. CASE Source(a, g)
    <3>1. Gone(a, g) \/ (record[a].gen = g /\ HoldsGen(a, g))
      BY <2>1 DEF LifeInv, RevokesAreAsked
    <3>2. HoldsGen(a, g) => HoldsGen(a, g)' \/ Gone(a, g)
      BY <1>6, <1>7 DEF HoldsGen, Settled
    <3> QED BY <3>1, <3>2
  <2>2. CASE ~ Source(a, g)
    <3>1. PICK r \in inbox' \ inbox : r.kind = "revoke" /\ r.agent = a /\ r.gen = g
      BY <1>0, <2>2 DEF Source
    <3>2. HoldsGen(a, g) /\ EntryStays(a) BY <3>1 DEF DeviceMoves, CallsMove, WireMoves
    <3>3. HoldsGen(a, g)' BY <1>7, <3>2 DEF HoldsGen
    <3>4. g <= record[a].gen /\ g \in Nat
      BY <1>3, <1>5, <3>2 DEF HoldsGen, Retracts
    <3> QED BY <1>3, <3>3, <3>4 DEF Gone
  <2> QED BY <2>1, <2>2
<1>17. AppliedIsGone'
  BY <1>0 DEF LifeInv, AppliedIsGone, Gone
<1>18. DrainIsSettled'
  <2> SUFFICES ASSUME call'[Drain].state = "retired"
                        \/ (call'[Drain].state = "ok" /\ call'[Drain].req.kind = "revoke")
               PROVE  DrainIsSettled'
    BY DEF DrainIsSettled
  <2>1. CASE call'[Drain] = call[Drain] /\ drain'.agent = drain.agent /\ EntryStays(drain.agent)
    <3>1. Settled(call[Drain].req.agent, call[Drain].req.gen)
      BY <2>1 DEF LifeInv, DrainIsSettled
    <3>2. Settled(call[Drain].req.agent, call[Drain].req.gen)'
      BY <1>0, <2>1, <3>1 DEF Settled, Gone
    <3>3. PICK a \in Agent, g \in Generation :
             a = call[Drain].req.agent /\ g = call[Drain].req.gen /\ Retracts(a, g)
      BY <2>1, DrainHoldsEntry
    <3>4. Released(a, g) => Released(a, g)'
      BY <1>0, <1>1, <3>1, <3>3, RetractsStays DEF Settled
    <3>5. call[Drain].state = "retired" => Released(a, g)
      BY <3>3 DEF LifeInv, DrainIsSettled
    <3>6. call'[Drain].state = "retired" => Released(call[Drain].req.agent, call[Drain].req.gen)'
      BY <2>1, <3>3, <3>4, <3>5 DEF Released
    <3> QED BY <2>1, <3>2, <3>6 DEF DrainIsSettled
  <2>2. CASE /\ call[Drain].state = "ok" /\ call[Drain].req.kind = "revoke"
             /\ call'[Drain].state = "retired" /\ call'[Drain].req = call[Drain].req
             /\ drain' = drain /\ pub'[drain.agent].st = "retired"
    <3>1. Settled(call[Drain].req.agent, call[Drain].req.gen)
      BY <2>2 DEF LifeInv, DrainIsSettled
    <3>2. Settled(call[Drain].req.agent, call[Drain].req.gen)'
      BY <1>0, <2>2, <3>1 DEF Settled, Gone
    <3>3. call[Drain].req.agent = drain.agent BY <2>2, DrainHoldsEntry
    <3>4. Released(call[Drain].req.agent, call[Drain].req.gen)'
      BY <2>2, <3>3 DEF Released, Assigned
    <3> QED BY <2>2, <3>2, <3>4 DEF DrainIsSettled
  <2> QED BY <2>1, <2>2 DEF DeviceMoves, CallsMove, DrainMoves
<1>19. RetiredIsRevoked'
  <2> SUFFICES ASSUME NEW a \in Agent, pub'[a].st = "retired"
               PROVE  Gone(a, pub[a].gen) /\ pub'[a].gen = pub[a].gen
    BY <1>0 DEF RetiredIsRevoked, Gone
  <2>1. CASE pub'[a] = pub[a] BY <2>1 DEF LifeInv, RetiredIsRevoked, Gone
  <2> QED BY <1>1, <2>1 DEF PubMoves, Assigned
<1>20. RetirementIsAsked'
  <2> SUFFICES ASSUME NEW a \in Agent, record[a].life = "retired"
               PROVE  \/ OutboxHolds(a)' /\ outbox'[a].gen = record[a].gen
                      \/ pub'[a].st = "retired" /\ pub'[a].gen = record[a].gen
                      \/ pub'[a].st = "pending"
    BY <1>0 DEF RetirementIsAsked
  <2>1. \/ HoldsGen(a, record[a].gen)
        \/ pub[a].st = "retired" /\ pub[a].gen = record[a].gen
        \/ pub[a].st = "pending"
    BY DEF LifeInv, RetirementIsAsked, HoldsGen
  <2>2. CASE HoldsGen(a, record[a].gen)
    <3>1. CASE EntryStays(a) BY <1>7, <2>2, <3>1 DEF HoldsGen
    <3>2. CASE Released(a, outbox[a].gen) /\ pub'[a] = pub[a]
      <4>1. Retracts(a, record[a].gen) BY <1>5, <2>2 DEF HoldsGen
      <4>2. HasGeneration(pub[a]) => pub[a].gen <= record[a].gen BY DEF LifeInv, BoundIsKnown
      <4>3. pub[a].st = "pending" \/ (HasGeneration(pub[a]) /\ pub[a].gen = record[a].gen)
        BY <1>3, <4>1, <4>2 DEF Retracts
      <4> QED BY <2>2, <3>2, <4>3 DEF HoldsGen, Released, HasGeneration, Assigned
    <3> QED BY <1>6, <2>2, <3>1, <3>2 DEF HoldsGen
  <2>3. CASE pub[a].st = "retired" /\ pub[a].gen = record[a].gen
    BY <1>1, <2>3 DEF PubMoves, Assigned
  <2>4. CASE pub[a].st = "pending"
    <3>1. \A g, i : ~ ActiveAs(a, g, i) BY DEF ActiveAs
    <3> QED BY <1>1, <2>4, <3>1 DEF PubMoves, Assigned, HasGeneration
  <2> QED BY <2>1, <2>2, <2>3, <2>4
<1>21. DirectoryIsBacked'
  <2> SUFFICES ASSUME NEW a \in Agent, NEW g \in {advertised[a], catalog[a].gen} \ {0}
               PROVE  \/ record[a].life = "active" /\ record[a].gen = g
                      \/ OutboxHolds(a)' /\ outbox'[a].gen = g
    BY <1>0 DEF DirectoryIsBacked
  <2>1. \/ record[a].life = "active" /\ record[a].gen = g
        \/ HoldsGen(a, g)
    BY DEF LifeInv, DirectoryIsBacked, HoldsGen
  <2> QED BY <1>6, <1>7, <2>1 DEF HoldsGen, Settled
<1>22. RevokesNameGeneration'
  <2> SUFFICES ASSUME NEW r \in inbox', r.kind = "revoke" PROVE r.gen # 0
    BY DEF RevokesNameGeneration
  <2>1. CASE r \in inbox BY <2>1 DEF LifeInv, RevokesNameGeneration
  <2>2. CASE r \notin inbox
    BY <1>5, <2>2 DEF DeviceMoves, CallsMove, WireMoves, HoldsGen, Retracts
  <2> QED BY <2>1, <2>2
<1>23. ReplayRegisters'
  BY DEF DeviceMoves, CallsMove, ReplayMoves, LifeInv, ReplayRegisters
<1> QED
  BY <1>9, <1>10, <1>11, <1>12, <1>13, <1>14, <1>15, <1>16, <1>17, <1>18, <1>19, <1>20, <1>21,
     <1>22, <1>23
  DEF LifeInv

-----------------------------------------------------------------------------
(* Every step of the hub is one of those.                                  *)

\* An answer tells the truth about the record it leaves behind.
LEMMA AnswersMove ==
    ASSUME Inv, NEW r, NEW state \in {"ok", "refused", "superseded"}, NEW gen,
           call' = Answered(r, state, gen),
           state = "ok" /\ r.kind = "register" => ActiveAs(r.agent, gen, r.inc)',
           state = "ok" /\ r.kind = "revoke" => Settled(r.agent, r.gen)'
    PROVE  \A c \in Caller : AnswerMoves(c)
<1>1. CASE ~ (call[r.from].state = "waiting" /\ call[r.from].req = r)
  BY <1>1 DEF Answered, AnswerMoves
<1>2. CASE call[r.from].state = "waiting" /\ call[r.from].req = r
  <2> SUFFICES ASSUME NEW c \in Caller PROVE AnswerMoves(c) OBVIOUS
  <2>1. call \in [Caller -> Call] BY DEF Inv, RequestsOK, CallsOK
  <2>2. PICK x : x = [state |-> state, req |-> r, gen |-> gen] OBVIOUS
  <2>3. x.state = state /\ x.req = r /\ x.gen = gen BY <2>2
  <2>4. call' = [call EXCEPT ![r.from] = x] BY <1>2, <2>2 DEF Answered
  <2>5. CASE c # r.from
    <3>1. call'[c] = call[c] BY <2>1, <2>4, <2>5
    <3> QED BY <3>1 DEF AnswerMoves
  <2>6. CASE c = r.from
    <3>1. call'[c] = x BY <2>1, <2>4, <2>6
    <3>2. call[c].state = "waiting" /\ call[c].req = r BY <1>2, <2>6
    <3>3. state = "ok" /\ r.kind = "register" =>
            ActiveAs(call[c].req.agent, call[c].gen, call[c].req.inc)'
      BY <2>3, <3>1 DEF ActiveAs
    <3>4. state = "ok" /\ r.kind = "revoke" => Settled(call[c].req.agent, call[c].req.gen)'
      BY <2>3, <3>1 DEF Settled, Gone
    <3> QED BY <2>3, <3>1, <3>2, <3>3, <3>4 DEF AnswerMoves
  <2> QED BY <2>5, <2>6
<1> QED BY <1>1, <1>2

LEMMA RefusalMoves ==
    ASSUME Inv, NEW r, Refuse(r)
    PROVE  \A c \in Caller : AnswerMoves(c)
BY AnswersMove DEF Refuse

LEMMA SilenceMoves ==
    ASSUME call' = call
    PROVE  \A c \in Caller : AnswerMoves(c)
BY DEF AnswerMoves

\* A prepared transaction comes from a revoke that asked for it.
LEMMA SourcesStay ==
    ASSUME inbox' \subseteq inbox,
           \A t \in Txn : txns'[t].state = "prepared" =>
              Source(txns'[t].agent, txns'[t].gen)
    PROVE  \A a \in Agent, g \in Generation : Source(a, g)' => Source(a, g)
<1> SUFFICES ASSUME NEW a \in Agent, NEW g \in Generation, Source(a, g)' PROVE Source(a, g)
  OBVIOUS
<1>1. CASE \E r \in inbox' : r.kind = "revoke" /\ r.agent = a /\ r.gen = g
  BY <1>1 DEF Source
<1>2. CASE \E t \in Txn : txns'[t].state = "prepared" /\ txns'[t].agent = a /\ txns'[t].gen = g
  BY <1>2
<1> QED BY <1>1, <1>2 DEF Source

\* The transactions and the records are as they were.
LEMMA RecordsStay ==
    ASSUME Inv, LifeInv, record' = record, txns' = txns, inbox' \subseteq inbox
    PROVE  /\ \A a \in Agent : RecordMoves(a)
           /\ \A t \in Txn : TransactionMoves(t)
           /\ \A a \in Agent, g \in Generation : Source(a, g)' => Source(a, g)
<1>1. \A t \in Txn : txns'[t].state = "prepared" => Source(txns'[t].agent, txns'[t].gen)
  BY DEF Source
<1>2. \A a \in Agent, g \in Generation : Source(a, g)' => Source(a, g) BY <1>1, SourcesStay
<1> QED BY <1>2 DEF RecordMoves, TransactionMoves

LEMMA RowsStay ==
    ASSUME \A a \in Agent : /\ advertised'[a] \in {advertised[a], 0}
                            /\ catalog'[a].gen \in {catalog[a].gen, 0}
    PROVE  \A a \in Agent : RowMoves(a)
BY DEF RowMoves

LEMMA RegisterMoves ==
    ASSUME Inv, LifeInv, NEW r \in inbox, Register(r)
    PROVE  /\ \A a \in Agent : RecordMoves(a)
           /\ record'[r.agent] = [life |-> "active", gen |-> AssignedGeneration(record[r.agent]),
                                  inc |-> r.inc]
           /\ r.agent \in Agent
<1>1. r.agent \in Agent BY DEF Inv, RequestsOK, RequestOK
<1>2. PICK rec : rec = record[r.agent] OBVIOUS
<1>3. rec \in InventoryRecord /\ record \in [Agent -> InventoryRecord]
  BY <1>1, <1>2 DEF Inv, TypeOK, InventoryTypeOK, CatalogRow, HubCall
<1>4. PICK new : new = [life |-> "active", gen |-> AssignedGeneration(rec), inc |-> r.inc]
  OBVIOUS
<1>5. record' = [record EXCEPT ![r.agent] = new] BY <1>2, <1>4 DEF Register
<1>6. record'[r.agent] = new /\ \A a \in Agent : a # r.agent => record'[a] = record[a]
  BY <1>1, <1>3, <1>5
<1>7. r.inc \in minted BY DEF LifeInv, TokensMinted, Register, Takes
<1>8. Registrable(rec, r.inc) BY <1>2 DEF Register
<1>9. CASE rec.life = "active"
  <2>1. AssignedGeneration(rec) = rec.gen /\ rec.inc = r.inc
    BY <1>8, <1>9 DEF Registrable, AssignedGeneration
  <2>2. new = rec BY <1>3, <1>4, <1>9, <2>1 DEF InventoryRecord
  <2> QED BY <1>1, <1>2, <1>4, <1>6, <2>2 DEF RecordMoves
<1>10. CASE rec.life # "active"
  <2>1. new.gen = rec.gen + 1 /\ new.life = "active" /\ new.inc = r.inc
    BY <1>4, <1>10 DEF AssignedGeneration
  <2> QED BY <1>1, <1>2, <1>4, <1>6, <1>7, <1>10, <2>1 DEF RecordMoves
<1> QED BY <1>9, <1>10

LEMMA RegisterAgentMoves ==
    ASSUME Inv, LifeInv, NEW r \in inbox, RegisterAgent(r) \/ RegisterUnbound(r)
    PROVE  HubMoves
<1>1. Register(r) BY DEF RegisterAgent, RegisterUnbound
<1>2. PICK g : g = AssignedGeneration(record[r.agent]) OBVIOUS
<1>3. /\ \A a \in Agent : RecordMoves(a)
      /\ record'[r.agent] = [life |-> "active", gen |-> g, inc |-> r.inc]
      /\ r.agent \in Agent
  BY <1>1, <1>2, RegisterMoves
<1>4. /\ r.kind = "register" /\ inbox' \subseteq inbox
      /\ UNCHANGED <<txns, catalog>>
  BY <1>1 DEF Register, Takes
<1>5. \A t \in Txn : txns'[t].state = "prepared" => Source(txns'[t].agent, txns'[t].gen)
  BY <1>4 DEF Source
<1>6. \A a \in Agent, h \in Generation : Source(a, h)' => Source(a, h)
  BY <1>4, <1>5, SourcesStay
<1>7. \A t \in Txn : TransactionMoves(t) BY <1>4 DEF TransactionMoves
<1>8. CASE Refuse(r) /\ UNCHANGED advertised
  <2>1. \A a \in Agent : RowMoves(a) BY <1>4, <1>8, RowsStay
  <2>2. \A c \in Caller : AnswerMoves(c) BY <1>8, RefusalMoves
  <2> QED BY <1>3, <1>4, <1>6, <1>7, <2>1, <2>2 DEF HubMoves
<1>9. CASE advertised' = [advertised EXCEPT ![r.agent] = g] /\ call' = Answered(r, "ok", g)
  <2>1. advertised \in [Agent -> Generation] BY DEF Inv, TypeOK, InventoryTypeOK, CatalogRow, HubCall
  <2>2. \A a \in Agent : advertised'[a] = IF a = r.agent THEN g ELSE advertised[a]
    BY <1>9, <2>1
  <2>3. record'[r.agent].life = "active" /\ record'[r.agent].gen = g BY <1>3
  <2>4. \A a \in Agent : RowMoves(a) BY <1>4, <2>2, <2>3 DEF RowMoves
  <2>5. ActiveAs(r.agent, g, r.inc)' BY <1>3 DEF ActiveAs
  <2>6. \A c \in Caller : AnswerMoves(c) BY <1>4, <1>9, <2>5, AnswersMove
  <2> QED BY <1>3, <1>4, <1>6, <1>7, <2>4, <2>6 DEF HubMoves
<1> QED BY <1>2, <1>8, <1>9 DEF RegisterAgent, RegisterUnbound

\* Applying a transaction some revoke asked for gives its generation up.
LEMMA ApplyMoves ==
    ASSUME Inv, LifeInv, NEW t \in Txn, NEW x \in RevokeTransaction, x.agent \in Agent,
           Source(x.agent, x.gen), Apply(t, x), inbox' \subseteq inbox
    PROVE  /\ \A a \in Agent : RecordMoves(a)
           /\ \A u \in Txn : TransactionMoves(u)
           /\ \A a \in Agent, g \in Generation : Source(a, g)' => Source(a, g)
           /\ DispositionOf(x) # "superseded" => Gone(x.agent, x.gen)'
<1>1. /\ record \in [Agent -> InventoryRecord] /\ txns \in [Txn -> RevokeTransaction]
  BY DEF Inv, TypeOK, InventoryTypeOK, CatalogRow, HubCall
<1>2. PICK d : d = DispositionOf(x) OBVIOUS
<1>3. PICK y : y = [x EXCEPT !.state = "applied", !.outcome = d] OBVIOUS
<1>4. y.agent = x.agent /\ y.gen = x.gen /\ y.state = "applied" /\ y.outcome = d
  BY <1>3 DEF RevokeTransaction
<1>5. txns' = [txns EXCEPT ![t] = y] BY <1>2, <1>3 DEF Apply
<1>6. txns'[t] = y /\ \A u \in Txn : u # t => txns'[u] = txns[u] BY <1>1, <1>5
<1>7. PICK rec : rec = record[x.agent] OBVIOUS
<1>8. rec \in InventoryRecord /\ rec.gen \in Nat /\ x.gen \in Nat
  BY <1>1, <1>7, InventoryAssumption DEF InventoryRecord, RevokeTransaction, Generation
<1>9. rec.life # "absent" /\ rec.gen >= x.gen BY <1>7 DEF Apply, Appliable
<1>10. d = IF rec.gen > x.gen THEN "superseded"
           ELSE IF rec.life = "retired" THEN "already" ELSE "retired"
  BY <1>2, <1>7 DEF DispositionOf
<1>11. record' = IF d = "retired" THEN [record EXCEPT ![x.agent].life = "retired"] ELSE record
  BY <1>2 DEF Apply
<1>12. /\ \A a \in Agent : RecordMoves(a)
       /\ d # "superseded" => record'[x.agent].gen = x.gen /\ record'[x.agent].life = "retired"
  <2>1. CASE d = "retired"
    <3>1. rec.gen = x.gen /\ rec.life = "active"
      BY <1>8, <1>9, <1>10, <2>1 DEF InventoryRecord
    <3>2. PICK new : new = [rec EXCEPT !.life = "retired"] OBVIOUS
    <3>3. new.life = "retired" /\ new.gen = rec.gen /\ new.inc = rec.inc
      BY <1>8, <3>2 DEF InventoryRecord
    <3>4. record' = [record EXCEPT ![x.agent] = new] BY <1>7, <1>11, <2>1, <3>2
    <3>5. record'[x.agent] = new /\ \A a \in Agent : a # x.agent => record'[a] = record[a]
      BY <1>1, <3>4
    <3> QED BY <1>7, <3>1, <3>3, <3>5 DEF RecordMoves
  <2>2. CASE d # "retired"
    <3>1. record' = record BY <1>11, <2>2
    <3>2. d # "superseded" => rec.gen = x.gen /\ rec.life = "retired"
      BY <1>8, <1>9, <1>10, <2>2
    <3> QED BY <1>7, <3>1, <3>2 DEF RecordMoves
  <2> QED BY <2>1, <2>2
<1>13. d # "superseded" => Gone(x.agent, x.gen)' BY <1>12 DEF Gone
<1>14. \A u \in Txn : TransactionMoves(u)
  <2> SUFFICES ASSUME NEW u \in Txn PROVE TransactionMoves(u) OBVIOUS
  <2>1. CASE u # t BY <1>6, <2>1 DEF TransactionMoves
  <2>2. CASE u = t
    <3>1. txns'[u] = y BY <1>6, <2>2
    <3>2. d # "superseded" => Gone(txns[u].agent, txns[u].gen)'
      BY <1>4, <1>12, <3>1 DEF Gone
    <3> QED BY <1>4, <3>1, <3>2 DEF TransactionMoves
  <2> QED BY <2>1, <2>2
<1>15. \A u \in Txn : txns'[u].state = "prepared" => Source(txns'[u].agent, txns'[u].gen)
  <2> SUFFICES ASSUME NEW u \in Txn, txns'[u].state = "prepared"
               PROVE  Source(txns'[u].agent, txns'[u].gen)
    OBVIOUS
  <2>1. txns'[u] = txns[u] BY <1>4, <1>6
  <2> QED BY <2>1 DEF Source
<1>16. \A a \in Agent, g \in Generation : Source(a, g)' => Source(a, g) BY <1>15, SourcesStay
<1> QED BY <1>2, <1>12, <1>13, <1>14, <1>16

\* The end of a revoke: what was given up is no longer routed to.
LEMMA ConcludeMoves ==
    ASSUME Inv, LifeInv, NEW r \in inbox, r.kind = "revoke", NEW outcome, Conclude(r, outcome),
           outcome # "superseded" => Gone(r.agent, r.gen)'
    PROVE  /\ \A a \in Agent : RowMoves(a)
           /\ \A c \in Caller : AnswerMoves(c)
<1>1. r.agent \in Agent BY DEF Inv, RequestsOK, RequestOK
<1>2. r.gen # 0 BY DEF LifeInv, RevokesNameGeneration
<1>3. CASE outcome = "superseded"
  <2>1. call' = Answered(r, "superseded", r.gen) /\ UNCHANGED <<advertised, catalog>>
    BY <1>3 DEF Conclude
  <2>2. \A a \in Agent : RowMoves(a) BY <2>1, RowsStay
  <2>3. \A c \in Caller : AnswerMoves(c) BY <2>1, AnswersMove
  <2> QED BY <2>2, <2>3
<1>4. CASE outcome # "superseded"
  <2>1. call' = Answered(r, "ok", r.gen) /\ RemoveGeneration(r.agent, r.gen)
    BY <1>4 DEF Conclude
  <2>2. /\ advertised \in [Agent -> Generation]
        /\ catalog \in [Agent -> [gen : Generation, rev : 0..2]]
    BY DEF Inv, TypeOK, InventoryTypeOK, CatalogRow, HubCall
  <2>3. NoRow.gen = 0 BY DEF NoRow
  <2>4. \A a \in Agent :
          /\ advertised'[a] = IF a = r.agent /\ advertised[a] = r.gen THEN 0 ELSE advertised[a]
          /\ catalog'[a] = IF a = r.agent /\ catalog[a].gen = r.gen THEN NoRow ELSE catalog[a]
    BY <2>1, <2>2 DEF RemoveGeneration
  <2>5. \A a \in Agent : RowMoves(a) BY <2>3, <2>4, RowsStay
  <2>6. advertised'[r.agent] # r.gen /\ catalog'[r.agent].gen # r.gen
    BY <1>1, <1>2, <2>3, <2>4
  <2>7. Settled(r.agent, r.gen)' BY <1>4, <2>6 DEF Settled
  <2>8. \A c \in Caller : AnswerMoves(c) BY <2>1, <2>7, AnswersMove
  <2> QED BY <2>5, <2>8
<1> QED BY <1>3, <1>4

LEMMA RevokeAgentMoves ==
    ASSUME Inv, LifeInv, NEW r \in inbox, RevokeAgent(r) \/ RevokeUnreported(r)
    PROVE  HubMoves
<1>1. /\ r.kind = "revoke" /\ inbox' \subseteq inbox /\ Preparable(r)
      /\ Apply(r.txn, PreparedBy(r))
  BY DEF RevokeAgent, RevokeUnreported, Takes
<1>2. PICK x : x = PreparedBy(r) OBVIOUS
<1>3. /\ r.txn \in Txn /\ r.agent \in Agent /\ x \in RevokeTransaction
      /\ x.agent = r.agent /\ x.gen = r.gen
  BY <1>1, <1>2, PreparedByOK
<1>4. Source(x.agent, x.gen) BY <1>1, <1>3 DEF Source
<1>5. /\ \A a \in Agent : RecordMoves(a)
      /\ \A u \in Txn : TransactionMoves(u)
      /\ \A a \in Agent, g \in Generation : Source(a, g)' => Source(a, g)
      /\ DispositionOf(x) # "superseded" => Gone(x.agent, x.gen)'
  BY <1>1, <1>2, <1>3, <1>4, ApplyMoves
<1>6. CASE RevokeAgent(r)
  <2>1. PICK d : d = DispositionOf(x) OBVIOUS
  <2>2. Conclude(r, d) BY <1>2, <1>6, <2>1 DEF RevokeAgent
  <2>3. d # "superseded" => Gone(r.agent, r.gen)' BY <1>3, <1>5, <2>1 DEF Gone
  <2>4. (\A a \in Agent : RowMoves(a)) /\ (\A c \in Caller : AnswerMoves(c))
    BY <1>1, <2>2, <2>3, ConcludeMoves
  <2> QED BY <1>1, <1>5, <2>4 DEF HubMoves
<1>7. CASE RevokeUnreported(r)
  <2>1. Refuse(r) /\ UNCHANGED <<advertised, catalog>> BY <1>7 DEF RevokeUnreported
  <2>2. (\A a \in Agent : RowMoves(a)) /\ (\A c \in Caller : AnswerMoves(c))
    BY <2>1, RowsStay, RefusalMoves
  <2> QED BY <1>1, <1>5, <2>2 DEF HubMoves
<1> QED BY <1>6, <1>7

\* A handler that writes a transaction and no record.
LEMMA TransactionWriteMoves ==
    ASSUME Inv, LifeInv, NEW r \in inbox, r.kind = "revoke", inbox' \subseteq inbox,
           NEW t \in Txn, NEW x, txns' = [txns EXCEPT ![t] = x], record' = record,
           x.state = "prepared" => x.agent = r.agent /\ x.gen = r.gen,
           x.state = "applied" =>
             \/ x.outcome = "superseded"
             \/ /\ txns[t].state = "applied" /\ txns[t].outcome = x.outcome
                /\ x.agent = txns[t].agent /\ x.gen = txns[t].gen
    PROVE  /\ \A a \in Agent : RecordMoves(a)
           /\ \A u \in Txn : TransactionMoves(u)
           /\ \A a \in Agent, g \in Generation : Source(a, g)' => Source(a, g)
<1>1. txns \in [Txn -> RevokeTransaction] BY DEF Inv, TypeOK, InventoryTypeOK, CatalogRow, HubCall
<1>2. txns'[t] = x /\ \A u \in Txn : u # t => txns'[u] = txns[u] BY <1>1
<1>3. \A u \in Txn : TransactionMoves(u)
  <2> SUFFICES ASSUME NEW u \in Txn PROVE TransactionMoves(u) OBVIOUS
  <2>1. CASE u # t BY <1>2, <2>1 DEF TransactionMoves
  <2>2. CASE u = t BY <1>2, <2>2 DEF TransactionMoves
  <2> QED BY <2>1, <2>2
<1>4. \A u \in Txn : txns'[u].state = "prepared" => Source(txns'[u].agent, txns'[u].gen)
  <2> SUFFICES ASSUME NEW u \in Txn, txns'[u].state = "prepared"
               PROVE  Source(txns'[u].agent, txns'[u].gen)
    OBVIOUS
  <2>1. CASE u # t
    <3>1. txns'[u] = txns[u] BY <1>2, <2>1
    <3> QED BY <3>1 DEF Source
  <2>2. CASE u = t
    <3>1. txns'[u].agent = r.agent /\ txns'[u].gen = r.gen BY <1>2, <2>2
    <3> QED BY <3>1 DEF Source
  <2> QED BY <2>1, <2>2
<1>5. \A a \in Agent, g \in Generation : Source(a, g)' => Source(a, g) BY <1>4, SourcesStay
<1> QED BY <1>3, <1>5 DEF RecordMoves

LEMMA HubStepMoves ==
    ASSUME Inv, LifeInv, HubNext
    PROVE  HubMoves
<1> USE DEF hubVars, netVars
<1>1. ASSUME NEW r \in inbox, RequestLost(r) PROVE HubMoves
  <2>1. UNCHANGED <<record, txns, advertised, catalog, call>> /\ inbox' \subseteq inbox
    BY <1>1 DEF RequestLost
  <2> QED BY <2>1, RecordsStay, RowsStay, SilenceMoves DEF HubMoves
<1>2. ASSUME NEW r \in inbox, RegisterAgent(r) \/ RegisterUnbound(r) PROVE HubMoves
  BY <1>2, RegisterAgentMoves
<1>3. ASSUME NEW r \in inbox, RegisterRefused(r) \/ ProjectionRefused(r) \/ RevokeRefused(r)
      PROVE  HubMoves
  <2>1. /\ UNCHANGED <<record, txns, advertised, catalog>> /\ inbox' \subseteq inbox
        /\ Refuse(r)
    BY <1>3 DEF RegisterRefused, ProjectionRefused, RevokeRefused, Takes
  <2> QED BY <2>1, RecordsStay, RowsStay, RefusalMoves DEF HubMoves
<1>4. ASSUME NEW r \in inbox, PublishProjection(r) PROVE HubMoves
  <2>1. /\ UNCHANGED <<record, txns, advertised>> /\ inbox' \subseteq inbox
        /\ advertised[r.agent] = r.gen /\ r.kind = "publish"
    BY <1>4 DEF PublishProjection, Takes, ProjectionAdmitted
  <2>2. catalog \in [Agent -> [gen : Generation, rev : 0..2]]
    BY DEF Inv, TypeOK, InventoryTypeOK, CatalogRow, HubCall
  <2>3. CASE Refuse(r) /\ UNCHANGED catalog
    BY <2>1, <2>3, RecordsStay, RowsStay, RefusalMoves DEF HubMoves
  <2>4. CASE /\ catalog' = [catalog EXCEPT ![r.agent] = [gen |-> r.gen, rev |-> RevisionOf(r)]]
             /\ call' = Answered(r, "ok", r.gen)
    <3>1. \A a \in Agent : catalog'[a].gen = IF a = r.agent THEN r.gen ELSE catalog[a].gen
      BY <2>2, <2>4
    <3>2. \A a \in Agent : RowMoves(a) BY <2>1, <3>1 DEF RowMoves
    <3>3. \A c \in Caller : AnswerMoves(c) BY <2>1, <2>4, AnswersMove
    <3> QED BY <2>1, <3>2, <3>3, RecordsStay DEF HubMoves
  <2> QED BY <1>4, <2>3, <2>4 DEF PublishProjection
<1>5. ASSUME NEW r \in inbox, RevokeAgent(r) \/ RevokeUnreported(r) PROVE HubMoves
  BY <1>5, RevokeAgentMoves
<1>6. ASSUME NEW r \in inbox, RevokePrepared(r) PROVE HubMoves
  <2>1. /\ r.kind = "revoke" /\ inbox' \subseteq inbox /\ Preparable(r) /\ Refuse(r)
        /\ txns' = [txns EXCEPT ![r.txn] = PreparedBy(r)]
        /\ UNCHANGED <<record, advertised, catalog>>
    BY <1>6 DEF RevokePrepared, Takes
  <2>2. PICK x : x = PreparedBy(r) OBVIOUS
  <2>3. x.state = "prepared" /\ x.agent = r.agent /\ x.gen = r.gen
    BY <2>2 DEF PreparedBy, Transaction
  <2>4. r.txn \in Txn BY <2>1 DEF Inv, RequestsOK, RequestOK
  <2> QED
    BY <2>1, <2>2, <2>3, <2>4, TransactionWriteMoves, RowsStay, RefusalMoves DEF HubMoves
<1>7. ASSUME NEW r \in inbox, RevokeSuperseded(r) PROVE HubMoves
  <2>1. /\ r.kind = "revoke" /\ inbox' \subseteq inbox /\ Conclude(r, "superseded")
        /\ txns' = [txns EXCEPT ![r.txn] = Transaction(r, "applied", None, "superseded")]
        /\ record' = record
    BY <1>7 DEF RevokeSuperseded, Takes
  <2>2. PICK x : x = Transaction(r, "applied", None, "superseded") OBVIOUS
  <2>3. x.state = "applied" /\ x.outcome = "superseded" BY <2>2 DEF Transaction
  <2>4. r.txn \in Txn BY <2>1 DEF Inv, RequestsOK, RequestOK
  <2>5. (\A a \in Agent : RowMoves(a)) /\ (\A c \in Caller : AnswerMoves(c))
    BY <2>1, ConcludeMoves
  <2> QED BY <2>1, <2>2, <2>3, <2>4, <2>5, TransactionWriteMoves DEF HubMoves
<1>8. ASSUME NEW r \in inbox, RevokeReplayed(r) PROVE HubMoves
  <2>1. /\ r.kind = "revoke" /\ inbox' \subseteq inbox
        /\ txns[r.txn].state = "applied" /\ SameRevoke(r)
        /\ txns' = [txns EXCEPT ![r.txn] = [txns[r.txn] EXCEPT !.fence = r.fence]]
        /\ Conclude(r, txns[r.txn].outcome) /\ record' = record
    BY <1>8 DEF RevokeReplayed, Takes
  <2>2. r.txn \in Txn /\ r.agent \in Agent BY <2>1 DEF Inv, RequestsOK, RequestOK
  <2>3. txns[r.txn] \in RevokeTransaction BY <2>2 DEF Inv, TypeOK, InventoryTypeOK, CatalogRow, HubCall
  <2>4. PICK x : x = [txns[r.txn] EXCEPT !.fence = r.fence] OBVIOUS
  <2>5. /\ x.state = "applied" /\ x.outcome = txns[r.txn].outcome
        /\ x.agent = txns[r.txn].agent /\ x.gen = txns[r.txn].gen
    BY <2>1, <2>3, <2>4 DEF RevokeTransaction
  <2>6. PICK d : d = txns[r.txn].outcome OBVIOUS
  <2>7. d # "superseded" => Gone(r.agent, r.gen)'
    BY <2>1, <2>2, <2>6 DEF LifeInv, AppliedIsGone, SameRevoke, Gone
  <2>8. (\A a \in Agent : RowMoves(a)) /\ (\A c \in Caller : AnswerMoves(c))
    BY <2>1, <2>6, <2>7, ConcludeMoves
  <2>9. /\ \A a \in Agent : RecordMoves(a)
        /\ \A u \in Txn : TransactionMoves(u)
        /\ \A a \in Agent, g \in Generation : Source(a, g)' => Source(a, g)
    BY <2>1, <2>2, <2>4, <2>5, TransactionWriteMoves
  <2> QED BY <2>1, <2>8, <2>9 DEF HubMoves
<1>9. ASSUME NEW a \in Agent, RevokeImmediate(a) PROVE HubMoves
  <2>1. /\ UNCHANGED <<record, txns, inbox, call>>
        /\ advertised' = [advertised EXCEPT ![a] = 0]
        /\ catalog' = [catalog EXCEPT ![a] = NoRow]
    BY <1>9 DEF RevokeImmediate
  <2>2. /\ advertised \in [Agent -> Generation]
        /\ catalog \in [Agent -> [gen : Generation, rev : 0..2]]
    BY DEF Inv, TypeOK, InventoryTypeOK, CatalogRow, HubCall
  <2>3. NoRow.gen = 0 BY DEF NoRow
  <2>4. \A b \in Agent : /\ advertised'[b] \in {advertised[b], 0}
                         /\ catalog'[b].gen \in {catalog[b].gen, 0}
    BY <2>1, <2>2, <2>3
  <2> QED BY <2>1, <2>4, RecordsStay, RowsStay, SilenceMoves DEF HubMoves
<1>10. CASE HubCrash
  <2>1. /\ UNCHANGED <<record, txns, inbox, call>>
        /\ \A b \in Agent : advertised'[b] = 0 /\ catalog'[b] = NoRow
    BY <1>10 DEF HubCrash
  <2>2. NoRow.gen = 0 BY DEF NoRow
  <2> QED BY <2>1, <2>2, RecordsStay, RowsStay, SilenceMoves DEF HubMoves
<1>11. CASE HydrateDirectory
  <2>1. /\ UNCHANGED <<record, txns, inbox, call, catalog>>
        /\ \A b \in Agent :
             advertised'[b] = IF record[b].life = "active" THEN record[b].gen ELSE 0
    BY <1>11 DEF HydrateDirectory
  <2>2. \A b \in Agent : RowMoves(b) BY <2>1 DEF RowMoves
  <2> QED BY <2>1, <2>2, RecordsStay, SilenceMoves DEF HubMoves
<1>12. ASSUME NEW t \in Txn, RecoverRevoke(t) PROVE HubMoves
  <2>1. /\ txns[t].state = "prepared" /\ Apply(t, txns[t])
        /\ UNCHANGED <<advertised, catalog, inbox, call>>
    BY <1>12 DEF RecoverRevoke
  <2>2. txns[t] \in RevokeTransaction /\ txns[t].agent \in Agent
    BY <2>1 DEF Inv, TypeOK, InventoryTypeOK, CatalogRow, HubCall, PreparedOK
  <2>3. Source(txns[t].agent, txns[t].gen) BY <2>1 DEF Source
  <2>4. PICK x : x = txns[t] OBVIOUS
  <2>5. /\ \A a \in Agent : RecordMoves(a)
        /\ \A u \in Txn : TransactionMoves(u)
        /\ \A a \in Agent, g \in Generation : Source(a, g)' => Source(a, g)
    BY <2>1, <2>2, <2>3, <2>4, ApplyMoves
  <2> QED BY <2>1, <2>5, RowsStay, SilenceMoves DEF HubMoves
<1> QED
  BY <1>1, <1>2, <1>3, <1>4, <1>5, <1>6, <1>7, <1>8, <1>9, <1>10, <1>11, <1>12 DEF HubNext

-----------------------------------------------------------------------------
(* Every step of the device is one of those.                               *)

FilesStay == pub' = pub /\ outbox' = outbox /\ minted' = minted

LEMMA FilesStayMove ==
    ASSUME FilesStay
    PROVE  /\ minted \subseteq minted'
           /\ \A a \in Agent : PubMoves(a)
           /\ \A a \in Agent : OutboxMoves(a)
BY DEF FilesStay, PubMoves, OutboxMoves, EntryStays

LEMMA OutboxStaysMove ==
    ASSUME outbox' = outbox
    PROVE  \A a \in Agent : OutboxMoves(a)
BY DEF OutboxMoves, EntryStays

LEMMA JournalStayMove == journal' = journal => JournalMoves
BY DEF JournalMoves

\* The calls stay as they are, and the drain's entry keeps its generation.
LEMMA NetStaysMove ==
    ASSUME Inv, UNCHANGED netVars, drain' = drain,
           \A a \in Agent : EntryStays(a)
    PROVE  CallsMove
<1>1. inbox' = inbox /\ call' = call BY DEF netVars
<1>2. call[Drain].state # "idle" => drain.agent \in Agent BY DEF Inv, DrainOK
<1> QED BY <1>1, <1>2 DEF CallsMove, WireMoves, DrainMoves, ReplayMoves, CallMoves

\* A caller other than the drain hangs up.
LEMMA HangUpMoves ==
    ASSUME Inv, NEW c \in Caller, HangUp(c),
           c = Drain \/ (drain' = drain /\ outbox' = outbox)
    PROVE  CallsMove
<1>1. inbox' = inbox BY DEF HangUp
<1>2. /\ call'[c].state = "idle"
      /\ \A d \in Caller \ {c} : call'[d] = call[d]
  BY HangUpOK DEF Inv
<1>3. WireMoves BY <1>1 DEF WireMoves
<1>4. \A d \in Caller : CallMoves(d) BY <1>2 DEF CallMoves
<1>5. ReplayMoves BY <1>2, DrainIsCaller DEF ReplayMoves
<1>6. DrainMoves BY <1>2, DrainIsCaller DEF DrainMoves, EntryStays
<1> QED BY <1>3, <1>4, <1>5, <1>6 DEF CallsMove

\* A request is sent that says what the files say.
LEMMA IssueMoves ==
    ASSUME Inv, NEW r, RequestOK(r), Issue(r),
           r.kind = "register" => r.inc \in minted',
           r.kind = "revoke" => HoldsGen(r.agent, r.gen) /\ EntryStays(r.agent),
           r.from = Replay => r.kind = "register",
           r.from = Drain => /\ r.kind # "register" /\ r.agent = drain'.agent
                             /\ r.gen = outbox'[drain'.agent].gen,
           r.from # Drain => drain' = drain /\ outbox' = outbox
    PROVE  CallsMove
<1>1. inbox' = inbox \cup {r} BY DEF Issue
<1>2. PICK x : x = [state |-> "waiting", req |-> r, gen |-> 0] OBVIOUS
<1>3. x.state = "waiting" /\ x.req = r BY <1>2
<1>4. r.from \in Caller /\ r.agent \in Agent BY DEF RequestOK
<1>5. call'[r.from] = x
  <2>1. call' = [call EXCEPT ![r.from] = x] BY <1>2 DEF Issue
  <2> QED BY <1>4, <2>1 DEF Inv, RequestsOK, CallsOK
<1>6. \A d \in Caller \ {r.from} : call'[d] = call[d]
  BY IssueOK DEF Inv
<1>7. WireMoves BY <1>1, <1>4 DEF WireMoves
<1>8. \A d \in Caller : CallMoves(d) BY <1>3, <1>5, <1>6 DEF CallMoves
<1>9. ReplayMoves BY <1>3, <1>5, <1>6, DrainIsCaller DEF ReplayMoves
<1>10. DrainMoves
  <2>1. CASE r.from = Drain BY <1>3, <1>5, <2>1 DEF DrainMoves
  <2>2. CASE r.from # Drain BY <1>6, <2>2, DrainIsCaller DEF DrainMoves, EntryStays
  <2> QED BY <2>1, <2>2
<1> QED BY <1>7, <1>8, <1>9, <1>10 DEF CallsMove

\* The plan of a tombstone names the generation of the record it was read from.
LEMMA PlanMoves ==
    ASSUME Inv, LifeInv, journal.agent \in Agent, journal' = TombstonePlan, pub' = pub
    PROVE  JournalMoves
<1>1. journal \in Journal BY DEF Inv, TypeOK, DeviceTypeOK, DrainBatch
<1>2. PICK p : p = pub[journal.agent] OBVIOUS
<1>3. CASE p.st = "pending"
  <2>1. journal' = [journal EXCEPT !.stage = "assignmentPending", !.inc = p.inc]
    BY <1>2, <1>3 DEF TombstonePlan
  <2> QED BY <1>1, <2>1 DEF JournalMoves, Journal
<1>4. CASE p.st # "pending"
  <2>1. PICK g : g = IF Assigned(p) THEN p.gen ELSE 0 OBVIOUS
  <2>2. journal' = [journal EXCEPT !.stage = "tombstonePrepared", !.gen = g]
    BY <1>2, <1>4, <2>1 DEF TombstonePlan
  <2>3. journal'.agent = journal.agent /\ journal'.gen = g BY <1>1, <2>2 DEF Journal
  <2>4. g # 0 => HasGeneration(p) /\ p.gen = g BY <2>1 DEF Assigned, HasGeneration
  <2>5. g # 0 => Retracts(journal.agent, g)
    BY <1>2, <2>4 DEF LifeInv, BoundIsKnown, Retracts
  <2> QED BY <2>3, <2>5 DEF JournalMoves
<1> QED BY <1>3, <1>4

\* A step of the journal alone.
LEMMA JournalStepMoves ==
    ASSUME Inv, UNCHANGED <<netVars, pub, outbox, drain, minted>>, JournalMoves
    PROVE  DeviceMoves
<1>1. \A a \in Agent : EntryStays(a) BY DEF EntryStays
<1>2. CallsMove BY <1>1, NetStaysMove
<1> QED BY <1>2, FilesStayMove DEF DeviceMoves, FilesStay

\* A record without a token, or with a retired one, gets a new one.
LEMMA MintMoves ==
    ASSUME Inv, NEW a \in Agent, MintPending(a)
    PROVE  (\A b \in Agent : PubMoves(b)) /\ minted \subseteq minted'
<1>1. pub \in [Agent -> PublicationRecord] BY DEF Inv, TypeOK, DeviceTypeOK, DrainBatch
<1>2. PICK p : p = [st |-> "pending", inc |-> FreshToken, gen |-> 0] OBVIOUS
<1>3. p.st = "pending" /\ p.inc = FreshToken BY <1>2
<1>4. \A b \in Agent : pub'[b] = IF b = a THEN p ELSE pub[b] BY <1>1, <1>2, Minted
<1>5. FreshToken \in minted' \ minted /\ pub[a].st \in {"none", "retired"} BY Minted
<1>6. minted \subseteq minted' BY Minted
<1> QED BY <1>3, <1>4, <1>5, <1>6 DEF PubMoves

LEMMA BeginRegistrationMoves ==
    ASSUME Inv, LifeInv, NEW w \in Worker, NEW a \in Agent, BeginRegistration(w, a)
    PROVE  DeviceMoves
<1>1. UNCHANGED <<journal, outbox, drain>> BY DEF BeginRegistration
<1>2. w \in Caller /\ w # Drain /\ w # Replay BY LifecycleAssumption
<1>3. pub \in [Agent -> PublicationRecord] BY DEF Inv, TypeOK, DeviceTypeOK, DrainBatch
<1>4. ASSUME NEW i \in Incarnation \cup {None}, i \in minted', Issue(RegisterRequest(w, a, i, None))
      PROVE  CallsMove
  <2>1. PICK r : r = RegisterRequest(w, a, i, None) OBVIOUS
  <2>2. RequestOK(r) /\ r.from = w BY <1>2, <2>1, RegisterRequestOK
  <2>3. r.kind = "register" /\ r.inc = i BY <2>1 DEF RegisterRequest, NoRequest
  <2>4. Issue(r) BY <1>4, <2>1
  <2> QED BY <1>1, <1>2, <1>4, <2>2, <2>3, <2>4, IssueMoves
<1>5. CASE MintPending(a)
  <2>1. pub'[a].inc = FreshToken /\ FreshToken \in Incarnation /\ FreshToken \in minted'
    BY <1>3, <1>5, Minted
  <2>2. CallsMove BY <1>4, <2>1 DEF BeginRegistration
  <2> QED BY <1>1, <1>5, <2>2, MintMoves, OutboxStaysMove, JournalStayMove DEF DeviceMoves
<1>6. CASE ~ Unregistered(a) /\ UNCHANGED <<minted, pub>>
  <2>1. Issue(RegisterRequest(w, a, pub[a].inc, None)) BY <1>6 DEF BeginRegistration
  <2>2. pub[a].inc \in minted /\ pub[a].inc \in Incarnation \cup {None}
    BY <1>3, <1>6 DEF LifeInv, TokensMinted, PublicationRecord, Unregistered
  <2>3. CallsMove BY <1>4, <1>6, <2>1, <2>2
  <2> QED BY <1>1, <1>6, <2>3, FilesStayMove, JournalStayMove DEF DeviceMoves, FilesStay
<1> QED BY <1>5, <1>6 DEF BeginRegistration

LEMMA RecordWriteMoves ==
    ASSUME Inv, NEW a \in Agent, PlanCaptured(a) \/ FenceCatalogCommit(a)
    PROVE  DeviceMoves
<1>1. UNCHANGED <<netVars, journal, outbox, drain>> BY DEF PlanCaptured, FenceCatalogCommit
<1>2. \A b \in Agent : EntryStays(b) BY <1>1 DEF EntryStays
<1>3. CallsMove BY <1>1, <1>2, NetStaysMove
<1>4. (\A b \in Agent : PubMoves(b)) /\ minted \subseteq minted'
  <2>1. CASE MintPending(a) BY <2>1, MintMoves
  <2>2. CASE /\ pub[a].st = "published" /\ UNCHANGED minted
             /\ pub' = [pub EXCEPT ![a].st = "assigned"]
    <3>1. pub \in [Agent -> PublicationRecord] BY DEF Inv, TypeOK, DeviceTypeOK, DrainBatch
    <3>2. pub'[a].st = "assigned" /\ pub'[a].gen = pub[a].gen /\ pub'[a].inc = pub[a].inc
      BY <2>2, <3>1 DEF PublicationRecord
    <3>3. \A b \in Agent \ {a} : pub'[b] = pub[b] BY <2>2, <3>1
    <3> QED BY <2>2, <3>2, <3>3 DEF PubMoves, Assigned
  <2> QED BY <2>1, <2>2 DEF PlanCaptured, FenceCatalogCommit
<1> QED BY <1>1, <1>3, <1>4, OutboxStaysMove, JournalStayMove DEF DeviceMoves

\* An answer is bound only while the hub still holds what it said.
LEMMA BoundMoves ==
    ASSUME Inv, LifeInv, NEW c \in Caller, call[c].state = "ok", call[c].req.kind = "register",
           Bindable(call[c].req.agent, call[c].req.inc, call[c].gen),
           pub' = Bound(call[c].req.agent, call[c].gen)
    PROVE  \A b \in Agent : PubMoves(b)
<1>1. PICK a, g : a = call[c].req.agent /\ g = call[c].gen OBVIOUS
<1>2. a \in Agent BY <1>1 DEF Inv, RequestsOK, CallsOK, RequestOK
<1>3. pub \in [Agent -> PublicationRecord] BY DEF Inv, TypeOK, DeviceTypeOK, DrainBatch
<1>4. CASE pub[a].st # "pending" BY <1>1, <1>4 DEF Bound, PubMoves
<1>5. CASE pub[a].st = "pending"
  <2>1. ActiveAs(a, g, pub[a].inc)
    BY <1>1, <1>2, <1>5 DEF LifeInv, AnswerIsActive, Bindable
  <2>2. pub' = [pub EXCEPT ![a].st = "assigned", ![a].gen = g]
    BY <1>1, <1>5 DEF Bound
  <2>3. pub'[a].st = "assigned" /\ pub'[a].gen = g /\ pub'[a].inc = pub[a].inc
    BY <1>2, <1>3, <2>2 DEF PublicationRecord
  <2>4. \A b \in Agent \ {a} : pub'[b] = pub[b] BY <1>2, <1>3, <2>2
  <2> QED BY <1>5, <2>1, <2>3, <2>4 DEF PubMoves
<1> QED BY <1>4, <1>5

LEMMA ActivateMoves ==
    ASSUME Inv, LifeInv, NEW w \in Worker, Activate(w)
    PROVE  DeviceMoves
<1>0. w \in Caller /\ w # Drain /\ w # Replay BY LifecycleAssumption
<1>1. PICK r, g : r = call[w].req /\ g = call[w].gen OBVIOUS
<1>2. /\ call[w].state = "ok" /\ r.kind = "register" /\ Bindable(r.agent, r.inc, g)
      /\ pub' = Bound(r.agent, g)
      /\ \/ call' = [call EXCEPT ![w].state = "handoff"] /\ UNCHANGED inbox
         \/ HangUp(w)
         \/ Issue(PublishRequest(w, r.agent, r.inc, g))
      /\ UNCHANGED <<journal, outbox, drain, minted>>
  BY <1>1 DEF Activate
<1>3. \A b \in Agent : PubMoves(b) BY <1>0, <1>1, <1>2, BoundMoves
<1>4. call \in [Caller -> Call] BY DEF Inv, RequestsOK, CallsOK
<1>5. RequestOK(r) /\ g \in Generation
  BY <1>0, <1>1, <1>2, <1>4 DEF Inv, RequestsOK, CallsOK, Call
<1>6. ASSUME call' = [call EXCEPT ![w].state = "handoff"] /\ UNCHANGED inbox
      PROVE  CallsMove
  <2>1. call'[w].state = "handoff" /\ call'[w].req = r BY <1>0, <1>1, <1>4, <1>6 DEF Call
  <2>2. \A d \in Caller \ {w} : call'[d] = call[d] BY <1>4, <1>6
  <2>3. r.inc \in minted BY <1>0, <1>1, <1>2 DEF LifeInv, TokensMinted
  <2>4. WireMoves BY <1>6 DEF WireMoves
  <2>5. \A d \in Caller : CallMoves(d) BY <1>2, <2>1, <2>2, <2>3 DEF CallMoves
  <2>6. DrainMoves BY <1>0, <1>2, <2>2, DrainIsCaller DEF DrainMoves, EntryStays
  <2>7. ReplayMoves BY <1>0, <2>2, DrainIsCaller DEF ReplayMoves
  <2> QED BY <2>4, <2>5, <2>6, <2>7 DEF CallsMove
<1>7. ASSUME HangUp(w) PROVE CallsMove
  BY <1>0, <1>2, <1>7, HangUpMoves
<1>8. ASSUME Issue(PublishRequest(w, r.agent, r.inc, g)) PROVE CallsMove
  <2>1. PICK q : q = PublishRequest(w, r.agent, r.inc, g) OBVIOUS
  <2>2. r.agent \in Agent /\ r.inc \in Incarnation \cup {None} BY <1>5 DEF RequestOK, Request
  <2>3. RequestOK(q) /\ q.from = w BY <1>0, <1>5, <2>1, <2>2, PublishRequestOK
  <2>4. q.kind = "publish" BY <2>1 DEF PublishRequest, NoRequest
  <2>5. Issue(q) BY <1>8, <2>1
  <2> QED BY <1>0, <1>2, <2>3, <2>4, <2>5, IssueMoves
<1>9. CallsMove BY <1>2, <1>6, <1>7, <1>8
<1> QED BY <1>2, <1>3, <1>9, OutboxStaysMove, JournalStayMove DEF DeviceMoves

LEMMA MarkPublishedMoves ==
    ASSUME Inv, LifeInv, NEW w \in Worker, MarkPublished(w)
    PROVE  DeviceMoves
<1>0. w \in Caller /\ w # Drain /\ w # Replay BY LifecycleAssumption
<1>1. PICK r : r = call[w].req OBVIOUS
<1>2. /\ call[w].state = "ok"
      /\ \/ Assigned(pub[r.agent]) /\ pub' = [pub EXCEPT ![r.agent].st = "published"]
         \/ UNCHANGED pub
      /\ HangUp(w)
      /\ UNCHANGED <<journal, outbox, drain, minted>>
  BY <1>1 DEF MarkPublished
<1>3. r.agent \in Agent BY <1>0, <1>1, <1>2 DEF Inv, RequestsOK, CallsOK, RequestOK
<1>4. pub \in [Agent -> PublicationRecord] BY DEF Inv, TypeOK, DeviceTypeOK, DrainBatch
<1>5. \A b \in Agent : PubMoves(b)
  <2>1. CASE pub' = pub BY <2>1 DEF PubMoves
  <2>2. CASE pub' = [pub EXCEPT ![r.agent].st = "published"] /\ Assigned(pub[r.agent])
    <3>1. /\ pub'[r.agent].st = "published" /\ pub'[r.agent].gen = pub[r.agent].gen
          /\ pub'[r.agent].inc = pub[r.agent].inc
      BY <1>3, <1>4, <2>2 DEF PublicationRecord
    <3>2. \A b \in Agent \ {r.agent} : pub'[b] = pub[b] BY <1>3, <1>4, <2>2
    <3> QED BY <2>2, <3>1, <3>2 DEF PubMoves, Assigned
  <2> QED BY <1>2, <2>1, <2>2
<1>6. CallsMove BY <1>0, <1>2, HangUpMoves
<1> QED BY <1>2, <1>5, <1>6, OutboxStaysMove, JournalStayMove DEF DeviceMoves

LEMMA HandOffMoves ==
    ASSUME Inv, LifeInv, NEW w \in Worker, HandOff(w)
    PROVE  DeviceMoves
<1>0. w \in Caller BY LifecycleAssumption
<1>1. /\ \/ journal' = journal
         \/ journal' = TombstonePlan /\ journal.stage = "assignmentPending"
      /\ HangUp(w) /\ UNCHANGED <<pub, outbox, drain, minted>>
  BY DEF HandOff
<1>2. JournalMoves BY <1>1, PlanMoves, JournalStayMove DEF Inv, JournalOK
<1>3. CallsMove BY <1>0, <1>1, HangUpMoves
<1> QED BY <1>1, <1>2, <1>3, FilesStayMove DEF DeviceMoves, FilesStay

LEMMA ReplayAssignmentMoves ==
    ASSUME Inv, LifeInv, ReplayAssignment
    PROVE  DeviceMoves
<1>1. /\ UNCHANGED <<pub, outbox, drain, minted, journal>>
      /\ journal.stage = "assignmentPending"
      /\ pub[journal.agent].st = "pending" /\ pub[journal.agent].inc = journal.inc
  BY DEF ReplayAssignment, deviceVars
<1>2. PICK r : r = RegisterRequest(Replay, journal.agent, journal.inc, journal.txn) OBVIOUS
<1>3. /\ journal.agent \in Agent /\ journal.txn \in Txn \cup {None}
      /\ journal.inc \in Incarnation \cup {None}
  BY <1>1 DEF Inv, TypeOK, DeviceTypeOK, DrainBatch, JournalOK, Journal
<1>4. RequestOK(r) /\ r.from = Replay BY <1>2, <1>3, RegisterRequestOK, DrainIsCaller
<1>5. r.kind = "register" /\ r.inc = journal.inc BY <1>2 DEF RegisterRequest, NoRequest
<1>6. Issue(r) BY <1>2 DEF ReplayAssignment
<1>7. journal.inc \in minted' BY <1>1, <1>3 DEF LifeInv, TokensMinted
<1>8. CallsMove BY <1>1, <1>4, <1>5, <1>6, <1>7, IssueMoves, DrainIsCaller
<1> QED BY <1>1, <1>8, FilesStayMove, JournalStayMove DEF DeviceMoves, FilesStay

LEMMA BindReplayedMoves ==
    ASSUME Inv, LifeInv, BindReplayed
    PROVE  DeviceMoves
<1>1. PICK r : r = call[Replay].req OBVIOUS
<1>2. /\ call[Replay].state = "ok"
      /\ \/ pub' = pub
         \/ pub' = Bound(r.agent, call[Replay].gen) /\ Bindable(r.agent, r.inc, call[Replay].gen)
      /\ HangUp(Replay) /\ UNCHANGED <<journal, outbox, drain, minted>>
  BY <1>1 DEF BindReplayed, StillAwaited
<1>3. r.kind = "register" BY <1>1, <1>2 DEF LifeInv, ReplayRegisters
<1>4. \A b \in Agent : PubMoves(b)
  <2>1. CASE pub' = pub BY <2>1 DEF PubMoves
  <2>2. CASE /\ pub' = Bound(r.agent, call[Replay].gen)
             /\ Bindable(r.agent, r.inc, call[Replay].gen)
    BY <1>1, <1>2, <1>3, <2>2, BoundMoves, DrainIsCaller
  <2> QED BY <1>2, <2>1, <2>2
<1>5. CallsMove BY <1>2, HangUpMoves, DrainIsCaller
<1> QED BY <1>2, <1>4, <1>5, OutboxStaysMove, JournalStayMove DEF DeviceMoves

LEMMA EnqueueMoves ==
    ASSUME Inv, LifeInv, EnqueuePublication
    PROVE  DeviceMoves
<1>1. /\ UNCHANGED <<netVars, pub, journal, drain, minted>>
      /\ journal.stage = "tombstonePrepared" /\ journal.gen # 0
  BY DEF EnqueuePublication
<1>2. PICK a : a = journal.agent OBVIOUS
<1>3. a \in Agent BY <1>1, <1>2 DEF Inv, JournalOK
<1>4. Retracts(a, journal.gen) BY <1>1, <1>2 DEF LifeInv, RetractionIsBound
<1>5. CASE OutboxHolds(a)
  <2>1. outbox' = outbox BY <1>2, <1>5 DEF EnqueuePublication
  <2> QED BY <1>1, <2>1, JournalStepMoves, JournalStayMove
<1>6. CASE ~ OutboxHolds(a)
  <2>1. PICK e : e = NewEntry OBVIOUS
  <2>2. outbox' = [outbox EXCEPT ![a] = e] BY <1>2, <1>6, <2>1 DEF EnqueuePublication
  <2>3. e.gen = journal.gen BY <2>1 DEF NewEntry, NoEntry
  <2>4. \A b \in Agent : outbox'[b] = IF b = a THEN e ELSE outbox[b]
    BY <1>3, <2>2 DEF Inv, TypeOK, DeviceTypeOK, DrainBatch
  <2>5. \A b \in Agent : OutboxMoves(b)
    BY <1>1, <1>4, <1>6, <2>3, <2>4 DEF OutboxMoves, EntryStays
  <2>6. call[Drain].state # "idle" => drain.agent \in Agent /\ drain.agent # a
    BY <1>6 DEF Inv, DrainOK, OutboxHolds
  <2>7. CallsMove
    <3>1. inbox' = inbox /\ call' = call BY <1>1 DEF netVars
    <3>2. DrainMoves BY <1>1, <2>4, <2>6, <3>1 DEF DrainMoves, EntryStays
    <3> QED BY <3>1, <3>2 DEF CallsMove, WireMoves, ReplayMoves, CallMoves
  <2>8. \A b \in Agent : PubMoves(b) BY <1>1 DEF PubMoves
  <2> QED BY <1>1, <2>5, <2>7, <2>8, JournalStayMove DEF DeviceMoves
<1> QED BY <1>5, <1>6

\* A write of entries that keeps their transactions and generations.
LEMMA EntriesStayMove ==
    ASSUME UNCHANGED <<pub, journal, minted>>, \A a \in Agent : EntryStays(a), CallsMove
    PROVE  DeviceMoves
BY JournalStayMove DEF DeviceMoves, PubMoves, OutboxMoves

LEMMA EntryWriteStays ==
    ASSUME Inv, NEW a \in Agent, NEW e, e.txn = outbox[a].txn, e.gen = outbox[a].gen,
           outbox' = [outbox EXCEPT ![a] = e]
    PROVE  \A b \in Agent : EntryStays(b)
BY DEF Inv, TypeOK, DeviceTypeOK, DrainBatch, EntryStays

LEMMA BeginDrainMoves ==
    ASSUME Inv, LifeInv, BeginDrain
    PROVE  DeviceMoves
<1>1. /\ UNCHANGED <<netVars, pub, journal, minted>> /\ ~ drain.on
      /\ \A a \in Agent : outbox'[a] = IF outbox[a].retry = "claimed"
                                       THEN [outbox[a] EXCEPT !.retry = "ready", !.fence = 0]
                                       ELSE outbox[a]
  BY DEF BeginDrain
<1>2. \A a \in Agent : outbox[a] \in OutboxEntry BY DEF Inv, TypeOK, DeviceTypeOK, DrainBatch
<1>3. \A a \in Agent : EntryStays(a) BY <1>1, <1>2 DEF EntryStays, OutboxEntry
<1>4. call[Drain].state = "idle" BY <1>1 DEF Inv, DrainOK
<1>5. CallsMove
  <2>1. inbox' = inbox /\ call' = call BY <1>1 DEF netVars
  <2> QED BY <1>4, <2>1 DEF CallsMove, WireMoves, DrainMoves, ReplayMoves, CallMoves
<1> QED BY <1>1, <1>3, <1>5, EntriesStayMove

\* The drain sends what the entry it works on owes the hub.
LEMMA EntrySentMoves ==
    ASSUME Inv, LifeInv, NEW a \in Agent, NEW e \in OutboxEntry, OutboxHolds(a),
           e.txn = outbox[a].txn, e.gen = outbox[a].gen,
           outbox' = [outbox EXCEPT ![a] = e], drain'.agent = a,
           Issue(DrainRequest(a, e)), UNCHANGED <<pub, journal, minted>>
    PROVE  DeviceMoves
<1>1. \A b \in Agent : EntryStays(b) BY EntryWriteStays
<1>2. PICK r : r = DrainRequest(a, e) OBVIOUS
<1>3. e.txn # None BY DEF OutboxHolds
<1>4. RequestOK(r) /\ r.from = Drain BY <1>2, <1>3, DrainRequestOK
<1>5. r.kind \in {"publish", "revoke"} /\ r.agent = a /\ r.gen = e.gen
  BY <1>2 DEF DrainRequest, NoRequest
<1>6. Issue(r) BY <1>2
<1>7. HoldsGen(a, r.gen) BY <1>5 DEF HoldsGen
<1>8. outbox'[a] = e BY DEF Inv, TypeOK, DeviceTypeOK, DrainBatch
<1>9. CallsMove
  BY <1>1, <1>4, <1>5, <1>6, <1>7, <1>8, IssueMoves, DrainIsCaller
<1> QED BY <1>1, <1>9, EntriesStayMove

LEMMA ClaimNextMoves ==
    ASSUME Inv, LifeInv, NEW a \in Agent, ClaimNext(a)
    PROVE  DeviceMoves
<1>1. PICK e : e = Claimed(outbox[a]) OBVIOUS
<1>2. /\ OutboxHolds(a) /\ outbox' = [outbox EXCEPT ![a] = e]
      /\ Issue(DrainRequest(a, e)) /\ UNCHANGED <<pub, journal, minted>>
  BY <1>1 DEF ClaimNext
<1>3. outbox[a] \in OutboxEntry
      /\ drain \in [on : BOOLEAN, agent : Agent \cup {None}, done : SUBSET Txn]
  BY DEF Inv, TypeOK, DeviceTypeOK, DrainBatch
<1>4. outbox[a].next \in Fence /\ outbox[a].next + 1 \in 1..(MaxFence + 1)
  BY <1>3, InventoryAssumption DEF ClaimNext, OutboxEntry, Fence
<1>5. e \in OutboxEntry /\ e.txn = outbox[a].txn /\ e.gen = outbox[a].gen
  BY <1>1, <1>3, <1>4 DEF Claimed, OutboxEntry
<1>6. drain'.agent = a BY <1>3 DEF ClaimNext
<1> QED BY <1>2, <1>5, <1>6, EntrySentMoves

LEMMA AdvanceMoves ==
    ASSUME Inv, LifeInv, AdvanceToRevoke
    PROVE  DeviceMoves
<1>1. PICK a : a = drain.agent OBVIOUS
<1>2. PICK e : e = [outbox[a] EXCEPT !.stage = "revoke", !.attempts = 0] OBVIOUS
<1>3. /\ call[Drain].state = "ok" /\ outbox' = [outbox EXCEPT ![a] = e]
      /\ Issue(DrainRequest(a, e)) /\ UNCHANGED <<pub, journal, drain, minted>>
  BY <1>1, <1>2 DEF AdvanceToRevoke
<1>4. a \in Agent /\ OutboxHolds(a) BY <1>1, <1>3, DrainHoldsEntry
<1>5. outbox[a] \in OutboxEntry BY <1>4 DEF Inv, TypeOK, DeviceTypeOK, DrainBatch
<1>6. e \in OutboxEntry /\ e.txn = outbox[a].txn /\ e.gen = outbox[a].gen
  <2>1. 0 \in 0..MaxAttempts BY LifecycleAssumption
  <2> QED BY <1>2, <1>5, <2>1 DEF OutboxEntry
<1> QED BY <1>1, <1>3, <1>4, <1>6, EntrySentMoves

LEMMA RetireLocallyMoves ==
    ASSUME Inv, LifeInv, RetireLocally
    PROVE  DeviceMoves
<1>1. PICK a : a = drain.agent OBVIOUS
<1>2. /\ call[Drain].state = "ok" /\ call[Drain].req.kind = "revoke"
      /\ pub' = IF pub[a].st = "none" THEN pub ELSE [pub EXCEPT ![a].st = "retired"]
      /\ call' = [call EXCEPT ![Drain].state = "retired"]
      /\ UNCHANGED <<inbox, journal, outbox, drain, minted>>
  BY <1>1 DEF RetireLocally
<1>0. /\ a \in Agent /\ OutboxHolds(a) /\ call[Drain].req.agent = a
      /\ outbox[a].gen = call[Drain].req.gen /\ Retracts(a, call[Drain].req.gen)
  BY <1>1, <1>2, DrainHoldsEntry DEF HoldsGen
<1>3. HasGeneration(pub[a]) /\ pub[a].gen = call[Drain].req.gen
  BY <1>0, <1>1 DEF RetireLocally, Retirable, Retracts, HasGeneration
<1>4. Gone(a, pub[a].gen)
  BY <1>0, <1>2, <1>3 DEF LifeInv, DrainIsSettled, Settled
<1>5. pub \in [Agent -> PublicationRecord] /\ call \in [Caller -> Call]
  BY DEF Inv, TypeOK, DeviceTypeOK, DrainBatch, RequestsOK, CallsOK
<1>6. pub' = [pub EXCEPT ![a].st = "retired"] BY <1>2, <1>3 DEF HasGeneration
<1>7. pub'[a].st = "retired" /\ pub'[a].gen = pub[a].gen /\ pub'[a].inc = pub[a].inc
  BY <1>0, <1>5, <1>6 DEF PublicationRecord
<1>8. \A b \in Agent \ {a} : pub'[b] = pub[b] BY <1>0, <1>5, <1>6
<1>9. \A b \in Agent : PubMoves(b) BY <1>0, <1>3, <1>4, <1>7, <1>8 DEF PubMoves
<1>10. call'[Drain].state = "retired" /\ call'[Drain].req = call[Drain].req
  BY <1>2, <1>5, DrainIsCaller DEF Call
<1>11. \A c \in Caller \ {Drain} : call'[c] = call[c] BY <1>2, <1>5
<1>12. CallsMove
  <2>1. WireMoves BY <1>2 DEF WireMoves
  <2>2. DrainMoves BY <1>1, <1>2, <1>7, <1>10 DEF DrainMoves
  <2>3. ReplayMoves BY <1>11, DrainIsCaller DEF ReplayMoves
  <2>4. \A c \in Caller : CallMoves(c) BY <1>2, <1>10, <1>11 DEF CallMoves
  <2> QED BY <2>1, <2>2, <2>3, <2>4 DEF CallsMove
<1> QED BY <1>2, <1>9, <1>12, OutboxStaysMove, JournalStayMove DEF DeviceMoves

LEMMA CompleteEntryMoves ==
    ASSUME Inv, LifeInv, CompleteEntry
    PROVE  DeviceMoves
<1>1. PICK a : a = drain.agent OBVIOUS
<1>2. PICK e : e = NoEntry OBVIOUS
<1>3. /\ call[Drain].state = "retired" /\ outbox' = [outbox EXCEPT ![a] = e]
      /\ HangUp(Drain) /\ UNCHANGED <<pub, journal, minted>>
  BY <1>1, <1>2 DEF CompleteEntry
<1>4. /\ a \in Agent /\ call[Drain].req.agent = a /\ call[Drain].req.gen = outbox[a].gen
  BY <1>1, <1>3, DrainHoldsEntry DEF HoldsGen
<1>5. Settled(a, outbox[a].gen) /\ Released(a, outbox[a].gen)
  BY <1>1, <1>3, <1>4 DEF LifeInv, DrainIsSettled
<1>6. e.txn = None BY <1>2 DEF NoEntry
<1>7. \A b \in Agent : outbox'[b] = IF b = a THEN e ELSE outbox[b]
  BY <1>3, <1>4 DEF Inv, TypeOK, DeviceTypeOK, DrainBatch
<1>8. \A b \in Agent : OutboxMoves(b)
  BY <1>3, <1>5, <1>6, <1>7 DEF OutboxMoves, EntryStays
<1>9. CallsMove BY <1>3, HangUpMoves, DrainIsCaller
<1>10. \A b \in Agent : PubMoves(b) BY <1>3 DEF PubMoves
<1> QED BY <1>3, <1>8, <1>9, <1>10, JournalStayMove DEF DeviceMoves

LEMMA RecordFailureMoves ==
    ASSUME Inv, LifeInv, RecordFailure
    PROVE  DeviceMoves
<1>1. PICK a : a = drain.agent OBVIOUS
<1>2. PICK e : e = Failed(outbox[a]) OBVIOUS
<1>3. /\ call[Drain].state # "idle" /\ outbox' = [outbox EXCEPT ![a] = e]
      /\ HangUp(Drain) /\ UNCHANGED <<pub, journal, minted>>
  BY <1>1, <1>2 DEF RecordFailure
<1>4. a \in Agent BY <1>1, <1>3, DrainHoldsEntry
<1>5. outbox[a] \in OutboxEntry BY <1>4 DEF Inv, TypeOK, DeviceTypeOK, DrainBatch
<1>6. e.txn = outbox[a].txn /\ e.gen = outbox[a].gen BY <1>2, <1>5 DEF Failed, OutboxEntry
<1>7. \A b \in Agent : EntryStays(b) BY <1>3, <1>4, <1>6, EntryWriteStays
<1>8. CallsMove BY <1>3, HangUpMoves, DrainIsCaller
<1> QED BY <1>3, <1>7, <1>8, EntriesStayMove

LEMMA ReconcileRetryMoves ==
    ASSUME Inv, LifeInv, NEW a \in Agent, ReconcileRetry(a)
    PROVE  DeviceMoves
<1>1. /\ outbox' = [outbox EXCEPT ![a].retry = "ready", ![a].attempts = 0]
      /\ UNCHANGED <<netVars, pub, journal, drain, minted>>
  BY DEF ReconcileRetry
<1>2. outbox \in [Agent -> OutboxEntry] BY DEF Inv, TypeOK, DeviceTypeOK, DrainBatch
<1>3. \A b \in Agent : EntryStays(b) BY <1>1, <1>2 DEF EntryStays, OutboxEntry
<1>4. CallsMove BY <1>1, <1>3, NetStaysMove
<1> QED BY <1>1, <1>3, <1>4, EntriesStayMove

LEMMA DeviceCrashMoves ==
    ASSUME Inv, LifeInv, DeviceCrash
    PROVE  DeviceMoves
<1>1. /\ \A c \in Caller : call'[c] = IdleCall
      /\ UNCHANGED <<inbox, pub, journal, outbox, minted>>
  BY DEF DeviceCrash
<1>2. IdleCall.state = "idle" BY DEF IdleCall
<1>3. CallsMove
  BY <1>1, <1>2, DrainIsCaller DEF CallsMove, WireMoves, DrainMoves, ReplayMoves, CallMoves
<1> QED BY <1>1, <1>3, FilesStayMove, JournalStayMove DEF DeviceMoves, FilesStay

LEMMA DeviceStepMoves ==
    ASSUME Inv, LifeInv, DeviceNext
    PROVE  DeviceMoves
<1>1. ASSUME NEW a \in Agent, StartAgent(a) PROVE DeviceMoves
  BY <1>1, JournalStepMoves, JournalStayMove DEF StartAgent
<1>2. ASSUME NEW a \in Agent, BeginRetraction(a) PROVE DeviceMoves
  <2>1. PICK t : journal' = [NoJournal EXCEPT !.stage = "uncommitted", !.txn = t, !.agent = a]
    BY <1>2 DEF BeginRetraction
  <2>2. JournalMoves BY <2>1 DEF NoJournal, JournalMoves
  <2> QED BY <1>2, <2>2, JournalStepMoves DEF BeginRetraction
<1>3. ASSUME NEW w \in Worker, ActivateRefused(w) PROVE DeviceMoves
  <2>1. HangUp(w) /\ UNCHANGED <<pub, outbox, minted, journal, drain>> /\ w \in Caller
    BY <1>3, LifecycleAssumption DEF ActivateRefused, deviceVars
  <2> QED BY <2>1, HangUpMoves, FilesStayMove, JournalStayMove DEF DeviceMoves, FilesStay
<1>4. ASSUME NEW c \in Worker \cup {Replay}, Abandon(c) PROVE DeviceMoves
  <2>1. HangUp(c) /\ UNCHANGED <<pub, outbox, minted, journal, drain>> /\ c \in Caller
    BY <1>4, LifecycleAssumption DEF Abandon, deviceVars
  <2> QED BY <2>1, HangUpMoves, FilesStayMove, JournalStayMove DEF DeviceMoves, FilesStay
<1>5. CASE CommitRetraction
  <2>1. journal.stage = "uncommitted" /\ journal' = [journal EXCEPT !.stage = "committed"]
    BY <1>5 DEF CommitRetraction
  <2>2. JournalMoves BY <2>1 DEF JournalMoves, Inv, TypeOK, DeviceTypeOK, DrainBatch, Journal
  <2> QED BY <1>5, <2>2, JournalStepMoves DEF CommitRetraction
<1>6. CASE RollBack \/ ClearJournal
  <2>1. journal' = NoJournal BY <1>6 DEF RollBack, ClearJournal
  <2>2. JournalMoves BY <2>1 DEF JournalMoves, NoJournal
  <2> QED BY <1>6, <2>2, JournalStepMoves DEF RollBack, ClearJournal
<1>7. CASE FinalizeRetraction \/ Promote
  <2>1. journal' = TombstonePlan /\ pub' = pub /\ journal.agent \in Agent
    BY <1>7 DEF FinalizeRetraction, Promote, Inv, JournalOK
  <2>2. JournalMoves BY <2>1, PlanMoves
  <2> QED BY <1>7, <2>2, JournalStepMoves DEF FinalizeRetraction, Promote
<1>8. CASE RetractionStops \/ RecoverRetraction \/ DeviceBoots
  BY <1>8, JournalStepMoves, JournalStayMove
     DEF RetractionStops, RecoverRetraction, DeviceBoots
<1>9. CASE EndDrain
  <2>1. HangUp(Drain) /\ UNCHANGED <<pub, outbox, minted, journal>> BY <1>9 DEF EndDrain
  <2> QED BY <2>1, DrainIsCaller, HangUpMoves, FilesStayMove, JournalStayMove
          DEF DeviceMoves, FilesStay
<1> QED
  BY <1>1, <1>2, <1>3, <1>4, <1>5, <1>6, <1>7, <1>8, <1>9, BeginRegistrationMoves,
     RecordWriteMoves, ActivateMoves, MarkPublishedMoves, HandOffMoves, ReplayAssignmentMoves,
     BindReplayedMoves, EnqueueMoves, BeginDrainMoves, ClaimNextMoves, AdvanceMoves,
     RetireLocallyMoves, CompleteEntryMoves, RecordFailureMoves, ReconcileRetryMoves,
     DeviceCrashMoves
  DEF DeviceNext

-----------------------------------------------------------------------------
(* The theorems.                                                           *)

LEMMA InitLife == Init => LifeInv
<1> SUFFICES ASSUME Init PROVE LifeInv
  OBVIOUS
<1>1. /\ \A a \in Agent : record[a] = [life |-> "absent", gen |-> 0, inc |-> None]
      /\ \A t \in Txn : txns[t].state = "absent"
      /\ \A a \in Agent : advertised[a] = 0 /\ catalog[a] = NoRow
      /\ inbox = {}
      /\ \A c \in Caller : call[c] = IdleCall
  BY DEF Init, InventoryInit
<1>2. /\ \A a \in Agent : pub[a] = [st |-> "none", inc |-> None, gen |-> 0]
      /\ \A a \in Agent : outbox[a] = NoEntry
      /\ journal = NoJournal
  BY DEF Init, DeviceInit
<1>3. NoRow.gen = 0 /\ NoEntry.txn = None /\ NoJournal.stage = "none" /\ IdleCall.state = "idle"
  BY DEF NoRow, NoEntry, NoJournal, IdleCall
<1>4. \A a \in Agent : /\ record[a].life = "absent" /\ record[a].inc = None
                       /\ pub[a].st = "none" /\ ~ OutboxHolds(a)
  BY <1>1, <1>2, <1>3 DEF OutboxHolds
<1>5. \A c \in Caller : call[c].state = "idle" BY <1>1, <1>3
<1>6. TokensMinted /\ RevokesNameGeneration BY <1>1, <1>4, <1>5 DEF TokensMinted, RevokesNameGeneration
<1>7. DrainCallOK /\ ReplayRegisters /\ DrainIsSettled /\ AnswerIsActive
  BY <1>5, DrainIsCaller DEF DrainCallOK, ReplayRegisters, DrainIsSettled, AnswerIsActive
<1>8. RetractionIsBound BY <1>2, <1>3, <1>4 DEF RetractionIsBound
<1>9. BoundIsKnown /\ BoundIsActive /\ PendingIsActive
  BY <1>4 DEF BoundIsKnown, BoundIsActive, PendingIsActive, HasGeneration, Assigned
<1>10. RevokesAreAsked /\ AppliedIsGone BY <1>1 DEF RevokesAreAsked, Source, AppliedIsGone
<1>11. RetiredIsRevoked /\ RetirementIsAsked BY <1>4 DEF RetiredIsRevoked, RetirementIsAsked
<1>12. DirectoryIsBacked BY <1>1, <1>3 DEF DirectoryIsBacked
<1> QED
  BY <1>6, <1>7, <1>8, <1>9, <1>10, <1>11, <1>12 DEF LifeInv

LEMMA StutterLife ==
    ASSUME LifeInv, UNCHANGED vars
    PROVE  LifeInv'
<1>1. UNCHANGED <<record, txns, advertised, catalog, inbox, call, pub, journal, outbox, drain, minted>>
  BY DEF vars, hubVars, netVars, deviceVars
<1>2. TokensMinted' /\ RevokesNameGeneration' /\ DrainCallOK' /\ ReplayRegisters'
  BY <1>1 DEF LifeInv, TokensMinted, RevokesNameGeneration, DrainCallOK, ReplayRegisters
<1>3. RetractionIsBound' /\ BoundIsKnown' /\ BoundIsActive' /\ PendingIsActive'
  BY <1>1 DEF LifeInv, RetractionIsBound, BoundIsKnown, BoundIsActive, PendingIsActive,
              Retracts, Gone, HoldsGen, OutboxHolds, ActiveAs
<1>4. AnswerIsActive' /\ DrainIsSettled' /\ AppliedIsGone'
  BY <1>1 DEF LifeInv, AnswerIsActive, DrainIsSettled, AppliedIsGone, ActiveAs, Settled, Gone, Released
<1>5. RevokesAreAsked' BY <1>1 DEF LifeInv, RevokesAreAsked, Source, Gone, HoldsGen, OutboxHolds
<1>6. RetiredIsRevoked' /\ RetirementIsAsked' /\ DirectoryIsBacked'
  BY <1>1 DEF LifeInv, RetiredIsRevoked, RetirementIsAsked, DirectoryIsBacked, OutboxHolds
<1> QED
  BY <1>2, <1>3, <1>4, <1>5, <1>6 DEF LifeInv

LEMMA LifeStep == Inv /\ LifeInv /\ [Next]_vars => LifeInv'
<1> SUFFICES ASSUME Inv, LifeInv, [Next]_vars PROVE LifeInv'
  OBVIOUS
<1>1. CASE HubNext /\ UNCHANGED deviceVars
  BY <1>1, HubStepMoves, HubKeepsLife
<1>2. CASE DeviceNext /\ UNCHANGED hubVars
  <2>1. minted' \subseteq Incarnation
    BY <1>2, DeviceStep DEF DeviceKeeps, DeviceTypeOK, DrainBatch
  <2> QED BY <1>2, <2>1, DeviceStepMoves, DeviceKeepsLife
<1>3. CASE UNCHANGED vars BY <1>3, StutterLife
<1> QED
  BY <1>1, <1>2, <1>3 DEF Next

LEMMA LifeInvariant == Spec => []LifeInv
BY InitLife, LifeStep, Invariant, PTL DEF Spec

\* An assignment the device has bound and does not retract is the one the hub
\* holds active: bind_assignment takes a late answer, a repeated registration
\* or a replayed one only while the hub has not moved on.
THEOREM BoundAssignmentIsActive == Spec => []PublishedIsActive
<1>1. LifeInv => PublishedIsActive
  BY DEF LifeInv, BoundIsActive, ActiveAs, PublishedIsActive, Fenced, HoldsGen
<1> QED
  BY <1>1, LifeInvariant, PTL

\* retire_generation runs only after the hub durably gave the generation up.
THEOREM RetiredWasRevoked == Spec => []RetiredIsRevoked
<1>1. LifeInv => RetiredIsRevoked
  BY DEF LifeInv
<1> QED
  BY <1>1, LifeInvariant, PTL

\* The hub retires a generation only for an entry the device still has in its
\* outbox or has completed, however late or often the revoke arrives and
\* whichever crash it is recovered from.
THEOREM RetirementWasAsked == Spec => []RetirementIsAsked
<1>1. LifeInv => RetirementIsAsked
  BY DEF LifeInv
<1> QED
  BY <1>1, LifeInvariant, PTL

\* A routing row that outlives its active record has its purge in the outbox:
\* no row is left behind that nothing will remove.
THEOREM RowsAreBacked == Spec => []DirectoryIsBacked
<1>1. LifeInv => DirectoryIsBacked
  BY DEF LifeInv
<1> QED
  BY <1>1, LifeInvariant, PTL

-----------------------------------------------------------------------------
(***************************************************************************)
(* The contract of hub and device: every step is one of the contract's, or *)
(* it changes nothing the contract speaks of.                              *)
(***************************************************************************)
RowsMap == [a \in Agent |-> Rows(a)]
BindingMap == [a \in Agent |-> Binding(a)]
RequestedMap == [a \in Agent |-> Requested(a)]

ContractStep ==
    Contract!Next \/ UNCHANGED <<record, RowsMap, BindingMap, RequestedMap, minted>>

\* The hub's durable record, seen by the contract.
LEMMA RegisterContract ==
    ASSUME Inv, LifeInv, NEW r \in inbox, Register(r)
    PROVE  record' = record \/ \E a \in Agent : Contract!Assign(a)
<1>1. r.agent \in Agent BY DEF Inv, RequestsOK, RequestOK
<1>2. PICK rec : rec = record[r.agent] OBVIOUS
<1>3. rec \in InventoryRecord /\ record \in [Agent -> InventoryRecord]
  BY <1>1, <1>2 DEF Inv, TypeOK, InventoryTypeOK, CatalogRow, HubCall
<1>4. PICK new : new = [life |-> "active", gen |-> AssignedGeneration(rec), inc |-> r.inc]
  OBVIOUS
<1>5. record' = [record EXCEPT ![r.agent] = new] BY <1>2, <1>4 DEF Register
<1>6. r.inc \in minted BY DEF LifeInv, TokensMinted, Register, Takes
<1>7. Registrable(rec, r.inc) BY <1>2 DEF Register
<1>8. CASE rec.life = "active"
  <2>1. AssignedGeneration(rec) = rec.gen /\ rec.inc = r.inc
    BY <1>7, <1>8 DEF Registrable, AssignedGeneration
  <2>2. new = rec BY <1>3, <1>4, <1>8, <2>1 DEF InventoryRecord
  <2> QED BY <1>2, <1>3, <1>5, <2>2
<1>9. CASE rec.life # "active"
  <2>1. new = [life |-> "active", gen |-> rec.gen + 1, inc |-> r.inc]
    BY <1>4, <1>9 DEF AssignedGeneration
  <2>2. rec.life = "retired" => r.inc # rec.inc BY <1>7 DEF Registrable
  <2>3. Contract!Assign(r.agent)
    BY <1>2, <1>5, <1>6, <1>9, <2>1, <2>2 DEF Contract!Assign
  <2> QED BY <1>1, <2>3
<1> QED BY <1>8, <1>9

LEMMA ApplyContract ==
    ASSUME Inv, LifeInv, NEW t, NEW x \in RevokeTransaction, x.agent \in Agent, Apply(t, x),
           RecordMoves(x.agent)
    PROVE  record' = record \/ \E a \in Agent : Contract!Retire(a)
<1>1. PICK a : a = x.agent OBVIOUS
<1>2. CASE DispositionOf(x) # "retired" BY <1>2 DEF Apply
<1>3. CASE DispositionOf(x) = "retired"
  <2>1. a \in Agent /\ record[a] \in InventoryRecord /\ record \in [Agent -> InventoryRecord]
    BY <1>1 DEF Inv, TypeOK, InventoryTypeOK, CatalogRow, HubCall
  <2>2. record[a].life = "active"
    BY <1>1, <1>3, <2>1 DEF DispositionOf, Apply, Appliable, InventoryRecord
  <2>3. record' = [record EXCEPT ![a].life = "retired"] BY <1>1, <1>3 DEF Apply
  <2>4. record'[a].life = "retired" BY <2>1, <2>3 DEF InventoryRecord
  <2>5. HoldsGen(a, record[a].gen) BY <1>1, <2>1, <2>2, <2>4, RecordMovesOn
  <2>6. RequestedMap[a] = record[a].gen
    BY <2>1, <2>5 DEF HoldsGen, RequestedMap, Requested
  <2>7. Contract!Retire(a) BY <2>2, <2>3, <2>6 DEF Contract!Retire, RequestedMap
  <2> QED BY <2>1, <2>7
<1> QED BY <1>2, <1>3

LEMMA HubContract ==
    ASSUME Inv, LifeInv, HubNext, UNCHANGED deviceVars
    PROVE  Contract!HubStep
<1>0. HubMoves BY HubStepMoves
<1>1. record' = record \/ \E a \in Agent : Contract!Assign(a) \/ Contract!Retire(a)
  <2>1. ASSUME NEW r \in inbox, RegisterAgent(r) \/ RegisterUnbound(r)
        PROVE  record' = record \/ \E a \in Agent : Contract!Assign(a)
    <3>1. Register(r) BY <2>1 DEF RegisterAgent, RegisterUnbound
    <3> QED BY <3>1, RegisterContract
  <2>2. ASSUME NEW r \in inbox, RevokeAgent(r) \/ RevokeUnreported(r)
        PROVE  record' = record \/ \E a \in Agent : Contract!Retire(a)
    <3>1. Apply(r.txn, PreparedBy(r)) /\ Preparable(r) /\ r.kind = "revoke"
      BY <2>2 DEF RevokeAgent, RevokeUnreported, Takes
    <3>2. PICK x : x = PreparedBy(r) OBVIOUS
    <3>3. r.agent \in Agent /\ x \in RevokeTransaction /\ x.agent = r.agent
      BY <3>1, <3>2, PreparedByOK
    <3>4. Apply(r.txn, x) BY <3>1, <3>2
    <3>5. RecordMoves(x.agent) BY <1>0, <3>3 DEF HubMoves
    <3> QED BY <3>3, <3>4, <3>5, ApplyContract
  <2>3. ASSUME NEW t \in Txn, RecoverRevoke(t)
        PROVE  record' = record \/ \E a \in Agent : Contract!Retire(a)
    <3>1. txns[t].state = "prepared" /\ Apply(t, txns[t]) BY <2>3 DEF RecoverRevoke
    <3>2. txns[t] \in RevokeTransaction /\ txns[t].agent \in Agent
      BY <3>1 DEF Inv, TypeOK, InventoryTypeOK, CatalogRow, HubCall, PreparedOK
    <3>3. PICK x : x = txns[t] OBVIOUS
    <3>4. Apply(t, x) /\ x \in RevokeTransaction /\ x.agent \in Agent BY <3>1, <3>2, <3>3
    <3>5. RecordMoves(x.agent) BY <1>0, <3>4 DEF HubMoves
    <3> QED BY <3>4, <3>5, ApplyContract
  <2>4. CASE \/ \E r \in inbox :
                  \/ RequestLost(r) \/ RegisterRefused(r) \/ PublishProjection(r)
                  \/ ProjectionRefused(r) \/ RevokePrepared(r) \/ RevokeSuperseded(r)
                  \/ RevokeReplayed(r) \/ RevokeRefused(r)
             \/ \E a \in Agent : RevokeImmediate(a)
             \/ HubCrash \/ HydrateDirectory
    BY <2>4 DEF RequestLost, RegisterRefused, PublishProjection, ProjectionRefused,
                RevokePrepared, RevokeSuperseded, RevokeReplayed, RevokeRefused,
                RevokeImmediate, HubCrash, HydrateDirectory, hubVars
  <2> QED BY <2>1, <2>2, <2>3, <2>4 DEF HubNext
<1>2. Contract!Routes
  <2>1. \A a \in Agent : RowsMap'[a] = {advertised'[a], catalog'[a].gen} \ {0}
    BY DEF RowsMap, Rows
  <2>2. \A a \in Agent : RowsMap[a] = {advertised[a], catalog[a].gen} \ {0}
    BY DEF RowsMap, Rows
  <2>3. \A a \in Agent : \A g \in RowsMap'[a] \ RowsMap[a] :
          record'[a].life = "active" /\ record'[a].gen = g
    BY <1>0, <2>1, <2>2 DEF HubMoves, RowMoves
  <2> QED BY <2>3 DEF Contract!Routes, RowsMap
<1>3. UNCHANGED <<BindingMap, RequestedMap, minted>>
  BY DEF deviceVars, BindingMap, Binding, RequestedMap, Requested, OutboxHolds
<1> QED BY <1>1, <1>2, <1>3 DEF Contract!HubStep, BindingMap, RequestedMap

\* A publication record, seen by the contract.
LEMMA BindingIs ==
    ASSUME NEW p \in PublicationRecord
    PROVE  [p EXCEPT !.st = IF Assigned(p) THEN "bound" ELSE @]
             = [st |-> IF Assigned(p) THEN "bound" ELSE p.st, inc |-> p.inc, gen |-> p.gen]
<1>1. PICK s : s = IF Assigned(p) THEN "bound" ELSE p.st OBVIOUS
<1>2. [p EXCEPT !.st = s] = [st |-> s, inc |-> p.inc, gen |-> p.gen] BY DEF PublicationRecord
<1> QED BY <1>1, <1>2

LEMMA BindingMapIs ==
    ASSUME Inv, NEW a \in Agent
    PROVE  /\ BindingMap[a] = [st |-> IF Assigned(pub[a]) THEN "bound" ELSE pub[a].st,
                               inc |-> pub[a].inc, gen |-> pub[a].gen]
           /\ BindingMap[a].gen = pub[a].gen /\ BindingMap[a].inc = pub[a].inc
           /\ BindingMap[a].st = IF Assigned(pub[a]) THEN "bound" ELSE pub[a].st
<1>1. pub[a] \in PublicationRecord BY InvTypes
<1>2. BindingMap[a] = [st |-> IF Assigned(pub[a]) THEN "bound" ELSE pub[a].st,
                       inc |-> pub[a].inc, gen |-> pub[a].gen]
  BY <1>1, BindingIs DEF BindingMap, Binding
<1> QED BY <1>2

\* One publication record is written.
LEMMA BindingWritten ==
    ASSUME Inv, NEW a \in Agent, NEW p \in PublicationRecord, pub' = [pub EXCEPT ![a] = p]
    PROVE  BindingMap' = [BindingMap EXCEPT ![a] =
                            [st |-> IF Assigned(p) THEN "bound" ELSE p.st, inc |-> p.inc,
                             gen |-> p.gen]]
<1>1. pub \in [Agent -> PublicationRecord] BY DEF Inv, TypeOK, DeviceTypeOK, DrainBatch
<1>2. \A b \in Agent : pub'[b] = IF b = a THEN p ELSE pub[b] BY <1>1
<1>3. \A b \in Agent : b # a => Binding(b)' = Binding(b) BY <1>2 DEF Binding
<1>4. Binding(a)' = [p EXCEPT !.st = IF Assigned(p) THEN "bound" ELSE @] BY <1>2 DEF Binding
<1>5. PICK q : q = [st |-> IF Assigned(p) THEN "bound" ELSE p.st, inc |-> p.inc, gen |-> p.gen]
  OBVIOUS
<1>6. Binding(a)' = q BY <1>4, <1>5, BindingIs
<1>7. BindingMap' = [BindingMap EXCEPT ![a] = q] BY <1>3, <1>6 DEF BindingMap
<1> QED BY <1>5, <1>7

LEMMA BindingKept ==
    ASSUME pub' = pub
    PROVE  BindingMap' = BindingMap
BY DEF BindingMap, Binding

LEMMA RequestsKept ==
    ASSUME \A a \in Agent : EntryStays(a)
    PROVE  RequestedMap' = RequestedMap
BY DEF EntryStays, RequestedMap, Requested, OutboxHolds

LEMMA HubUnmoved ==
    ASSUME UNCHANGED hubVars
    PROVE  UNCHANGED <<record, RowsMap>>
BY DEF hubVars, RowsMap, Rows

\* The device writes nothing the contract speaks of.
LEMMA DeviceQuiet ==
    ASSUME UNCHANGED hubVars, UNCHANGED <<pub, minted>>, \A a \in Agent : EntryStays(a)
    PROVE  ContractStep
BY HubUnmoved, BindingKept, RequestsKept DEF ContractStep

\* A token is drawn for the agent's next attempt.
LEMMA MintContract ==
    ASSUME Inv, NEW a \in Agent, MintPending(a), UNCHANGED hubVars, UNCHANGED outbox
    PROVE  ContractStep
<1>1. \A b \in Agent : EntryStays(b) BY DEF EntryStays
<1>2. PICK i \in Incarnation \ minted :
            /\ minted' = minted \cup {i}
            /\ pub' = [pub EXCEPT ![a] = [st |-> "pending", inc |-> i, gen |-> 0]]
  BY Minted
<1>3. PICK p : p = [st |-> "pending", inc |-> i, gen |-> 0] OBVIOUS
<1>4. p.st = "pending" /\ p.inc = i /\ p.gen = 0 BY <1>3
<1>5. p \in PublicationRecord
  BY <1>3, InventoryAssumption DEF PublicationRecord, Generation
<1>6. ~ Assigned(p) BY <1>4 DEF Assigned
<1>7. pub' = [pub EXCEPT ![a] = p] BY <1>2, <1>3
<1>8. BindingMap' = [BindingMap EXCEPT ![a] = [st |-> "pending", inc |-> i, gen |-> 0]]
  BY <1>4, <1>5, <1>6, <1>7, BindingWritten
<1>9. RequestedMap' = RequestedMap BY <1>1, RequestsKept
<1>10. BindingMap[a].st \in {"none", "retired"} BY Minted, BindingMapIs DEF Assigned
<1>11. Contract!Start(a)
  BY <1>2, <1>8, <1>9, <1>10 DEF Contract!Start, BindingMap, RequestedMap
<1> QED BY <1>11, HubUnmoved DEF ContractStep, Contract!Next, Contract!DeviceStep, RowsMap

LEMMA BeginRegistrationContract ==
    ASSUME Inv, NEW w, NEW a \in Agent, BeginRegistration(w, a), UNCHANGED hubVars
    PROVE  ContractStep
<1>1. outbox' = outbox BY DEF BeginRegistration
<1>2. CASE MintPending(a) BY <1>1, <1>2, MintContract
<1>3. CASE UNCHANGED <<minted, pub>>
  <2>1. \A b \in Agent : EntryStays(b) BY <1>1 DEF EntryStays
  <2> QED BY <1>3, <2>1, DeviceQuiet
<1> QED BY <1>2, <1>3 DEF BeginRegistration

\* The answer to a registration is bound.
LEMMA BoundContract ==
    ASSUME Inv, LifeInv, NEW c \in Caller, call[c].state = "ok", call[c].req.kind = "register",
           Bindable(call[c].req.agent, call[c].req.inc, call[c].gen),
           pub' = Bound(call[c].req.agent, call[c].gen),
           UNCHANGED hubVars, UNCHANGED <<outbox, minted>>
    PROVE  ContractStep
<1>1. PICK a, g : a = call[c].req.agent /\ g = call[c].gen OBVIOUS
<1>2. a \in Agent BY <1>1 DEF Inv, RequestsOK, CallsOK, RequestOK
<1>3. \A b \in Agent : EntryStays(b) BY DEF EntryStays
<1>4. CASE pub[a].st # "pending"
  <2>1. pub' = pub BY <1>1, <1>4 DEF Bound
  <2> QED BY <1>3, <2>1, DeviceQuiet
<1>5. CASE pub[a].st = "pending"
  <2>1. ActiveAs(a, g, pub[a].inc)
    BY <1>1, <1>2, <1>5 DEF LifeInv, AnswerIsActive, Bindable
  <2>2. /\ record[a].life = "active" /\ record[a].gen = g /\ record[a].inc = pub[a].inc
        /\ g \in Generation
    BY <1>2, <2>1, InvTypes DEF ActiveAs
  <2>3. pub[a] \in PublicationRecord BY <1>2, InvTypes
  <2>4. PICK p : p = [pub[a] EXCEPT !.st = "assigned", !.gen = g] OBVIOUS
  <2>5. /\ p \in PublicationRecord
        /\ p.st = "assigned" /\ p.inc = pub[a].inc /\ p.gen = g
    BY <2>2, <2>3, <2>4 DEF PublicationRecord
  <2>6. pub' = [pub EXCEPT ![a] = p] BY <1>1, <1>5, <2>4 DEF Bound
  <2>7. Assigned(p) BY <2>5 DEF Assigned
  <2>8. BindingMap' = [BindingMap EXCEPT ![a] = [st |-> "bound", inc |-> pub[a].inc, gen |-> g]]
    BY <1>2, <2>5, <2>6, <2>7, BindingWritten
  <2>9. BindingMap[a] = [st |-> "pending", inc |-> pub[a].inc, gen |-> pub[a].gen]
    BY <1>2, <1>5, BindingMapIs DEF Assigned
  <2>10. BindingMap' = [BindingMap EXCEPT ![a] = [st |-> "bound", inc |-> @.inc, gen |-> record[a].gen]]
    BY <2>2, <2>8, <2>9
  <2>11. Contract!Bind(a)
    BY <1>3, <2>2, <2>9, <2>10, RequestsKept DEF Contract!Bind, BindingMap, RequestedMap
  <2> QED
    BY <1>2, <2>11, HubUnmoved DEF ContractStep, Contract!Next, Contract!DeviceStep, RowsMap
<1> QED BY <1>4, <1>5

\* That an assignment is published, or no longer is, is not part of the contract.
LEMMA ProjectionContract ==
    ASSUME Inv, NEW a \in Agent, Assigned(pub[a]), NEW st \in {"assigned", "published"},
           pub' = [pub EXCEPT ![a].st = st], UNCHANGED hubVars, UNCHANGED <<outbox, minted>>
    PROVE  ContractStep
<1>1. \A b \in Agent : EntryStays(b) BY DEF EntryStays
<1>2. PICK p : p = [pub[a] EXCEPT !.st = st] OBVIOUS
<1>3. /\ p \in PublicationRecord
      /\ p.st = st /\ p.inc = pub[a].inc /\ p.gen = pub[a].gen
  BY <1>2, InvTypes DEF PublicationRecord
<1>4. pub' = [pub EXCEPT ![a] = p] BY <1>2
<1>5. Assigned(p) BY <1>3 DEF Assigned
<1>6. BindingMap' = [BindingMap EXCEPT ![a] =
                       [st |-> "bound", inc |-> pub[a].inc, gen |-> pub[a].gen]]
  BY <1>3, <1>4, <1>5, BindingWritten
<1>7. BindingMap[a] = [st |-> "bound", inc |-> pub[a].inc, gen |-> pub[a].gen]
  BY BindingMapIs
<1>8. BindingMap' = BindingMap BY <1>6, <1>7 DEF BindingMap
<1> QED BY <1>1, <1>8, HubUnmoved, RequestsKept DEF ContractStep

LEMMA MarkPublishedContract ==
    ASSUME Inv, NEW w \in Caller, MarkPublished(w), UNCHANGED hubVars
    PROVE  ContractStep
<1>1. PICK a : a = call[w].req.agent OBVIOUS
<1>2. /\ call[w].state = "ok" /\ UNCHANGED <<outbox, minted>>
      /\ \/ pub' = pub
         \/ Assigned(pub[a]) /\ pub' = [pub EXCEPT ![a].st = "published"]
  BY <1>1 DEF MarkPublished
<1>3. a \in Agent BY <1>1, <1>2 DEF Inv, RequestsOK, CallsOK, RequestOK
<1>4. \A b \in Agent : EntryStays(b) BY <1>2 DEF EntryStays
<1>5. CASE pub' = pub BY <1>2, <1>4, <1>5, DeviceQuiet
<1>6. CASE Assigned(pub[a]) /\ pub' = [pub EXCEPT ![a].st = "published"]
  BY <1>2, <1>3, <1>6, ProjectionContract
<1> QED BY <1>2, <1>5, <1>6

LEMMA RecordWriteContract ==
    ASSUME Inv, NEW a \in Agent, PlanCaptured(a) \/ FenceCatalogCommit(a), UNCHANGED hubVars
    PROVE  ContractStep
<1>1. outbox' = outbox BY DEF PlanCaptured, FenceCatalogCommit
<1>2. CASE MintPending(a) BY <1>1, <1>2, MintContract
<1>3. CASE /\ pub[a].st = "published" /\ UNCHANGED minted
           /\ pub' = [pub EXCEPT ![a].st = "assigned"]
  <2>1. Assigned(pub[a]) BY <1>3 DEF Assigned
  <2> QED BY <1>1, <1>3, <2>1, ProjectionContract
<1> QED BY <1>2, <1>3 DEF PlanCaptured, FenceCatalogCommit

LEMMA EnqueueContract ==
    ASSUME Inv, LifeInv, EnqueuePublication, UNCHANGED hubVars
    PROVE  ContractStep
<1>1. /\ UNCHANGED <<pub, minted>>
      /\ journal.stage = "tombstonePrepared" /\ journal.gen # 0
  BY DEF EnqueuePublication
<1>2. PICK a : a = journal.agent OBVIOUS
<1>3. a \in Agent /\ journal.txn # None
  BY <1>1, <1>2, InventoryAssumption DEF Inv, JournalOK
<1>4. Retracts(a, journal.gen) BY <1>1, <1>2 DEF LifeInv, RetractionIsBound
<1>5. CASE OutboxHolds(a)
  <2>1. outbox' = outbox BY <1>2, <1>5 DEF EnqueuePublication
  <2>2. \A b \in Agent : EntryStays(b) BY <2>1 DEF EntryStays
  <2> QED BY <1>1, <2>2, DeviceQuiet
<1>6. CASE ~ OutboxHolds(a)
  <2>1. PICK e : e = NewEntry OBVIOUS
  <2>2. outbox' = [outbox EXCEPT ![a] = e] BY <1>2, <1>6, <2>1 DEF EnqueuePublication
  <2>3. e.gen = journal.gen /\ e.txn = journal.txn BY <2>1 DEF NewEntry, NoEntry
  <2>4. \A b \in Agent : outbox'[b] = IF b = a THEN e ELSE outbox[b]
    BY <1>3, <2>2 DEF Inv, TypeOK, DeviceTypeOK, DrainBatch
  <2>5. Requested(a)' = journal.gen BY <1>3, <2>3, <2>4 DEF Requested, OutboxHolds
  <2>6. \A b \in Agent : b # a => Requested(b)' = Requested(b)
    BY <2>4 DEF Requested, OutboxHolds
  <2>7. RequestedMap' = [RequestedMap EXCEPT ![a] = journal.gen]
    BY <1>3, <2>5, <2>6 DEF RequestedMap
  <2>8. RequestedMap[a] = 0 BY <1>3, <1>6 DEF RequestedMap, Requested
  <2>9. \/ BindingMap[a].st = "bound" /\ BindingMap[a].gen = journal.gen
        \/ Contract!GivenUp(a, journal.gen)
    <3>1. CASE Gone(a, journal.gen) BY <3>1 DEF Gone, Contract!GivenUp
    <3>2. CASE ~ Gone(a, journal.gen)
      <4>1. HasGeneration(pub[a]) /\ pub[a].gen = journal.gen BY <1>4, <3>2 DEF Retracts
      <4>2. pub[a].st # "retired" BY <1>3, <3>2, <4>1 DEF LifeInv, RetiredIsRevoked, Gone
      <4> QED BY <1>3, <4>1, <4>2, BindingMapIs DEF HasGeneration, Assigned
    <3> QED BY <3>1, <3>2
  <2>10. journal.gen \in 1..record[a].gen
    <3>1. journal.gen \in Nat /\ record[a].gen \in Nat
      BY <1>3, InvTypes DEF Journal
    <3> QED BY <1>4, <3>1 DEF Retracts
  <2>11. Contract!Ask(a)
    BY <1>1, <2>7, <2>8, <2>9, <2>10, BindingKept DEF Contract!Ask, BindingMap, RequestedMap
  <2> QED
    BY <1>3, <2>11, HubUnmoved DEF ContractStep, Contract!Next, Contract!DeviceStep, RowsMap
<1> QED BY <1>5, <1>6

LEMMA RetireLocallyContract ==
    ASSUME Inv, LifeInv, RetireLocally, UNCHANGED hubVars
    PROVE  ContractStep
<1>1. PICK a : a = drain.agent OBVIOUS
<1>2. /\ call[Drain].state = "ok" /\ call[Drain].req.kind = "revoke"
      /\ pub' = IF pub[a].st = "none" THEN pub ELSE [pub EXCEPT ![a].st = "retired"]
      /\ UNCHANGED <<outbox, minted>>
  BY <1>1 DEF RetireLocally
<1>0. /\ a \in Agent /\ call[Drain].req.agent = a /\ HoldsGen(a, call[Drain].req.gen)
      /\ Retracts(a, call[Drain].req.gen)
  BY <1>1, <1>2, DrainHoldsEntry
<1>3. /\ a \in Agent /\ HoldsGen(a, pub[a].gen) /\ HasGeneration(pub[a])
      /\ call[Drain].req.agent = a /\ pub[a].gen = call[Drain].req.gen
  BY <1>0, <1>1 DEF RetireLocally, Retirable, Retracts, HasGeneration, HoldsGen
<1>4. Gone(a, pub[a].gen) BY <1>2, <1>3 DEF LifeInv, DrainIsSettled, Settled
<1>5. \A b \in Agent : EntryStays(b) BY <1>2 DEF EntryStays
<1>6. PICK p : p = [pub[a] EXCEPT !.st = "retired"] OBVIOUS
<1>7. /\ p \in PublicationRecord
      /\ p.st = "retired" /\ p.inc = pub[a].inc /\ p.gen = pub[a].gen
  BY <1>3, <1>6, InvTypes DEF PublicationRecord
<1>8. pub' = [pub EXCEPT ![a] = p] BY <1>2, <1>3, <1>6 DEF HasGeneration
<1>9. ~ Assigned(p) BY <1>7 DEF Assigned
<1>10. BindingMap' = [BindingMap EXCEPT ![a] =
                        [st |-> "retired", inc |-> pub[a].inc, gen |-> pub[a].gen]]
  <2>1. BindingMap' = [BindingMap EXCEPT ![a] =
                         [st |-> IF Assigned(p) THEN "bound" ELSE p.st, inc |-> p.inc,
                          gen |-> p.gen]]
    BY <1>3, <1>7, <1>8, BindingWritten
  <2> QED BY <1>7, <1>9, <2>1
<1>11. CASE pub[a].st = "retired"
  <2>1. BindingMap[a] = [st |-> "retired", inc |-> pub[a].inc, gen |-> pub[a].gen]
    BY <1>3, <1>11, BindingMapIs DEF Assigned
  <2>2. BindingMap' = BindingMap BY <1>3, <1>10, <2>1 DEF BindingMap
  <2> QED BY <1>2, <1>5, <2>2, HubUnmoved, RequestsKept DEF ContractStep
<1>12. CASE pub[a].st # "retired"
  <2>1. Assigned(pub[a]) BY <1>3, <1>12 DEF HasGeneration, Assigned
  <2>2. BindingMap[a] = [st |-> "bound", inc |-> pub[a].inc, gen |-> pub[a].gen]
    BY <1>3, <2>1, BindingMapIs
  <2>3. BindingMap' = [BindingMap EXCEPT ![a] = [@ EXCEPT !.st = "retired"]]
    <3>1. [BindingMap[a] EXCEPT !.st = "retired"]
            = [st |-> "retired", inc |-> pub[a].inc, gen |-> pub[a].gen]
      BY <2>2
    <3> QED BY <1>10, <3>1
  <2>4. RequestedMap[a] = pub[a].gen BY <1>3 DEF HoldsGen, RequestedMap, Requested
  <2>5. Contract!GivenUp(a, RequestedMap[a]) BY <1>4, <2>4 DEF Gone, Contract!GivenUp
  <2>6. Contract!Confirm(a)
    BY <1>2, <1>5, <2>2, <2>3, <2>4, <2>5, RequestsKept
    DEF Contract!Confirm, BindingMap, RequestedMap
  <2> QED
    BY <1>3, <2>6, HubUnmoved DEF ContractStep, Contract!Next, Contract!DeviceStep, RowsMap
<1> QED BY <1>11, <1>12

LEMMA CompleteEntryContract ==
    ASSUME Inv, LifeInv, CompleteEntry, UNCHANGED hubVars
    PROVE  ContractStep
<1>1. PICK a : a = drain.agent OBVIOUS
<1>2. PICK e : e = NoEntry OBVIOUS
<1>3. /\ call[Drain].state = "retired" /\ outbox' = [outbox EXCEPT ![a] = e]
      /\ UNCHANGED <<pub, minted>>
  BY <1>1, <1>2 DEF CompleteEntry
<1>4. /\ a \in Agent /\ call[Drain].req.agent = a /\ call[Drain].req.gen = outbox[a].gen
      /\ OutboxHolds(a) /\ outbox[a].gen # 0
  BY <1>1, <1>3, DrainHoldsEntry DEF HoldsGen
<1>5. Settled(a, outbox[a].gen) /\ Released(a, outbox[a].gen)
  BY <1>1, <1>3, <1>4 DEF LifeInv, DrainIsSettled
<1>6. e.txn = None BY <1>2 DEF NoEntry
<1>7. \A b \in Agent : outbox'[b] = IF b = a THEN e ELSE outbox[b]
  BY <1>3, <1>4 DEF Inv, TypeOK, DeviceTypeOK, DrainBatch
<1>8. Requested(a)' = 0 BY <1>4, <1>6, <1>7 DEF Requested, OutboxHolds
<1>9. \A b \in Agent : b # a => Requested(b)' = Requested(b)
  BY <1>7 DEF Requested, OutboxHolds
<1>10. RequestedMap' = [RequestedMap EXCEPT ![a] = 0] BY <1>4, <1>8, <1>9 DEF RequestedMap
<1>11. RequestedMap[a] = outbox[a].gen BY <1>4 DEF RequestedMap, Requested
<1>12. Contract!GivenUp(a, RequestedMap[a])
  BY <1>5, <1>11 DEF Settled, Gone, Contract!GivenUp
<1>13. RequestedMap[a] \notin RowsMap[a] BY <1>4, <1>5, <1>11 DEF Settled, RowsMap, Rows
<1>14. BindingMap[a].st = "bound" => BindingMap[a].gen # RequestedMap[a]
  <2>1. pub[a].st # "bound" BY <1>4, InvTypes DEF PublicationRecord
  <2> QED BY <1>4, <1>5, <1>11, <2>1, BindingMapIs DEF Released
<1>15. Contract!Finish(a)
  BY <1>3, <1>4, <1>10, <1>11, <1>12, <1>13, <1>14, BindingKept
  DEF Contract!Finish, BindingMap, RequestedMap, RowsMap
<1> QED
  BY <1>4, <1>15, HubUnmoved DEF ContractStep, Contract!Next, Contract!DeviceStep, RowsMap

\* The drain's and the operator's bookkeeping keeps what each entry asks for.
LEMMA EntryContract ==
    ASSUME Inv, LifeInv, UNCHANGED hubVars,
           \/ BeginDrain \/ AdvanceToRevoke \/ RecordFailure
           \/ \E a \in Agent : ClaimNext(a) \/ ReconcileRetry(a)
    PROVE  ContractStep
<1>0. UNCHANGED <<pub, minted>>
  BY DEF BeginDrain, AdvanceToRevoke, RecordFailure, ClaimNext, ReconcileRetry
<1>1. outbox \in [Agent -> OutboxEntry] BY DEF Inv, TypeOK, DeviceTypeOK, DrainBatch
<1>2. ASSUME NEW a \in Agent, NEW e, outbox' = [outbox EXCEPT ![a] = e],
             e.txn = outbox[a].txn, e.gen = outbox[a].gen
      PROVE  ContractStep
  BY <1>0, <1>2, EntryWriteStays, DeviceQuiet
<1>3. CASE BeginDrain
  <2>1. \A a \in Agent : outbox'[a] = IF outbox[a].retry = "claimed"
                                      THEN [outbox[a] EXCEPT !.retry = "ready", !.fence = 0]
                                      ELSE outbox[a]
    BY <1>3 DEF BeginDrain
  <2>2. \A a \in Agent : EntryStays(a) BY <1>1, <2>1 DEF EntryStays, OutboxEntry
  <2> QED BY <1>0, <2>2, DeviceQuiet
<1>4. CASE AdvanceToRevoke \/ RecordFailure
  <2>1. PICK a : a = drain.agent OBVIOUS
  <2>2. a \in Agent BY <1>4, <2>1, DrainHoldsEntry DEF AdvanceToRevoke, RecordFailure
  <2>3. PICK e : /\ outbox' = [outbox EXCEPT ![a] = e]
                 /\ \/ e = [outbox[a] EXCEPT !.stage = "revoke", !.attempts = 0]
                    \/ e = Failed(outbox[a])
    BY <1>4, <2>1 DEF AdvanceToRevoke, RecordFailure
  <2>4. e.txn = outbox[a].txn /\ e.gen = outbox[a].gen
    BY <1>1, <2>2, <2>3 DEF OutboxEntry, Failed
  <2> QED BY <1>2, <2>2, <2>3, <2>4
<1>5. ASSUME NEW a \in Agent, ClaimNext(a) PROVE ContractStep
  <2>1. PICK e : e = Claimed(outbox[a]) /\ outbox' = [outbox EXCEPT ![a] = e]
    BY <1>5 DEF ClaimNext
  <2>2. e.txn = outbox[a].txn /\ e.gen = outbox[a].gen BY <1>1, <2>1 DEF OutboxEntry, Claimed
  <2> QED BY <1>2, <2>1, <2>2
<1>6. ASSUME NEW a \in Agent, ReconcileRetry(a) PROVE ContractStep
  <2>1. outbox' = [outbox EXCEPT ![a].retry = "ready", ![a].attempts = 0]
    BY <1>6 DEF ReconcileRetry
  <2>2. \A b \in Agent : EntryStays(b) BY <1>1, <2>1 DEF EntryStays, OutboxEntry
  <2> QED BY <1>0, <2>2, DeviceQuiet
<1> QED BY <1>3, <1>4, <1>5, <1>6

LEMMA DeviceContract ==
    ASSUME Inv, LifeInv, DeviceNext, UNCHANGED hubVars
    PROVE  ContractStep
<1>0. Worker \subseteq Caller /\ Replay \in Caller BY LifecycleAssumption
<1>1. CASE UNCHANGED <<pub, outbox, minted>>
  <2>1. \A a \in Agent : EntryStays(a) BY <1>1 DEF EntryStays
  <2> QED BY <1>1, <2>1, DeviceQuiet
<1>2. ASSUME NEW w \in Worker, \E a \in Agent : BeginRegistration(w, a) PROVE ContractStep
  BY <1>2, BeginRegistrationContract
<1>11. ASSUME NEW a \in Agent, PlanCaptured(a) \/ FenceCatalogCommit(a) PROVE ContractStep
  BY <1>11, RecordWriteContract
<1>3. ASSUME NEW w \in Worker, Activate(w) PROVE ContractStep
  <2>1. /\ call[w].state = "ok" /\ call[w].req.kind = "register"
        /\ Bindable(call[w].req.agent, call[w].req.inc, call[w].gen)
        /\ pub' = Bound(call[w].req.agent, call[w].gen)
        /\ UNCHANGED <<outbox, minted>>
    BY <1>3 DEF Activate
  <2> QED BY <1>0, <2>1, BoundContract
<1>4. ASSUME NEW w \in Worker, MarkPublished(w) PROVE ContractStep
  BY <1>0, <1>4, MarkPublishedContract
<1>5. CASE BindReplayed
  <2>1. /\ call[Replay].state = "ok" /\ UNCHANGED <<outbox, minted>>
        /\ \/ pub' = pub
           \/ /\ Bindable(call[Replay].req.agent, call[Replay].req.inc, call[Replay].gen)
              /\ pub' = Bound(call[Replay].req.agent, call[Replay].gen)
    BY <1>5 DEF BindReplayed, StillAwaited
  <2>2. call[Replay].req.kind = "register" BY <2>1 DEF LifeInv, ReplayRegisters
  <2> QED BY <1>0, <1>1, <2>1, <2>2, BoundContract
<1>6. CASE EnqueuePublication BY <1>6, EnqueueContract
<1>7. CASE RetireLocally BY <1>7, RetireLocallyContract
<1>8. CASE CompleteEntry BY <1>8, CompleteEntryContract
<1>9. CASE \/ BeginDrain \/ AdvanceToRevoke \/ RecordFailure
           \/ \E a \in Agent : ClaimNext(a) \/ ReconcileRetry(a)
  BY <1>9, EntryContract
<1>10. CASE \/ \E a \in Agent : StartAgent(a) \/ BeginRetraction(a)
            \/ \E w \in Worker : ActivateRefused(w) \/ HandOff(w)
            \/ \E c \in Worker \cup {Replay} : Abandon(c)
            \/ CommitRetraction \/ RollBack \/ FinalizeRetraction \/ ClearJournal
            \/ RetractionStops \/ RecoverRetraction \/ ReplayAssignment \/ Promote
            \/ EndDrain \/ DeviceCrash \/ DeviceBoots
  BY <1>1, <1>10
  DEF StartAgent, BeginRetraction, ActivateRefused, HandOff, Abandon, CommitRetraction, RollBack,
      FinalizeRetraction, ClearJournal, RetractionStops, RecoverRetraction, ReplayAssignment,
      Promote, EndDrain, DeviceCrash, DeviceBoots, deviceVars
<1> QED
  BY <1>2, <1>3, <1>4, <1>5, <1>6, <1>7, <1>8, <1>9, <1>10, <1>11 DEF DeviceNext

LEMMA ContractInit == Init => Contract!Init
<1> SUFFICES ASSUME Init PROVE Contract!Init OBVIOUS
<1>1. \A a \in Agent : /\ advertised[a] = 0 /\ catalog[a].gen = 0
                       /\ pub[a] = [st |-> "none", inc |-> None, gen |-> 0]
                       /\ outbox[a].txn = None
  BY DEF Init, InventoryInit, DeviceInit, NoRow, NoEntry
<1>2. \A a \in Agent : Rows(a) = {} /\ Requested(a) = 0
  BY <1>1 DEF Rows, Requested, OutboxHolds
<1>3. \A a \in Agent : Binding(a) = [st |-> "none", inc |-> None, gen |-> 0]
  BY <1>1 DEF Binding, Assigned
<1> QED BY <1>2, <1>3 DEF Contract!Init, Init, InventoryInit, DeviceInit

(***************************************************************************)
(* Hub and device keep their contract about every hosted agent: any step   *)
(* of a handler, a worker, a retraction, the drain, a crash or a recovery  *)
(* is a step of AgentContract or changes nothing in it, for any agents,    *)
(* tokens, transactions and workers and any bounds.                        *)
(***************************************************************************)
THEOREM HostedAgentsKeepContract == Spec => ImplementsContract
<1>1. Inv /\ LifeInv /\ [Next]_vars
        => [Contract!Next]_<<record, RowsMap, BindingMap, RequestedMap, minted>>
  <2> SUFFICES ASSUME Inv, LifeInv, [Next]_vars PROVE ContractStep BY DEF ContractStep
  <2>1. CASE HubNext /\ UNCHANGED deviceVars
    BY <2>1, HubContract DEF ContractStep, Contract!Next
  <2>2. CASE DeviceNext /\ UNCHANGED hubVars BY <2>2, DeviceContract
  <2>3. CASE UNCHANGED vars
    BY <2>3 DEF vars, hubVars, deviceVars, ContractStep, RowsMap, Rows, BindingMap, Binding,
                RequestedMap, Requested, OutboxHolds
  <2> QED BY <2>1, <2>2, <2>3 DEF Next
<1> QED
  BY <1>1, ContractInit, Invariant, LifeInvariant, PTL
  DEF Spec, ImplementsContract, Contract!Spec, RowsMap, BindingMap, RequestedMap

=============================================================================
