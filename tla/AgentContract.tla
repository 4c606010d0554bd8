---------------------------- MODULE AgentContract ----------------------------
(***************************************************************************)
(* What hub and device may rely on for each hosted agent, whatever is      *)
(* lost, late, repeated or interrupted between them:                       *)
(*   - the hub numbers an agent's generations one after the other, each    *)
(*     for a token the device drew, and never twice in a row for the same; *)
(*   - the device binds the generation that the hub holds active, for the  *)
(*     token of its present attempt;                                       *)
(*   - the hub ends the generation the device asked it to end, and no      *)
(*     other;                                                              *)
(*   - the device takes a generation for retired only when the hub gave it *)
(*     up, and considers the matter closed only when the hub also stopped  *)
(*     routing to it;                                                      *)
(*   - the hub begins to route only to a generation it holds active.       *)
(* HostedAgentLifecycle is shown to implement it.                          *)
(***************************************************************************)
EXTENDS Naturals

CONSTANTS Agent, Incarnation, None

VARIABLES
    held,       \* per agent, at the hub: lifecycle, generation and token
    routed,     \* per agent, at the hub: the generations it routes to
    bound,      \* per agent, at the device: state, token and generation
    asked,      \* per agent, at the device: the generation to be ended, or 0
    minted      \* the tokens the device drew

GivenUp(a, g) ==
    \/ held[a].gen > g
    \/ held[a].gen = g /\ held[a].life = "retired"

Init ==
    /\ held = [a \in Agent |-> [life |-> "absent", gen |-> 0, inc |-> None]]
    /\ routed = [a \in Agent |-> {}]
    /\ bound = [a \in Agent |-> [st |-> "none", inc |-> None, gen |-> 0]]
    /\ asked = [a \in Agent |-> 0]
    /\ minted = {}

-----------------------------------------------------------------------------
(* The hub.                                                                *)

Assign(a) ==
    /\ held[a].life # "active"
    /\ \E i \in minted :
          /\ held[a].life = "retired" => i # held[a].inc
          /\ held' = [held EXCEPT ![a] = [life |-> "active", gen |-> @.gen + 1, inc |-> i]]

Retire(a) ==
    /\ held[a].life = "active"
    /\ asked[a] = held[a].gen
    /\ held' = [held EXCEPT ![a].life = "retired"]

\* Rows come and go, also all at once; a new one is of the active generation.
Routes ==
    \A a \in Agent : \A g \in routed'[a] \ routed[a] :
        held'[a].life = "active" /\ held'[a].gen = g

HubStep ==
    /\ UNCHANGED <<bound, asked, minted>>
    /\ UNCHANGED held \/ \E a \in Agent : Assign(a) \/ Retire(a)
    /\ Routes

-----------------------------------------------------------------------------
(* The device.                                                             *)

\* Also while the end of an earlier generation is still asked for.
Start(a) ==
    /\ bound[a].st \in {"none", "retired"}
    /\ \E i \in Incarnation \ minted :
          /\ minted' = minted \cup {i}
          /\ bound' = [bound EXCEPT ![a] = [st |-> "pending", inc |-> i, gen |-> 0]]
    /\ UNCHANGED asked

Bind(a) ==
    /\ bound[a].st = "pending"
    /\ held[a].life = "active" /\ held[a].inc = bound[a].inc
    /\ bound' = [bound EXCEPT ![a] = [st |-> "bound", inc |-> @.inc, gen |-> held[a].gen]]
    /\ UNCHANGED <<asked, minted>>

\* An interrupted purge may ask again for what the hub has given up.
Ask(a) ==
    /\ asked[a] = 0
    /\ \E g \in 1..held[a].gen :
          /\ (bound[a].st = "bound" /\ bound[a].gen = g) \/ GivenUp(a, g)
          /\ asked' = [asked EXCEPT ![a] = g]
    /\ UNCHANGED <<bound, minted>>

Confirm(a) ==
    /\ bound[a].st = "bound"
    /\ asked[a] = bound[a].gen
    /\ GivenUp(a, asked[a])
    /\ bound' = [bound EXCEPT ![a] = [@ EXCEPT !.st = "retired"]]
    /\ UNCHANGED <<asked, minted>>

Finish(a) ==
    /\ asked[a] # 0
    /\ bound[a].st = "bound" => bound[a].gen # asked[a]
    /\ GivenUp(a, asked[a])
    /\ asked[a] \notin routed[a]
    /\ asked' = [asked EXCEPT ![a] = 0]
    /\ UNCHANGED <<bound, minted>>

DeviceStep ==
    /\ UNCHANGED <<held, routed>>
    /\ \E a \in Agent : Start(a) \/ Bind(a) \/ Ask(a) \/ Confirm(a) \/ Finish(a)

-----------------------------------------------------------------------------
Next == HubStep \/ DeviceStep

Spec == Init /\ [][Next]_<<held, routed, bound, asked, minted>>

=============================================================================
