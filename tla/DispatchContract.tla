-------------------------- MODULE DispatchContract --------------------------
(***************************************************************************)
(* What a caller may rely on from one cross-device dispatch, whatever the  *)
(* sessions underneath do:                                                 *)
(*   - a call settles at most once, and its verdict never changes;         *)
(*   - the device is handed a call at most once;                           *)
(*   - "answered" means the device was handed the call;                    *)
(*   - "rejected" (no route, busy, closed, unbuildable) means it was not   *)
(*     and never will be, so retrying is safe;                             *)
(*   - "failed" (offline, deadline, abandoned) promises neither.           *)
(* The unary dispatcher is shown to implement it in SessionDispatch.       *)
(***************************************************************************)
CONSTANT Call

VARIABLES
    status,     \* per call: idle, open, or its verdict
    executed    \* calls that have been handed to a device

Verdict == {"rejected", "answered", "failed"}

Init ==
    /\ status = [c \in Call |-> "idle"]
    /\ executed = {}

Open(c) ==
    /\ status[c] = "idle"
    /\ status' = [status EXCEPT ![c] = "open"]
    /\ UNCHANGED executed

Reject(c) ==
    /\ status[c] \in {"idle", "open"}
    /\ c \notin executed
    /\ status' = [status EXCEPT ![c] = "rejected"]
    /\ UNCHANGED executed

\* A call whose caller gave up may still reach the device.
Execute(c) ==
    /\ status[c] \in {"open", "failed"}
    /\ c \notin executed
    /\ executed' = executed \cup {c}
    /\ UNCHANGED status

Answer(c) ==
    /\ status[c] = "open"
    /\ c \in executed
    /\ status' = [status EXCEPT ![c] = "answered"]
    /\ UNCHANGED executed

Fail(c) ==
    /\ status[c] = "open"
    /\ status' = [status EXCEPT ![c] = "failed"]
    /\ UNCHANGED executed

Next == \E c \in Call : Open(c) \/ Reject(c) \/ Execute(c) \/ Answer(c) \/ Fail(c)

Spec == Init /\ [][Next]_<<status, executed>>

=============================================================================
