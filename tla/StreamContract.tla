--------------------------- MODULE StreamContract ---------------------------
(***************************************************************************)
(* What the client of a streamed cross-device call may rely on, whatever   *)
(* happens to the session, the tables and the queues in between:           *)
(*   - it is shown the device's frames one by one, in the order they were  *)
(*     sent, each only after it was sent, none twice and none left out;    *)
(*   - an admission comes first and only first;                            *)
(*   - what it was shown is never taken back, and nothing follows a        *)
(*     terminal or an error;                                               *)
(*   - the stream of a client that is still there is closed only after a   *)
(*     terminal or an error, unless the call is an InvokeBidi.             *)
(* PendingStreams is shown to implement it.                                *)
(***************************************************************************)
EXTENDS Sequences, Naturals

CONSTANTS Stream, Lossless

VARIABLES
    sent,       \* per call: the frames its device sent
    shown,      \* per call: the items its client is shown
    status,     \* per call: idle, open or closed
    present     \* per call: is the client still there

Data == {"admission", "chunk", "terminal"}

Final(item) == item \in {"terminal", "error"}
Ended(c) == shown[c] # << >> /\ Final(shown[c][Len(shown[c])])

Init ==
    /\ sent = [c \in Stream |-> << >>]
    /\ shown = [c \in Stream |-> << >>]
    /\ status = [c \in Stream |-> "idle"]
    /\ present = [c \in Stream |-> TRUE]

Begin(c) ==
    /\ status[c] = "idle"
    /\ status' = [status EXCEPT ![c] = "open"]
    /\ UNCHANGED <<sent, shown, present>>

\* Devices send what they like, also to streams that are closed.
Produce(c, f) ==
    /\ status[c] # "idle"
    /\ sent' = [sent EXCEPT ![c] = Append(@, f)]
    /\ UNCHANGED <<shown, status, present>>

\* The next frame is shown; a terminal closes the stream.
Show(c) ==
    LET n == Len(shown[c]) + 1
        f == sent[c][n]
    IN /\ status[c] = "open"
       /\ ~Ended(c)
       /\ n <= Len(sent[c])
       /\ f \in Data
       /\ f = "admission" <=> n = 1
       /\ shown' = [shown EXCEPT ![c] = Append(@, f)]
       /\ status' = [status EXCEPT ![c] = IF f = "terminal" THEN "closed" ELSE "open"]
       /\ UNCHANGED <<sent, present>>

\* The call fails: the stream closes now or once the device was told.
Fail(c) ==
    /\ status[c] = "open"
    /\ ~Ended(c)
    /\ shown' = [shown EXCEPT ![c] = Append(@, "error")]
    /\ \E s \in {"open", "closed"} : status' = [status EXCEPT ![c] = s]
    /\ UNCHANGED <<sent, present>>

Close(c) ==
    /\ status[c] = "open"
    /\ present[c] /\ c \notin Lossless => Ended(c)
    /\ status' = [status EXCEPT ![c] = "closed"]
    /\ UNCHANGED <<sent, shown, present>>

Leave(c) ==
    /\ status[c] = "open"
    /\ present' = [present EXCEPT ![c] = FALSE]
    /\ UNCHANGED <<sent, shown, status>>

Next ==
    \E c \in Stream :
       \/ Begin(c) \/ Show(c) \/ Fail(c) \/ Close(c) \/ Leave(c)
       \/ \E f \in Data \cup {"faulty"} : Produce(c, f)

Spec == Init /\ [][Next]_<<sent, shown, status, present>>

=============================================================================
