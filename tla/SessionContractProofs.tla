----------------------- MODULE SessionContractProofs -----------------------
(***************************************************************************)
(* The unary dispatcher implements DispatchContract: whatever sessions,    *)
(* devices and the watcher do, a call is handed to a device at most once,  *)
(* never after it was rejected, and is answered only if it was handed on.  *)
(***************************************************************************)
EXTENDS SessionDispatchProofs

(***************************************************************************)
(* Where a call's frame can be.  A provider's normal frames are the held   *)
(* ones followed by the channel; over all sessions a call is queued at     *)
(* most once, only while a device may still be handed it, and a frame of   *)
(* the call can come back only from a device that was.                     *)
(***************************************************************************)
Down(s) == held[s] \o chan[s]

Queued(c) == \E s \in Session : \E i \in DOMAIN Down(s) : Down(s)[i] = c

QueuedOnce ==
    \A s, t \in Session : \A i \in DOMAIN Down(s), j \in DOMAIN Down(t) :
        Down(s)[i] \in Call /\ Down(s)[i] = Down(t)[j] => s = t /\ i = j

QueuedIsOpen ==
    \A c \in Call : Queued(c) =>
        /\ c \notin executed
        /\ call[c].pc \in {"waiting", "timedout", "done"}
        /\ call[c].outcome \in {"none", "target_offline", "deadline", "abandoned"}

ProgressOK(c) ==
    /\ call[c].pc \in {"idle", "looked", "registered", "waiting"} => call[c].outcome = "none"
    /\ call[c].pc = "timedout" => call[c].outcome = "deadline"
    /\ call[c].pc \in {"idle", "looked", "registered"} => c \notin executed
    /\ call[c].reply = "result" => c \in executed

AnsweredWasHanded ==
    \A s \in Session :
        /\ device[s] \subseteq executed
        /\ \A i \in DOMAIN up[s] : up[s][i] \in Call => up[s][i] \in executed

ContractInv ==
    /\ QueuedOnce
    /\ QueuedIsOpen
    /\ \A c \in Call : ProgressOK(c)
    /\ AnsweredWasHanded

-----------------------------------------------------------------------------
(***************************************************************************)
(* The queue of a session.                                                 *)
(***************************************************************************)
LEMMA DownIs ==
    ASSUME NEW h \in Seq(NormalFrame), NEW q \in Seq(Frame)
    PROVE  /\ h \o q \in Seq(Frame)
           /\ Len(h \o q) = Len(h) + Len(q)
           /\ DOMAIN (h \o q) = 1 .. Len(h) + Len(q)
           /\ \A i \in 1 .. Len(h) + Len(q) :
                 (h \o q)[i] = IF i <= Len(h) THEN h[i] ELSE q[i - Len(h)]
<1>1. NormalFrame \subseteq Frame BY DEF Frame
<1>2. h \in Seq(Frame) BY <1>1
<1>3. /\ h \o q \in Seq(Frame)
      /\ Len(h \o q) = Len(h) + Len(q)
      /\ \A i \in 1 .. Len(h) + Len(q) :
            (h \o q)[i] = IF i <= Len(h) THEN h[i] ELSE q[i - Len(h)]
  BY <1>2, ConcatProperties
<1>4. DOMAIN (h \o q) = 1 .. Len(h \o q) BY <1>3, LenProperties
<1> QED BY <1>3, <1>4

LEMMA DownTyped ==
    ASSUME TypeInv, NEW s \in Session
    PROVE  /\ Down(s) \in Seq(Frame)
           /\ Len(Down(s)) = Len(held[s]) + Len(chan[s])
           /\ Len(held[s]) \in Nat /\ Len(chan[s]) \in Nat
           /\ DOMAIN Down(s) = 1 .. Len(Down(s))
           /\ \A i \in 1 .. Len(Down(s)) :
                 Down(s)[i] = IF i <= Len(held[s]) THEN held[s][i] ELSE chan[s][i - Len(held[s])]
<1>1. held[s] \in Seq(NormalFrame) /\ chan[s] \in Seq(Frame)
  BY DEF TypeInv, TypeOK, SessionsTypeOK
<1>2. Len(held[s]) \in Nat /\ Len(chan[s]) \in Nat BY <1>1
<1> QED BY <1>1, <1>2, DownIs DEF Down

\* What can be seen of a queue that lost one frame, at position k.
Loses(s, k) ==
    /\ k \in 1 .. Len(Down(s))
    /\ DOMAIN Down(s)' = 1 .. Len(Down(s)) - 1
    /\ \A i \in 1 .. Len(Down(s)) - 1 : Down(s)'[i] = Down(s)[IF i < k THEN i ELSE i + 1]

Sheds(s) ==
    \/ Down(s)' = Down(s)
    \/ DOMAIN Down(s)' = {}
    \/ \E k \in 1 .. Len(Down(s)) : Loses(s, k)

\* Queues that only lose frames duplicate none and add none.
LEMMA SheddingKeeps ==
    ASSUME TypeInv, QueuedOnce, \A s \in Session : Sheds(s)
    PROVE  QueuedOnce' /\ \A c \in Call : Queued(c)' => Queued(c)
<1>1. ASSUME NEW s \in Session
      PROVE  \E k \in Nat : \A i \in DOMAIN Down(s)' :
                /\ i \in Int
                /\ (IF i < k THEN i ELSE i + 1) \in DOMAIN Down(s)
                /\ Down(s)'[i] = Down(s)[IF i < k THEN i ELSE i + 1]
  <2>0. DOMAIN Down(s) = 1 .. Len(Down(s)) /\ Len(Down(s)) \in Nat BY DownTyped
  <2>1. CASE Down(s)' = Down(s)
    <3>1. \A i \in DOMAIN Down(s)' :
             /\ i \in Int /\ i < Len(Down(s)) + 1
             /\ i \in DOMAIN Down(s) /\ Down(s)'[i] = Down(s)[i]
      BY <2>0, <2>1
    <3>2. Len(Down(s)) + 1 \in Nat BY <2>0
    <3> QED BY <3>1, <3>2
  <2>2. CASE DOMAIN Down(s)' = {} BY <2>2
  <2>3. CASE \E k \in 1 .. Len(Down(s)) : Loses(s, k)
    <3>1. PICK k \in 1 .. Len(Down(s)) : Loses(s, k) BY <2>3
    <3>2. k \in Nat BY <2>0
    <3>3. \A i \in DOMAIN Down(s)' :
             /\ i \in Int
             /\ (IF i < k THEN i ELSE i + 1) \in DOMAIN Down(s)
             /\ Down(s)'[i] = Down(s)[IF i < k THEN i ELSE i + 1]
      BY <2>0, <3>1 DEF Loses
    <3> QED BY <3>2, <3>3
  <2> QED BY <2>1, <2>2, <2>3 DEF Sheds
<1>2. QueuedOnce'
  <2> SUFFICES ASSUME NEW s \in Session, NEW t \in Session,
                      NEW i \in DOMAIN Down(s)', NEW j \in DOMAIN Down(t)',
                      Down(s)'[i] \in Call, Down(s)'[i] = Down(t)'[j]
               PROVE  s = t /\ i = j
    BY DEF QueuedOnce
  <2>1. PICK k \in Nat : \A n \in DOMAIN Down(s)' :
                /\ n \in Int
                /\ (IF n < k THEN n ELSE n + 1) \in DOMAIN Down(s)
                /\ Down(s)'[n] = Down(s)[IF n < k THEN n ELSE n + 1]
    BY <1>1
  <2>2. PICK l \in Nat : \A n \in DOMAIN Down(t)' :
                /\ n \in Int
                /\ (IF n < l THEN n ELSE n + 1) \in DOMAIN Down(t)
                /\ Down(t)'[n] = Down(t)[IF n < l THEN n ELSE n + 1]
    BY <1>1
  <2>3. PICK a : a = IF i < k THEN i ELSE i + 1 OBVIOUS
  <2>4. PICK b : b = IF j < l THEN j ELSE j + 1 OBVIOUS
  <2>5. a \in DOMAIN Down(s) /\ b \in DOMAIN Down(t) /\ Down(s)[a] = Down(t)[b] /\ Down(s)[a] \in Call
    BY <2>1, <2>2, <2>3, <2>4
  <2>6. s = t /\ a = b BY <2>5 DEF QueuedOnce
  <2>7. i \in Int /\ j \in Int BY <2>1, <2>2
  <2>8. PICK m : m = IF j < k THEN j ELSE j + 1 OBVIOUS
  <2>9. m \in DOMAIN Down(s) /\ Down(s)[m] = Down(s)[a]
    BY <2>1, <2>3, <2>6, <2>8
  <2>10. m = a BY <2>5, <2>9 DEF QueuedOnce
  <2>11. i = j BY <2>3, <2>7, <2>8, <2>10
  <2> QED BY <2>6, <2>11
<1>3. ASSUME NEW c \in Call, Queued(c)' PROVE Queued(c)
  <2>1. PICK s \in Session : \E i \in DOMAIN Down(s)' : Down(s)'[i] = c
    BY <1>3 DEF Queued
  <2>2. PICK i \in DOMAIN Down(s)' : Down(s)'[i] = c BY <2>1
  <2>3. PICK k \in Nat : \A n \in DOMAIN Down(s)' :
                /\ (IF n < k THEN n ELSE n + 1) \in DOMAIN Down(s)
                /\ Down(s)'[n] = Down(s)[IF n < k THEN n ELSE n + 1]
    BY <1>1
  <2> QED BY <2>2, <2>3 DEF Queued
<1> QED BY <1>2, <1>3

\* An appended frame that was queued nowhere is still queued only once.
LEMMA AppendKeeps ==
    ASSUME TypeInv, QueuedOnce, NEW s \in Session, NEW f \in Frame, f \in Call => ~Queued(f),
           held' = held, chan' = [chan EXCEPT ![s] = Append(@, f)]
    PROVE  QueuedOnce' /\ \A c \in Call : Queued(c)' => Queued(c) \/ c = f
<1>1. chan[s] \in Seq(Frame) /\ held[s] \in Seq(NormalFrame)
      /\ chan \in [Session -> Seq(Frame)]
  BY DEF TypeInv, TypeOK, SessionsTypeOK
<1>2. PICK q : q = Append(chan[s], f) OBVIOUS
<1>3. /\ q \in Seq(Frame) /\ Len(q) = Len(chan[s]) + 1
      /\ \A i \in 1 .. Len(chan[s]) : q[i] = chan[s][i]
      /\ q[Len(chan[s]) + 1] = f
  BY <1>1, <1>2, AppendProperties
<1>4. chan'[s] = q /\ \A t \in Session : t # s => chan'[t] = chan[t] BY <1>1, <1>2
<1>5. \A t \in Session : t # s => Down(t)' = Down(t) BY <1>4 DEF Down
<1>6. Down(s)' = held[s] \o q BY <1>4 DEF Down
<1>7. PICK n : n = Len(Down(s)) OBVIOUS
<1>8. /\ n \in Nat /\ DOMAIN Down(s) = 1 .. n
      /\ DOMAIN Down(s)' = 1 .. n + 1
      /\ \A i \in 1 .. n : Down(s)'[i] = Down(s)[i]
      /\ Down(s)'[n + 1] = f
  <2>1. PICK h, m : h = Len(held[s]) /\ m = Len(chan[s]) OBVIOUS
  <2>2. h \in Nat /\ m \in Nat /\ Len(q) = m + 1 BY <1>1, <1>3, <2>1
  <2>3. /\ n = h + m /\ DOMAIN Down(s) = 1 .. n
        /\ \A i \in 1 .. n : Down(s)[i] = IF i <= h THEN held[s][i] ELSE chan[s][i - h]
    BY <1>7, <2>1, DownTyped
  <2>4. /\ DOMAIN Down(s)' = 1 .. h + (m + 1)
        /\ \A i \in 1 .. h + (m + 1) : Down(s)'[i] = IF i <= h THEN held[s][i] ELSE q[i - h]
    <3>1. /\ DOMAIN (held[s] \o q) = 1 .. Len(held[s]) + Len(q)
          /\ \A i \in 1 .. Len(held[s]) + Len(q) :
                (held[s] \o q)[i] = IF i <= Len(held[s]) THEN held[s][i] ELSE q[i - Len(held[s])]
      BY <1>1, <1>3, DownIs
    <3>2. PICK d : d = held[s] \o q OBVIOUS
    <3>3. /\ DOMAIN d = 1 .. h + (m + 1)
          /\ \A i \in 1 .. h + (m + 1) : d[i] = IF i <= h THEN held[s][i] ELSE q[i - h]
      BY <3>1, <3>2, <2>1, <2>2
    <3> QED BY <3>2, <3>3, <1>6, Zenon
  <2>5. h + (m + 1) = n + 1 /\ n \in Nat BY <2>2, <2>3
  <2>6. ASSUME NEW i \in 1 .. n PROVE Down(s)'[i] = Down(s)[i]
    <3>1. CASE i <= h BY <3>1, <2>2, <2>3, <2>4, <2>5
    <3>2. CASE ~(i <= h)
      <4>1. i - h \in 1 .. m BY <3>2, <2>2, <2>3
      <4>2. q[i - h] = chan[s][i - h] BY <4>1, <1>3, <2>1
      <4> QED BY <3>2, <4>2, <2>2, <2>3, <2>4, <2>5
    <3> QED BY <3>1, <3>2
  <2>7. Down(s)'[n + 1] = f
    <3>1. (n + 1) - h = m + 1 /\ ~(n + 1 <= h) /\ n + 1 \in 1 .. h + (m + 1) BY <2>2, <2>3
    <3>2. Down(s)'[n + 1] = q[(n + 1) - h] BY <3>1, <2>4, Zenon
    <3> QED BY <3>1, <3>2, <1>3, <2>1
  <2> QED BY <2>3, <2>4, <2>5, <2>6, <2>7
<1>9. ASSUME NEW t \in Session, NEW i \in DOMAIN Down(t)'
      PROVE  \/ i \in DOMAIN Down(t) /\ Down(t)'[i] = Down(t)[i]
             \/ t = s /\ i = n + 1 /\ Down(t)'[i] = f
  <2>1. CASE t # s BY <2>1, <1>5
  <2>2. CASE t = s
    <3>1. i \in 1 .. n + 1 BY <2>2, <1>8
    <3>2. CASE i = n + 1 BY <2>2, <3>2, <1>8
    <3>3. CASE i # n + 1
      <4>1. i \in 1 .. n BY <3>1, <3>3, <1>8
      <4> QED BY <2>2, <4>1, <1>8
    <3> QED BY <3>2, <3>3
  <2> QED BY <2>1, <2>2
<1>10. QueuedOnce'
  <2> SUFFICES ASSUME NEW t \in Session, NEW r \in Session,
                      NEW i \in DOMAIN Down(t)', NEW j \in DOMAIN Down(r)',
                      Down(t)'[i] \in Call, Down(t)'[i] = Down(r)'[j]
               PROVE  t = r /\ i = j
    BY DEF QueuedOnce
  <2>1. CASE i \in DOMAIN Down(t) /\ Down(t)'[i] = Down(t)[i]
    <3>1. CASE j \in DOMAIN Down(r) /\ Down(r)'[j] = Down(r)[j]
      BY <2>1, <3>1 DEF QueuedOnce
    <3>2. CASE Down(r)'[j] = f BY <2>1, <3>2 DEF Queued
    <3> QED BY <3>1, <3>2, <1>9
  <2>2. CASE t = s /\ i = n + 1 /\ Down(t)'[i] = f
    <3>1. CASE j \in DOMAIN Down(r) /\ Down(r)'[j] = Down(r)[j]
      BY <2>2, <3>1 DEF Queued
    <3>2. CASE r = s /\ j = n + 1 BY <2>2, <3>2
    <3> QED BY <3>1, <3>2, <1>9
  <2> QED BY <2>1, <2>2, <1>9
<1>11. ASSUME NEW c \in Call, Queued(c)' PROVE Queued(c) \/ c = f
  <2>1. PICK t \in Session : \E i \in DOMAIN Down(t)' : Down(t)'[i] = c BY <1>11 DEF Queued
  <2>2. PICK i \in DOMAIN Down(t)' : Down(t)'[i] = c BY <2>1
  <2> QED BY <2>2, <1>9 DEF Queued
<1> QED BY <1>10, <1>11

-----------------------------------------------------------------------------
(***************************************************************************)
(* What each provider step does to the queues.                             *)
(***************************************************************************)
LEMMA TearDownSheds ==
    ASSUME TypeInv, NEW s \in Session, TearDown(s)
    PROVE  \A t \in Session : Sheds(t)
<1>1. /\ chan' = [chan EXCEPT ![s] = << >>] /\ held' = [held EXCEPT ![s] = << >>]
      /\ chan \in [Session -> Seq(Frame)] /\ held \in [Session -> Seq(NormalFrame)]
  BY DEF TearDown, TypeInv, TypeOK, SessionsTypeOK
<1> SUFFICES ASSUME NEW t \in Session PROVE Sheds(t)
  OBVIOUS
<1>2. CASE t = s
  <2>1. held'[t] = << >> /\ chan'[t] = << >> BY <1>1, <1>2
  <2>2. << >> \in Seq(NormalFrame) /\ << >> \in Seq(Frame) /\ Len(<< >>) = 0 OBVIOUS
  <2>3. DOMAIN (<< >> \o << >>) = 1 .. 0 + 0 BY <2>2, DownIs
  <2>4. DOMAIN Down(t)' = {} BY <2>1, <2>3 DEF Down
  <2> QED BY <2>4 DEF Sheds
<1>3. CASE t # s
  <2>1. held'[t] = held[t] /\ chan'[t] = chan[t] BY <1>1, <1>3
  <2> QED BY <2>1 DEF Sheds, Down
<1> QED BY <1>2, <1>3

\* A control frame overtakes the normal ones and leaves their order alone.
LEMMA EmitControlSheds ==
    ASSUME TypeInv, NEW s \in Session, EmitControlFrame(s)
    PROVE  \A t \in Session : Sheds(t)
<1>1. PICK i \in DOMAIN chan[s] :
        /\ IsFirstControl(chan[s], i)
        /\ held' = [held EXCEPT ![s] = held[s] \o SubSeq(chan[s], 1, i - 1)]
        /\ chan' = [chan EXCEPT ![s] = SubSeq(chan[s], i + 1, Len(chan[s]))]
  BY DEF EmitControlFrame
<1>2. chan \in [Session -> Seq(Frame)] /\ held \in [Session -> Seq(NormalFrame)]
  BY DEF TypeInv, TypeOK, SessionsTypeOK
<1>3. PICK h, q : h = held[s] /\ q = chan[s] OBVIOUS
<1>4. h \in Seq(NormalFrame) /\ q \in Seq(Frame) BY <1>2, <1>3
<1>5. PICK a, b : a = Len(h) /\ b = Len(q) OBVIOUS
<1>6. a \in Nat /\ b \in Nat /\ i \in 1 .. b
  BY <1>3, <1>4, <1>5
<1>7. PICK front, back : front = SubSeq(q, 1, i - 1) /\ back = SubSeq(q, i + 1, b) OBVIOUS
<1>8. \A j \in 1 .. i - 1 : q[j] \in NormalFrame
  <2> TAKE j \in 1 .. i - 1
  <2>1. j \in 1 .. Len(q) BY <1>5, <1>6
  <2>2. q[j] \in Frame BY <1>4, <2>1, ElementOfSeq
  <2>3. q[j] # Ack BY <1>1, <1>3 DEF IsFirstControl
  <2> QED BY <2>2, <2>3 DEF Frame
<1>9. /\ front \in Seq(NormalFrame) /\ Len(front) = i - 1
      /\ \A j \in 1 .. i - 1 : front[j] = q[j]
  <2>1. 1 \in Int /\ i - 1 \in Int BY <1>6
  <2>2. /\ SubSeq(q, 1, i - 1) \in Seq(NormalFrame)
        /\ Len(SubSeq(q, 1, i - 1)) = IF 1 <= i - 1 THEN (i - 1) - 1 + 1 ELSE 0
        /\ \A j \in 1 .. (i - 1) - 1 + 1 : SubSeq(q, 1, i - 1)[j] = q[1 + j - 1]
    BY <2>1, <1>8, SubSeqProperties
  <2>3. (i - 1) - 1 + 1 = i - 1 /\ (IF 1 <= i - 1 THEN (i - 1) - 1 + 1 ELSE 0) = i - 1 BY <1>6
  <2>4. \A j \in 1 .. i - 1 : 1 + j - 1 = j BY <1>6
  <2> QED BY <2>2, <2>3, <2>4, <1>7
<1>10. /\ back \in Seq(Frame) /\ Len(back) = b - i
       /\ \A j \in 1 .. b - i : back[j] = q[i + j]
  <2>1. i + 1 \in Int /\ b \in Int BY <1>6
  <2>2. \A j \in i + 1 .. b : q[j] \in Frame
    <3> TAKE j \in i + 1 .. b
    <3>1. j \in 1 .. Len(q) BY <1>5, <1>6
    <3> QED BY <3>1, <1>4, ElementOfSeq
  <2>3. /\ SubSeq(q, i + 1, b) \in Seq(Frame)
        /\ Len(SubSeq(q, i + 1, b)) = IF i + 1 <= b THEN b - (i + 1) + 1 ELSE 0
        /\ \A j \in 1 .. b - (i + 1) + 1 : SubSeq(q, i + 1, b)[j] = q[(i + 1) + j - 1]
    BY <2>1, <2>2, SubSeqProperties
  <2>4. b - (i + 1) + 1 = b - i /\ (IF i + 1 <= b THEN b - (i + 1) + 1 ELSE 0) = b - i BY <1>6
  <2>5. \A j \in 1 .. b - i : (i + 1) + j - 1 = i + j BY <1>6
  <2> QED BY <2>3, <2>4, <2>5, <1>7
<1>11. held'[s] = h \o front /\ chan'[s] = back
  BY <1>1, <1>2, <1>3, <1>5, <1>7
<1>12. NormalFrame \subseteq Frame BY DEF Frame
<1>13. PICK newHeld : newHeld = h \o front OBVIOUS
<1>14. /\ newHeld \in Seq(NormalFrame) /\ Len(newHeld) = a + (i - 1)
       /\ \A j \in 1 .. a + (i - 1) : newHeld[j] = IF j <= a THEN h[j] ELSE front[j - a]
  <2>1. /\ h \o front \in Seq(NormalFrame)
        /\ Len(h \o front) = Len(h) + Len(front)
        /\ \A j \in 1 .. Len(h) + Len(front) :
              (h \o front)[j] = IF j <= Len(h) THEN h[j] ELSE front[j - Len(h)]
    BY <1>4, <1>9, ConcatProperties
  <2>2. Len(h) = a /\ Len(front) = i - 1 BY <1>5, <1>9
  <2> QED BY <2>1, <2>2, <1>13, Zenon
<1>15. PICK new : new = newHeld \o back OBVIOUS
<1>16. Down(s)' = new BY <1>11, <1>13, <1>15 DEF Down
<1>17. /\ DOMAIN new = 1 .. (a + (i - 1)) + (b - i)
       /\ \A j \in 1 .. (a + (i - 1)) + (b - i) :
             new[j] = IF j <= a + (i - 1) THEN newHeld[j] ELSE back[j - (a + (i - 1))]
  BY <1>10, <1>14, <1>15, DownIs
<1>18. PICK old : old = Down(s) OBVIOUS
<1>19. /\ Len(old) = a + b /\ Len(old) - 1 = a + b - 1
       /\ \A j \in 1 .. a + b : old[j] = IF j <= a THEN h[j] ELSE q[j - a]
  <2>1. Len(old) = a + b BY <1>3, <1>5, <1>18, DownTyped
  <2>2. Len(old) - 1 = a + b - 1 BY <2>1, <1>6
  <2>3. \A j \in 1 .. Len(old) : old[j] = IF j <= a THEN h[j] ELSE q[j - a]
    BY <1>3, <1>5, <1>18, DownTyped
  <2> QED BY <2>1, <2>2, <2>3, Zenon
<1>20. PICK k : k = a + i OBVIOUS
<1>21. k \in 1 .. a + b /\ (a + (i - 1)) + (b - i) = a + b - 1 /\ a + (i - 1) = k - 1
  BY <1>6, <1>20
<1>22. ASSUME NEW j \in 1 .. a + b - 1
       PROVE  new[j] = old[IF j < k THEN j ELSE j + 1]
  <2>1. CASE j <= a
    <3>1. new[j] = newHeld[j] /\ newHeld[j] = h[j] BY <2>1, <1>6, <1>14, <1>17, <1>21
    <3>2. j < k /\ old[j] = h[j] BY <2>1, <1>6, <1>19, <1>20
    <3> QED BY <3>1, <3>2
  <2>2. CASE ~(j <= a) /\ j < k
    <3>1. new[j] = newHeld[j] /\ newHeld[j] = front[j - a] BY <2>2, <1>6, <1>14, <1>17, <1>20, <1>21
    <3>2. j - a \in 1 .. i - 1 BY <2>2, <1>6, <1>20
    <3>3. old[j] = q[j - a] BY <2>2, <1>6, <1>19
    <3> QED BY <2>2, <3>1, <3>2, <3>3, <1>9
  <2>3. CASE ~(j < k)
    <3>1. ~(j <= a + (i - 1)) BY <2>3, <1>6, <1>20
    <3>2. j \in 1 .. (a + (i - 1)) + (b - i) BY <1>21
    <3>3. new[j] = back[j - (a + (i - 1))] BY <3>1, <3>2, <1>17
    <3>4. j - (a + (i - 1)) \in 1 .. b - i BY <2>3, <1>6, <1>20
    <3>5. back[j - (a + (i - 1))] = q[i + (j - (a + (i - 1)))] BY <3>4, <1>10
    <3>6. i + (j - (a + (i - 1))) = j + 1 - a BY <1>6
    <3>7. j + 1 \in 1 .. a + b /\ ~(j + 1 <= a) BY <2>3, <1>6, <1>20
    <3>8. PICK l : l = j + 1 OBVIOUS
    <3>9. l \in 1 .. a + b /\ ~(l <= a) /\ i + (j - (a + (i - 1))) = l - a BY <3>6, <3>7, <3>8, <1>6
    <3>10. old[l] = q[l - a] BY <3>9, <1>19
    <3>11. new[j] = old[j + 1] BY <3>3, <3>5, <3>8, <3>9, <3>10
    <3> QED BY <2>3, <3>11
  <2> QED BY <2>1, <2>2, <2>3
<1>23. Loses(s, k)
  <2>1. DOMAIN new = 1 .. Len(old) - 1 BY <1>17, <1>19, <1>21, Zenon
  <2>2. \A j \in 1 .. Len(old) - 1 : new[j] = old[IF j < k THEN j ELSE j + 1]
    BY <1>19, <1>22, Zenon
  <2>3. k \in 1 .. Len(old) BY <1>19, <1>21, Zenon
  <2> QED BY <2>1, <2>2, <2>3, <1>16, <1>18, Zenon DEF Loses
<1>24. Sheds(s) BY <1>23 DEF Sheds, Loses
<1>25. \A t \in Session : t # s => Sheds(t)
  <2> SUFFICES ASSUME NEW t \in Session, t # s PROVE Sheds(t)
    OBVIOUS
  <2>1. held'[t] = held[t] /\ chan'[t] = chan[t] BY <1>1, <1>2
  <2> QED BY <2>1 DEF Sheds, Down
<1> QED BY <1>24, <1>25

\* The frame a provider hands on was the first of its queue and is queued no more.
LEMMA EmitNormalSheds ==
    ASSUME TypeInv, QueuedOnce, NEW s \in Session, EmitNormalFrame(s)
    PROVE  /\ \A t \in Session : Sheds(t)
           /\ \A c \in Call : c = Head(Down(s)) => Queued(c) /\ ~Queued(c)'
<1>1. /\ \A i \in DOMAIN chan[s] : chan[s][i] # Ack
      /\ Down(s) # << >>
      /\ held' = [held EXCEPT ![s] = Tail(Down(s))]
      /\ chan' = [chan EXCEPT ![s] = << >>]
  BY DEF EmitNormalFrame, Down
<1>2. chan \in [Session -> Seq(Frame)] /\ held \in [Session -> Seq(NormalFrame)]
  BY DEF TypeInv, TypeOK, SessionsTypeOK
<1>3. PICK old : old = Down(s) OBVIOUS
<1>4. old \in Seq(Frame) /\ old # << >> /\ DOMAIN old = 1 .. Len(old)
  BY <1>1, <1>3, DownTyped
<1>5. old \in Seq(NormalFrame)
  <2>1. chan[s] \in Seq(NormalFrame)
    <3>1. \A i \in 1 .. Len(chan[s]) : chan[s][i] \in NormalFrame
      <4> TAKE i \in 1 .. Len(chan[s])
      <4>1. chan[s][i] \in Frame /\ i \in DOMAIN chan[s] BY <1>2
      <4> QED BY <4>1, <1>1 DEF Frame
    <3> QED BY <3>1, <1>2, SubSeqProperties, SubSeqFull
  <2> QED BY <2>1, <1>2, <1>3, ConcatProperties DEF Down
<1>6. PICK rest : rest = Tail(old) OBVIOUS
<1>7. /\ Len(old) \in Nat \ {0}
      /\ rest \in Seq(NormalFrame) /\ Len(rest) = Len(old) - 1
      /\ \A j \in 1 .. Len(old) - 1 : rest[j] = old[j + 1]
      /\ Head(old) = old[1]
  BY <1>4, <1>5, <1>6
<1>8. held'[s] = rest /\ chan'[s] = << >> BY <1>1, <1>2, <1>3, <1>6
<1>9. Down(s)' = rest
  <2>1. rest \o << >> = rest BY <1>7, ConcatEmptySeq
  <2> QED BY <1>8, <2>1 DEF Down
<1>10. DOMAIN rest = 1 .. Len(old) - 1 BY <1>7
<1>11. Loses(s, 1)
  <2>1. \A j \in 1 .. Len(old) - 1 : rest[j] = old[IF j < 1 THEN j ELSE j + 1] BY <1>7
  <2>2. 1 \in 1 .. Len(old) BY <1>7
  <2> QED BY <1>3, <1>9, <1>10, <2>1, <2>2, Zenon DEF Loses
<1>12. \A t \in Session : t # s => Down(t)' = Down(t)
  BY <1>1, <1>2 DEF Down
<1>13. \A t \in Session : Sheds(t) BY <1>11, <1>12 DEF Sheds, Loses
<1>14. 1 \in DOMAIN Down(s) BY <1>3, <1>4, <1>7
<1> SUFFICES ASSUME NEW c \in Call, c = Head(Down(s)) PROVE Queued(c) /\ ~Queued(c)'
  BY <1>13
<1>15. c = Down(s)[1] BY <1>3, <1>7
<1>16. Queued(c) BY <1>14, <1>15 DEF Queued
<1>17. ~Queued(c)'
  <2> SUFFICES ASSUME NEW t \in Session, NEW j \in DOMAIN Down(t)', Down(t)'[j] = c
               PROVE  FALSE
    BY DEF Queued
  <2>1. CASE t = s
    <3>1. j \in 1 .. Len(old) - 1 /\ rest[j] = c BY <2>1, <1>9, <1>10
    <3>2. old[j + 1] = c /\ j + 1 \in DOMAIN old /\ j + 1 # 1 BY <3>1, <1>4, <1>7
    <3> QED BY <3>2, <1>3, <1>14, <1>15 DEF QueuedOnce
  <2>2. CASE t # s
    <3>1. j \in DOMAIN Down(t) /\ Down(t)[j] = c BY <2>2, <1>12
    <3> QED BY <2>2, <3>1, <1>14, <1>15 DEF QueuedOnce
  <2> QED BY <2>1, <2>2
<1> QED BY <1>16, <1>17

-----------------------------------------------------------------------------
(***************************************************************************)
(* The refinement mapping, call by call.                                   *)
(***************************************************************************)
StatusMap == [c \in Call |-> StatusOf(c)]

ContractStep == Contract!Next \/ UNCHANGED <<StatusMap, executed>>

\* The verdict of a call whose record is unchanged is unchanged.
LEMMA StatusKept ==
    ASSUME NEW c \in Call, call'[c] = call[c]
    PROVE  StatusOf(c)' = StatusOf(c)
BY DEF StatusOf

LEMMA QuietStep ==
    ASSUME call' = call, executed' = executed
    PROVE  ContractStep
BY StatusKept DEF ContractStep, StatusMap

\* How one call's verdict may move while nothing is handed to a device.
LEMMA VerdictStep ==
    ASSUME NEW c \in Call, executed' = executed, \A d \in Call : d # c => call'[d] = call[d],
           \/ StatusOf(c)' = StatusOf(c)
           \/ StatusOf(c) = "idle" /\ StatusOf(c)' = "open"
           \/ StatusOf(c) \in {"idle", "open"} /\ c \notin executed /\ StatusOf(c)' = "rejected"
           \/ StatusOf(c) = "open" /\ c \in executed /\ StatusOf(c)' = "answered"
           \/ StatusOf(c) = "open" /\ StatusOf(c)' = "failed"
    PROVE  ContractStep
<1>1. \A d \in Call : d # c => StatusOf(d)' = StatusOf(d) BY StatusKept
<1>2. StatusMap' = [StatusMap EXCEPT ![c] = StatusOf(c)'] BY <1>1 DEF StatusMap
<1>3. StatusMap[c] = StatusOf(c) BY DEF StatusMap
<1>4. CASE StatusOf(c)' = StatusOf(c)
  BY <1>1, <1>4 DEF ContractStep, StatusMap
<1>5. CASE StatusOf(c) = "idle" /\ StatusOf(c)' = "open"
  <2>1. Contract!Open(c) BY <1>2, <1>3, <1>5 DEF Contract!Open, StatusMap
  <2> QED BY <2>1 DEF ContractStep, Contract!Next
<1>6. CASE StatusOf(c) \in {"idle", "open"} /\ c \notin executed /\ StatusOf(c)' = "rejected"
  <2>1. Contract!Reject(c) BY <1>2, <1>3, <1>6 DEF Contract!Reject, StatusMap
  <2> QED BY <2>1 DEF ContractStep, Contract!Next
<1>7. CASE StatusOf(c) = "open" /\ c \in executed /\ StatusOf(c)' = "answered"
  <2>1. Contract!Answer(c) BY <1>2, <1>3, <1>7 DEF Contract!Answer, StatusMap
  <2> QED BY <2>1 DEF ContractStep, Contract!Next
<1>8. CASE StatusOf(c) = "open" /\ StatusOf(c)' = "failed"
  <2>1. Contract!Fail(c) BY <1>2, <1>3, <1>8 DEF Contract!Fail, StatusMap
  <2> QED BY <2>1 DEF ContractStep, Contract!Next
<1> QED BY <1>4, <1>5, <1>6, <1>7, <1>8

LEMMA ExecuteStep ==
    ASSUME NEW c \in Call, call' = call, executed' = executed \cup {c}, c \notin executed,
           StatusOf(c) \in {"open", "failed"}
    PROVE  ContractStep
<1>1. StatusMap' = StatusMap BY StatusKept DEF StatusMap
<1>2. StatusMap[c] = StatusOf(c) BY DEF StatusMap
<1>3. Contract!Execute(c) BY <1>1, <1>2 DEF Contract!Execute, StatusMap
<1> QED BY <1>3 DEF ContractStep, Contract!Next

\* What the verdict is, read off a call's record.
LEMMA StatusIs ==
    ASSUME NEW c \in Call
    PROVE  /\ call[c].outcome = "none" /\ call[c].pc = "idle" => StatusOf(c) = "idle"
           /\ call[c].outcome = "none" /\ call[c].pc # "idle" => StatusOf(c) = "open"
           /\ call[c].outcome = "result" => StatusOf(c) = "answered"
           /\ call[c].outcome \in {"target_offline", "deadline", "abandoned"} => StatusOf(c) = "failed"
           /\ call[c].outcome \in {"resolve_unavailable", "self_target", "build_failed", "busy", "closed"}
                 => StatusOf(c) = "rejected"
BY DEF StatusOf

-----------------------------------------------------------------------------
(***************************************************************************)
(* Frames that move while no call does.                                    *)
(***************************************************************************)
UpIsHanded ==
    \A s \in Session : \A i \in DOMAIN up[s] : up[s][i] \in Call => up[s][i] \in executed

LEMMA FramesMove ==
    ASSUME TypeInv, ContractInv, UNCHANGED <<call, executed>>,
           \A s \in Session : Sheds(s),
           \A s \in Session : device'[s] \subseteq device[s],
           UpIsHanded'
    PROVE  ContractInv' /\ ContractStep
<1>1. QueuedOnce' /\ \A c \in Call : Queued(c)' => Queued(c)
  BY SheddingKeeps DEF ContractInv
<1>2. QueuedIsOpen' BY <1>1 DEF ContractInv, QueuedIsOpen
<1>3. \A c \in Call : ProgressOK(c)' BY DEF ContractInv, ProgressOK
<1>4. AnsweredWasHanded' BY DEF ContractInv, AnsweredWasHanded, UpIsHanded
<1> QED BY <1>1, <1>2, <1>3, <1>4, QuietStep DEF ContractInv

LEMMA UpTail ==
    ASSUME TypeInv, ContractInv, NEW s \in Session, NEW f, PumpReads(s, f), executed' = executed
    PROVE  UpIsHanded' /\ (f \in Call => f \in executed)
<1>1. up \in [Session -> Seq(UpFrame)] BY DEF TypeInv, TypeOK, SessionsTypeOK
<1>2. up[s] # << >> /\ Head(up[s]) = f /\ up' = [up EXCEPT ![s] = Tail(up[s])]
  BY DEF PumpReads
<1>3. PICK q : q = up[s] OBVIOUS
<1>4. /\ q \in Seq(UpFrame) /\ q # << >> /\ DOMAIN q = 1 .. Len(q)
      /\ Len(q) \in Nat \ {0} /\ DOMAIN Tail(q) = 1 .. Len(q) - 1
      /\ \A i \in 1 .. Len(q) - 1 : Tail(q)[i] = q[i + 1]
      /\ Head(q) = q[1]
  BY <1>1, <1>2, <1>3
<1>5. \A i \in DOMAIN q : q[i] \in Call => q[i] \in executed
  BY <1>3 DEF ContractInv, AnsweredWasHanded
<1>6. f \in Call => f \in executed BY <1>2, <1>3, <1>4, <1>5
<1>7. \A i \in DOMAIN Tail(q) : Tail(q)[i] \in Call => Tail(q)[i] \in executed
  BY <1>4, <1>5
<1>8. \A t \in Session : up'[t] = IF t = s THEN Tail(q) ELSE up[t] BY <1>1, <1>2, <1>3
<1>9. UpIsHanded' BY <1>7, <1>8 DEF UpIsHanded, ContractInv, AnsweredWasHanded
<1> QED BY <1>6, <1>9

LEMMA UpAppend ==
    ASSUME TypeInv, ContractInv, NEW s \in Session, NEW f \in UpFrame, Sends(s, f),
           executed' = executed, f \in Call => f \in executed
    PROVE  UpIsHanded'
<1>1. up \in [Session -> Seq(UpFrame)] BY DEF TypeInv, TypeOK, SessionsTypeOK
<1>2. up' = [up EXCEPT ![s] = Append(up[s], f)] BY DEF Sends
<1>3. PICK q, p : q = up[s] /\ p = Append(q, f) OBVIOUS
<1>4. /\ q \in Seq(UpFrame) /\ DOMAIN q = 1 .. Len(q) /\ Len(q) \in Nat
      /\ DOMAIN p = 1 .. Len(q) + 1
      /\ \A i \in 1 .. Len(q) : p[i] = q[i]
      /\ p[Len(q) + 1] = f
  BY <1>1, <1>3
<1>5. \A i \in DOMAIN q : q[i] \in Call => q[i] \in executed
  BY <1>3 DEF ContractInv, AnsweredWasHanded
<1>6. \A i \in DOMAIN p : p[i] \in Call => p[i] \in executed
  <2> TAKE i \in DOMAIN p
  <2>1. CASE i = Len(q) + 1 BY <2>1, <1>4
  <2>2. CASE i # Len(q) + 1 BY <2>2, <1>4, <1>5
  <2> QED BY <2>1, <2>2
<1>7. \A t \in Session : up'[t] = IF t = s THEN p ELSE up[t] BY <1>1, <1>2, <1>3
<1> QED BY <1>6, <1>7 DEF UpIsHanded, ContractInv, AnsweredWasHanded

\* Where neither held nor chan changes, no queue does.
LEMMA StillSheds ==
    ASSUME UNCHANGED <<held, chan>>
    PROVE  (\A s \in Session : Sheds(s)) /\ (\A c \in Call : Queued(c)' <=> Queued(c))
           /\ (QueuedOnce' <=> QueuedOnce)
BY DEF Sheds, Down, Queued, QueuedOnce

LEMMA UpUnmoved ==
    ASSUME ContractInv, UNCHANGED <<up, executed>>
    PROVE  UpIsHanded'
BY DEF UpIsHanded, ContractInv, AnsweredWasHanded

\* A provider that is dropped drops its queue, its device's calls and its stream.
LEMMA TearDownStep ==
    ASSUME TypeInv, ContractInv, NEW s \in Session, TearDown(s), UNCHANGED <<call, executed>>
    PROVE  ContractInv' /\ ContractStep
<1>1. \A t \in Session : Sheds(t) BY TearDownSheds
<1>2. \A t \in Session : device'[t] \subseteq device[t]
  BY DEF TearDown, TypeInv, TypeOK, SessionsTypeOK
<1>3. \A t \in Session : up'[t] = IF t = s THEN << >> ELSE up[t]
  BY DEF TearDown, TypeInv, TypeOK, SessionsTypeOK
<1>4. UpIsHanded' BY <1>3 DEF UpIsHanded, ContractInv, AnsweredWasHanded
<1> QED BY <1>1, <1>2, <1>4, FramesMove

\* The one step that hands a call to a device.
LEMMA EmitNormalStep ==
    ASSUME TypeInv, ContractInv, NEW s \in Session, EmitNormalFrame(s)
    PROVE  ContractInv' /\ ContractStep
<1>1. UNCHANGED <<call, up>> BY DEF EmitNormalFrame, callVars
<1>2. \A t \in Session : Sheds(t) BY EmitNormalSheds DEF ContractInv
<1>3. PICK c : c = Head(Down(s)) OBVIOUS
<1>4. CASE ~(linked[s] /\ c \in Call)
  <2>1. UNCHANGED <<device, executed>> BY <1>3, <1>4 DEF EmitNormalFrame, Down
  <2> QED BY <1>1, <1>2, <2>1, UpUnmoved, FramesMove
<1>5. CASE linked[s] /\ c \in Call
  <2>1. c \in Call /\ Queued(c) /\ ~Queued(c)' BY <1>3, <1>5, EmitNormalSheds DEF ContractInv
  <2>2. executed' = executed \cup {c} /\ device' = [device EXCEPT ![s] = @ \cup {c}]
    BY <1>3, <1>5 DEF EmitNormalFrame, Down
  <2>3. /\ c \notin executed
        /\ call[c].pc \in {"waiting", "timedout", "done"}
        /\ call[c].outcome \in {"none", "target_offline", "deadline", "abandoned"}
    BY <2>1 DEF ContractInv, QueuedIsOpen
  <2>4. StatusOf(c) \in {"open", "failed"} BY <2>1, <2>3, StatusIs
  <2>5. ContractStep BY <1>1, <2>1, <2>2, <2>3, <2>4, ExecuteStep
  <2>6. QueuedOnce' /\ \A d \in Call : Queued(d)' => Queued(d)
    BY <1>2, SheddingKeeps DEF ContractInv
  <2>7. QueuedIsOpen'
    BY <1>1, <2>1, <2>2, <2>6 DEF ContractInv, QueuedIsOpen
  <2>8. \A d \in Call : ProgressOK(d)'
    BY <1>1, <2>2, <2>3 DEF ContractInv, ProgressOK
  <2>9. AnsweredWasHanded'
    <3>1. \A t \in Session : device'[t] \subseteq executed'
      BY <2>1, <2>2 DEF ContractInv, AnsweredWasHanded, TypeInv, TypeOK, SessionsTypeOK
    <3> QED BY <3>1, <1>1, <2>2 DEF ContractInv, AnsweredWasHanded
  <2> QED BY <2>5, <2>6, <2>7, <2>8, <2>9 DEF ContractInv
<1> QED BY <1>4, <1>5

\* A frame of no call joins a queue: a heartbeat's ack or a streamed call's input.
LEMMA AppendStep ==
    ASSUME TypeInv, ContractInv, NEW s \in Session, NEW f \in {Ack, Input},
           chan' = [chan EXCEPT ![s] = Append(@, f)],
           UNCHANGED <<call, executed, held, device, up>>
    PROVE  ContractInv' /\ ContractStep
<1>1. f \in Frame /\ f \notin Call
  BY DispatchAssumption DEF Frame, NormalFrame, Ack, Input
<1>2. QueuedOnce' /\ \A c \in Call : Queued(c)' => Queued(c)
  BY <1>1, AppendKeeps DEF ContractInv
<1>3. QueuedIsOpen' BY <1>2 DEF ContractInv, QueuedIsOpen
<1>4. \A c \in Call : ProgressOK(c)' BY DEF ContractInv, ProgressOK
<1>5. AnsweredWasHanded' BY DEF ContractInv, AnsweredWasHanded
<1> QED BY <1>2, <1>3, <1>4, <1>5, QuietStep DEF ContractInv

LEMMA PushAckStep ==
    ASSUME TypeInv, ContractInv, NEW s \in Session, PushAck(s)
    PROVE  ContractInv' /\ ContractStep
<1>1. UNCHANGED <<call, executed, held, device, up>> BY DEF PushAck, callVars
<1>2. CASE chan' = chan
  BY <1>1, <1>2, StillSheds, UpUnmoved, FramesMove
<1>3. CASE chan' # chan
  <2>1. chan' = [chan EXCEPT ![pushTo[s]] = Append(@, Ack)] BY <1>3 DEF PushAck
  <2>2. pushTo[s] \in Session
    BY DEF PushAck, TypeInv, SessionsWellFormed, PushesTargeted
  <2> QED BY <1>1, <2>1, <2>2, AppendStep
<1> QED BY <1>2, <1>3

\* A streamed call's frames are no unary call's.
LEMMA StreamedStep ==
    ASSUME TypeInv, ContractInv, StreamedNext
    PROVE  ContractInv' /\ ContractStep
<1>1. UNCHANGED <<call, executed, held, device, up>>
  BY DEF StreamedNext, LendSender, PushInput, ReturnSender, callVars
<1>2. CASE chan' = chan
  BY <1>1, <1>2, StillSheds, UpUnmoved, FramesMove
<1>3. CASE chan' # chan
  <2>1. PICK s \in Session : PushInput(s) \/ ReturnSender(s)
    BY <1>3 DEF StreamedNext, LendSender
  <2>2. chan' = [chan EXCEPT ![s] = Append(@, Input)]
    BY <1>3, <2>1 DEF PushInput, ReturnSender
  <2> QED BY <1>1, <2>2, AppendStep
<1> QED BY <1>2, <1>3

LEMMA DeviceStep ==
    ASSUME TypeInv, ContractInv, NEW s \in Session, DeviceNext(s)
    PROVE  ContractInv' /\ ContractStep
<1>1. UNCHANGED <<call, executed, held, chan>>
  BY DEF DeviceNext, DeviceReply, DeviceHeartbeat, DeviceLeaves, callVars
<1>2. \A t \in Session : Sheds(t) BY <1>1, StillSheds
<1>3. "heartbeat" \in UpFrame /\ "heartbeat" \notin Call /\ "end" \in UpFrame /\ "end" \notin Call
  BY DispatchAssumption DEF UpFrame
<1>4. device \in [Session -> SUBSET Call] /\ up \in [Session -> Seq(UpFrame)]
  BY DEF TypeInv, TypeOK, SessionsTypeOK
<1>5. ASSUME NEW c \in Call, DeviceReply(s, c) PROVE ContractInv' /\ ContractStep
  <2>1. c \in executed /\ c \in UpFrame
    BY <1>5 DEF DeviceReply, ContractInv, AnsweredWasHanded, UpFrame
  <2>2. UpIsHanded' BY <1>1, <1>5, <2>1, UpAppend DEF DeviceReply
  <2>3. \A t \in Session : device'[t] \subseteq device[t] BY <1>4, <1>5 DEF DeviceReply
  <2> QED BY <1>1, <1>2, <2>2, <2>3, FramesMove
<1>6. CASE DeviceHeartbeat(s)
  <2>1. UpIsHanded' BY <1>1, <1>3, <1>6, UpAppend DEF DeviceHeartbeat
  <2>2. device' = device BY <1>6 DEF DeviceHeartbeat
  <2> QED BY <1>1, <1>2, <2>1, <2>2, FramesMove
<1>7. CASE DeviceLeaves(s)
  <2>1. \A t \in Session : device'[t] \subseteq device[t] BY <1>4, <1>7 DEF DeviceLeaves
  <2>2. UpIsHanded'
    <3>1. CASE Sends(s, "end") BY <3>1, <1>1, <1>3, UpAppend
    <3>2. CASE up' = [up EXCEPT ![s] = <<"end">>]
      <4>1. \A t \in Session : up'[t] = IF t = s THEN <<"end">> ELSE up[t] BY <1>4, <3>2
      <4>2. \A i \in DOMAIN <<"end">> : <<"end">>[i] = "end" OBVIOUS
      <4> QED BY <4>1, <4>2, <1>1, <1>3 DEF UpIsHanded, ContractInv, AnsweredWasHanded
    <3> QED BY <1>7, <3>1, <3>2 DEF DeviceLeaves
  <2> QED BY <1>1, <1>2, <2>1, <2>2, FramesMove
<1> QED BY <1>5, <1>6, <1>7 DEF DeviceNext

-----------------------------------------------------------------------------
(***************************************************************************)
(* Calls that move while no frame does.                                    *)
(***************************************************************************)
LEMMA CallMoves ==
    ASSUME TypeInv, ContractInv, NEW c \in Call,
           UNCHANGED <<chan, held, device, up, executed>>,
           \A d \in Call : d # c => call'[d] = call[d],
           ProgressOK(c)',
           Queued(c) => /\ call'[c].pc \in {"waiting", "timedout", "done"}
                        /\ call'[c].outcome \in {"none", "target_offline", "deadline", "abandoned"}
    PROVE  ContractInv'
<1>1. QueuedOnce' /\ \A d \in Call : Queued(d)' <=> Queued(d)
  BY StillSheds DEF ContractInv
<1>2. QueuedIsOpen'
  <2> SUFFICES ASSUME NEW d \in Call, Queued(d)'
               PROVE  /\ d \notin executed'
                      /\ call'[d].pc \in {"waiting", "timedout", "done"}
                      /\ call'[d].outcome \in {"none", "target_offline", "deadline", "abandoned"}
    BY DEF QueuedIsOpen
  <2>1. /\ Queued(d) /\ d \notin executed
        /\ call[d].pc \in {"waiting", "timedout", "done"}
        /\ call[d].outcome \in {"none", "target_offline", "deadline", "abandoned"}
    BY <1>1 DEF ContractInv, QueuedIsOpen
  <2>2. CASE d = c BY <2>1, <2>2
  <2>3. CASE d # c BY <2>1, <2>3
  <2> QED BY <2>2, <2>3
<1>3. \A d \in Call : ProgressOK(d)'
  <2> SUFFICES ASSUME NEW d \in Call, d # c PROVE ProgressOK(d)'
    OBVIOUS
  <2>1. ProgressOK(d) /\ call'[d] = call[d] BY DEF ContractInv
  <2> QED BY <2>1 DEF ProgressOK
<1>4. AnsweredWasHanded' BY DEF ContractInv, AnsweredWasHanded
<1> QED BY <1>1, <1>2, <1>3, <1>4 DEF ContractInv

\* A call that returns without having been pushed is rejected for good.
LEMMA RejectedStep ==
    ASSUME TypeInv, ContractInv, NEW c \in Call,
           NEW o \in {"resolve_unavailable", "self_target", "build_failed", "busy", "closed"},
           call[c].pc \in {"idle", "looked", "registered"}, Return(c, o),
           UNCHANGED <<chan, held, device, up, executed>>
    PROVE  ContractInv' /\ ContractStep
<1>1. call \in [Call -> CallRecord] BY DEF TypeInv, TypeOK, CallsTypeOK
<1>2. /\ call'[c].pc = "done" /\ call'[c].outcome = o /\ call'[c].reply = NoReply
      /\ \A d \in Call : d # c => call'[d] = call[d]
  BY <1>1 DEF Return, NewCall
<1>3. ProgressOK(c) BY DEF ContractInv
<1>4. call[c].outcome = "none" /\ c \notin executed /\ ~Queued(c)
  BY <1>3 DEF ProgressOK, ContractInv, QueuedIsOpen
<1>5. ProgressOK(c)' BY <1>2 DEF ProgressOK, NoReply
<1>6. StatusOf(c) \in {"idle", "open"} BY <1>4, StatusIs
<1>7. StatusOf(c)' = "rejected" BY <1>2 DEF StatusOf
<1>8. ContractStep BY <1>2, <1>4, <1>6, <1>7, VerdictStep
<1>9. ContractInv' BY <1>2, <1>4, <1>5, CallMoves
<1> QED BY <1>8, <1>9

LEMMA LookupStep ==
    ASSUME TypeInv, ContractInv, NEW c \in Call, NEW u \in Ura, Lookup(c, u)
    PROVE  ContractInv' /\ ContractStep
<1>1. call \in [Call -> CallRecord] BY DEF TypeInv, TypeOK, CallsTypeOK
<1>2. UNCHANGED <<chan, held, device, up, executed>> /\ call[c].pc = "idle"
  BY DEF Lookup, sessionVars
<1>3. CASE SelfTarget(u) \/ LookupDispatch(u) = NoSession
  <2>1. PICK o \in {"self_target", "resolve_unavailable"} : Return(c, o) BY <1>3 DEF Lookup
  <2> QED BY <1>2, <2>1, RejectedStep
<1>4. CASE ~(SelfTarget(u) \/ LookupDispatch(u) = NoSession)
  <2>1. PICK r : r = [call[c] EXCEPT !.pc = "looked", !.target = u, !.via = LookupDispatch(u)]
    OBVIOUS
  <2>2. call' = [call EXCEPT ![c] = r] BY <1>4, <2>1 DEF Lookup
  <2>3. r.pc = "looked" /\ r.reply = call[c].reply /\ r.outcome = call[c].outcome
    BY <1>1, <2>1 DEF CallRecord
  <2>4. /\ call'[c].pc = "looked" /\ call'[c].reply = call[c].reply
        /\ call'[c].outcome = call[c].outcome
        /\ \A d \in Call : d # c => call'[d] = call[d]
    BY <1>1, <2>2, <2>3
  <2>5. ProgressOK(c) BY DEF ContractInv
  <2>6. call[c].outcome = "none" /\ ~Queued(c)
    BY <1>2, <2>5 DEF ProgressOK, ContractInv, QueuedIsOpen
  <2>7. ProgressOK(c)' BY <1>2, <2>4, <2>5, <2>6 DEF ProgressOK
  <2>8. StatusOf(c) = "idle" BY <1>2, <2>6, StatusIs
  <2>9. StatusOf(c)' = "open" BY <2>4, <2>6 DEF StatusOf
  <2>10. ContractStep BY <1>2, <2>4, <2>8, <2>9, VerdictStep
  <2>11. ContractInv' BY <1>2, <2>4, <2>6, <2>7, CallMoves
  <2> QED BY <2>10, <2>11
<1> QED BY <1>3, <1>4

LEMMA RegisterStep ==
    ASSUME TypeInv, ContractInv, NEW c \in Call, Register(c)
    PROVE  ContractInv' /\ ContractStep
<1>1. call \in [Call -> CallRecord] BY DEF TypeInv, TypeOK, CallsTypeOK
<1>2. UNCHANGED <<chan, held, device, up, executed>> /\ call[c].pc = "looked"
  BY DEF Register, sessionVars
<1>3. PICK live : live = (byUra[call[c].target] = call[c].via) OBVIOUS
<1>4. PICK r : r = [call[c] EXCEPT !.pc = "registered", !.regLive = live] OBVIOUS
<1>5. call' = [call EXCEPT ![c] = r] BY <1>3, <1>4 DEF Register
<1>6. r.pc = "registered" /\ r.reply = call[c].reply /\ r.outcome = call[c].outcome
  BY <1>1, <1>4 DEF CallRecord
<1>7. /\ call'[c].pc = "registered" /\ call'[c].reply = call[c].reply
      /\ call'[c].outcome = call[c].outcome
      /\ \A d \in Call : d # c => call'[d] = call[d]
  BY <1>1, <1>5, <1>6
<1>8. ProgressOK(c) BY DEF ContractInv
<1>9. call[c].outcome = "none" /\ ~Queued(c)
  BY <1>2, <1>8 DEF ProgressOK, ContractInv, QueuedIsOpen
<1>10. ProgressOK(c)' BY <1>2, <1>7, <1>8, <1>9 DEF ProgressOK
<1>11. StatusOf(c) = "open" BY <1>2, <1>9, StatusIs
<1>12. StatusOf(c)' = "open" BY <1>7, <1>9 DEF StatusOf
<1>13. ContractStep BY <1>2, <1>7, <1>11, <1>12, VerdictStep
<1>14. ContractInv' BY <1>2, <1>7, <1>9, <1>10, CallMoves
<1> QED BY <1>13, <1>14

LEMMA PushCallStep ==
    ASSUME TypeInv, ContractInv, NEW c \in Call, PushCall(c)
    PROVE  ContractInv' /\ ContractStep
<1>1. call \in [Call -> CallRecord] BY DEF TypeInv, TypeOK, CallsTypeOK
<1>2. UNCHANGED <<held, device, up, executed>> /\ call[c].pc = "registered"
  BY DEF PushCall
<1>3. CASE chan' = chan /\ (Return(c, "busy") \/ Return(c, "closed"))
  BY <1>2, <1>3, RejectedStep
<1>4. CASE /\ chan' = [chan EXCEPT ![call[c].via] = Append(@, c)]
           /\ call' = [call EXCEPT ![c].pc = "waiting"]
  <2>1. /\ call'[c].pc = "waiting" /\ call'[c].reply = call[c].reply
        /\ call'[c].outcome = call[c].outcome
        /\ \A d \in Call : d # c => call'[d] = call[d]
    BY <1>1, <1>4 DEF CallRecord
  <2>2. ProgressOK(c) BY DEF ContractInv
  <2>3. call[c].outcome = "none" /\ c \notin executed /\ ~Queued(c)
    BY <1>2, <2>2 DEF ProgressOK, ContractInv, QueuedIsOpen
  <2>4. call[c].via \in Session BY <1>2 DEF TypeInv, CallsWellFormed
  <2>5. c \in Frame BY DEF Frame, NormalFrame
  <2>6. QueuedOnce' /\ \A d \in Call : Queued(d)' => Queued(d) \/ d = c
    BY <1>2, <1>4, <2>3, <2>4, <2>5, AppendKeeps DEF ContractInv
  <2>7. QueuedIsOpen'
    <3> SUFFICES ASSUME NEW d \in Call, Queued(d)'
                 PROVE  /\ d \notin executed'
                        /\ call'[d].pc \in {"waiting", "timedout", "done"}
                        /\ call'[d].outcome \in {"none", "target_offline", "deadline", "abandoned"}
      BY DEF QueuedIsOpen
    <3>1. CASE d = c BY <3>1, <1>2, <2>1, <2>3
    <3>2. CASE d # c BY <3>2, <1>2, <2>1, <2>6 DEF ContractInv, QueuedIsOpen
    <3> QED BY <3>1, <3>2
  <2>8. \A d \in Call : ProgressOK(d)'
    <3> SUFFICES ASSUME NEW d \in Call PROVE ProgressOK(d)'
      OBVIOUS
    <3>1. CASE d = c BY <3>1, <1>2, <2>1, <2>2, <2>3 DEF ProgressOK
    <3>2. CASE d # c
      <4>1. ProgressOK(d) /\ call'[d] = call[d] BY <3>2, <2>1 DEF ContractInv
      <4> QED BY <4>1, <1>2 DEF ProgressOK
    <3> QED BY <3>1, <3>2
  <2>9. AnsweredWasHanded' BY <1>2 DEF ContractInv, AnsweredWasHanded
  <2>10. StatusOf(c) = "open" BY <1>2, <2>3, StatusIs
  <2>11. StatusOf(c)' = "open" BY <2>1, <2>3 DEF StatusOf
  <2>12. ContractStep BY <1>2, <2>1, <2>10, <2>11, VerdictStep
  <2> QED BY <2>6, <2>7, <2>8, <2>9, <2>12 DEF ContractInv
<1> QED BY <1>3, <1>4 DEF PushCall

\* A waiting or timed-out call ends: its verdict is what it waited for.
LEMMA ConcludedStep ==
    ASSUME TypeInv, ContractInv, NEW c \in Call,
           NEW o \in {"result", "target_offline", "deadline", "abandoned"},
           Return(c, o), UNCHANGED <<chan, held, device, up, executed>>,
           \/ call[c].pc = "waiting" /\ (o = "result" => c \in executed)
           \/ call[c].pc = "timedout" /\ o = "deadline"
    PROVE  ContractInv' /\ ContractStep
<1>1. call \in [Call -> CallRecord] BY DEF TypeInv, TypeOK, CallsTypeOK
<1>2. /\ call'[c].pc = "done" /\ call'[c].outcome = o /\ call'[c].reply = NoReply
      /\ \A d \in Call : d # c => call'[d] = call[d]
  BY <1>1 DEF Return, NewCall
<1>3. ProgressOK(c) BY DEF ContractInv
<1>4. ProgressOK(c)' BY <1>2 DEF ProgressOK, NoReply
<1>5. Queued(c) => o # "result" BY DEF ContractInv, QueuedIsOpen
<1>6. ContractInv' BY <1>2, <1>4, <1>5, CallMoves
<1>7. StatusOf(c)' = IF o = "result" THEN "answered" ELSE "failed" BY <1>2 DEF StatusOf
<1>8. CASE call[c].pc = "waiting"
  <2>1. StatusOf(c) = "open" BY <1>3, <1>8, StatusIs DEF ProgressOK
  <2> QED BY <1>2, <1>6, <1>7, <1>8, <2>1, VerdictStep
<1>9. CASE call[c].pc = "timedout" /\ o = "deadline"
  <2>1. StatusOf(c) = "failed" BY <1>3, <1>9, StatusIs DEF ProgressOK
  <2> QED BY <1>2, <1>6, <1>7, <1>9, <2>1, VerdictStep
<1> QED BY <1>8, <1>9

LEMMA ReplyTimeoutStep ==
    ASSUME TypeInv, ContractInv, NEW c \in Call, ReplyTimeout(c)
    PROVE  ContractInv' /\ ContractStep
<1>1. call \in [Call -> CallRecord] BY DEF TypeInv, TypeOK, CallsTypeOK
<1>2. UNCHANGED <<chan, held, device, up, executed>> /\ call[c].pc = "waiting"
  BY DEF ReplyTimeout, sessionVars
<1>3. /\ call'[c].pc = "timedout" /\ call'[c].outcome = "deadline"
      /\ call'[c].reply = call[c].reply
      /\ \A d \in Call : d # c => call'[d] = call[d]
  BY <1>1 DEF ReplyTimeout, CallRecord
<1>4. ProgressOK(c) BY DEF ContractInv
<1>5. ProgressOK(c)' BY <1>2, <1>3, <1>4 DEF ProgressOK
<1>6. StatusOf(c) = "open" BY <1>2, <1>4, StatusIs DEF ProgressOK
<1>7. StatusOf(c)' = "failed" BY <1>3 DEF StatusOf
<1>8. ContractInv' BY <1>2, <1>3, <1>5, CallMoves
<1> QED BY <1>2, <1>3, <1>6, <1>7, <1>8, VerdictStep

LEMMA CancelOneStep ==
    ASSUME TypeInv, ContractInv, NEW c \in Call, CancelOne(c)
    PROVE  ContractInv' /\ ContractStep
<1>1. call \in [Call -> CallRecord] BY DEF TypeInv, TypeOK, CallsTypeOK
<1>2. UNCHANGED <<chan, held, device, up, executed>> BY DEF CancelOne, sessionVars
<1>3. /\ call'[c].pc = call[c].pc /\ call'[c].outcome = call[c].outcome
      /\ call'[c].reply \in {call[c].reply, "target_offline"}
      /\ \A d \in Call : d # c => call'[d] = call[d]
  BY <1>1 DEF CancelOne, CallRecord
<1>4. ProgressOK(c) BY DEF ContractInv
<1>5. ProgressOK(c)' BY <1>2, <1>3, <1>4 DEF ProgressOK
<1>6. StatusOf(c)' = StatusOf(c) BY <1>3 DEF StatusOf
<1>7. ContractInv' BY <1>2, <1>3, <1>5, CallMoves DEF ContractInv, QueuedIsOpen
<1> QED BY <1>2, <1>3, <1>6, <1>7, VerdictStep

\* A result completes only a call that a device was handed.
LEMMA PumpResultStep ==
    ASSUME TypeInv, ContractInv, NEW s \in Session, NEW c \in Call, PumpResult(s, c)
    PROVE  ContractInv' /\ ContractStep
<1>1. call \in [Call -> CallRecord] BY DEF TypeInv, TypeOK, CallsTypeOK
<1>2. UNCHANGED <<chan, held, device, executed>> /\ PumpReads(s, c) /\ Complete(c)
  BY DEF PumpResult
<1>3. UpIsHanded' /\ c \in executed BY <1>2, UpTail
<1>4. /\ call'[c].pc = call[c].pc /\ call'[c].outcome = call[c].outcome
      /\ \A d \in Call : d # c => call'[d] = call[d]
  BY <1>1, <1>2 DEF Complete, CallRecord
<1>5. \A d \in Call : ProgressOK(d)'
  <2> SUFFICES ASSUME NEW d \in Call PROVE ProgressOK(d)'
    OBVIOUS
  <2>1. ProgressOK(d) BY DEF ContractInv
  <2>2. CASE d = c BY <1>2, <1>3, <1>4, <2>1, <2>2 DEF ProgressOK
  <2>3. CASE d # c BY <1>2, <1>4, <2>1, <2>3 DEF ProgressOK
  <2> QED BY <2>2, <2>3
<1>6. QueuedOnce' /\ \A d \in Call : Queued(d)' <=> Queued(d)
  BY <1>2, StillSheds DEF ContractInv
<1>7. QueuedIsOpen'
  <2> SUFFICES ASSUME NEW d \in Call, Queued(d)'
               PROVE  /\ d \notin executed'
                      /\ call'[d].pc \in {"waiting", "timedout", "done"}
                      /\ call'[d].outcome \in {"none", "target_offline", "deadline", "abandoned"}
    BY DEF QueuedIsOpen
  <2>1. /\ d \notin executed
        /\ call[d].pc \in {"waiting", "timedout", "done"}
        /\ call[d].outcome \in {"none", "target_offline", "deadline", "abandoned"}
    BY <1>6 DEF ContractInv, QueuedIsOpen
  <2>2. d # c BY <1>3, <2>1
  <2> QED BY <1>2, <1>4, <2>1, <2>2
<1>8. AnsweredWasHanded' BY <1>2, <1>3 DEF ContractInv, AnsweredWasHanded, UpIsHanded
<1>9. StatusOf(c)' = StatusOf(c) BY <1>4 DEF StatusOf
<1>10. ContractStep BY <1>2, <1>4, <1>9, VerdictStep
<1> QED BY <1>5, <1>6, <1>7, <1>8, <1>10 DEF ContractInv

-----------------------------------------------------------------------------
LEMMA UntouchedStep ==
    ASSUME TypeInv, ContractInv, UNCHANGED <<chan, held, device, up, executed, call>>
    PROVE  ContractInv' /\ ContractStep
BY StillSheds, UpUnmoved, FramesMove

LEMMA ContractInvStep == TypeInv /\ ContractInv /\ [Next]_vars => ContractInv' /\ ContractStep
<1> SUFFICES ASSUME TypeInv, ContractInv, [Next]_vars PROVE ContractInv' /\ ContractStep
  OBVIOUS
<1>1. CASE UNCHANGED vars BY <1>1, UntouchedStep DEF vars
<1>2. CASE \E u \in Ura : OpenSession(u) \/ SeedSelfPresence(u) \/ ForceRevoke(u)
  BY <1>2, UntouchedStep DEF OpenSession, SeedSelfPresence, ForceRevoke, sessionVars, callVars
<1>3. CASE \E op \in Op : SendEvent(op)
  BY <1>3, UntouchedStep DEF SendEvent, sessionVars, callVars
<1>4. ASSUME NEW s \in Session, ProviderNext(s) PROVE ContractInv' /\ ContractStep
  <2> USE DEF sessionVars, callVars
  <2>1. CASE InsertSession(s) \/ InsertSelfPresence(s) \/ StartPumps(s) \/ InputEnded(s)
    BY <2>1, UntouchedStep DEF InsertSession, InsertSelfPresence, StartPumps, InputEnded
  <2>2. CASE EmitControlFrame(s)
    <3>1. UNCHANGED <<device, up, executed, call>> BY <2>2 DEF EmitControlFrame
    <3>2. \A t \in Session : Sheds(t) BY <2>2, EmitControlSheds
    <3> QED BY <3>1, <3>2, UpUnmoved, FramesMove
  <2>3. CASE EmitNormalFrame(s) BY <2>3, EmitNormalStep
  <2>4. CASE DownClosed(s) \/ AbortProvider(s)
    BY <2>4, TearDownStep DEF DownClosed, AbortProvider
  <2> QED BY <1>4, <2>1, <2>2, <2>3, <2>4 DEF ProviderNext, EmitDownFrame
<1>5. ASSUME NEW s \in Session, PumpNext(s) PROVE ContractInv' /\ ContractStep
  <2>1. ASSUME NEW c \in Call, PumpResult(s, c) PROVE ContractInv' /\ ContractStep
    BY <2>1, PumpResultStep
  <2>2. ASSUME NEW f \in {"end", "heartbeat"}, PumpReads(s, f),
               UNCHANGED <<chan, held, device, executed, call>>
        PROVE  ContractInv' /\ ContractStep
    <3>1. UpIsHanded' BY <2>2, UpTail
    <3>2. \A t \in Session : Sheds(t) BY <2>2, StillSheds
    <3> QED BY <2>2, <3>1, <3>2, FramesMove
  <2>3. CASE PumpEnd(s) BY <2>2, <2>3 DEF PumpEnd, callVars
  <2>4. CASE PumpHeartbeat(s) BY <2>2, <2>4 DEF PumpHeartbeat, callVars
  <2>5. CASE PushAck(s) BY <2>5, PushAckStep
  <2> QED BY <1>5, <2>1, <2>3, <2>4, <2>5 DEF PumpNext
<1>6. ASSUME NEW s \in Session, DeviceNext(s) PROVE ContractInv' /\ ContractStep
  BY <1>6, DeviceStep
<1>7. ASSUME NEW c \in Call, DispatcherNext(c) PROVE ContractInv' /\ ContractStep
  <2> USE DEF sessionVars
  <2>1. ASSUME NEW u \in Ura, Lookup(c, u) PROVE ContractInv' /\ ContractStep
    BY <2>1, LookupStep
  <2>2. CASE Register(c) BY <2>2, RegisterStep
  <2>3. CASE BuildFrameFails(c) BY <2>3, RejectedStep DEF BuildFrameFails
  <2>4. CASE PushCall(c) BY <2>4, PushCallStep
  <2>5. CASE AwaitReply(c)
    <3>1. call[c].reply \in {"result", "target_offline"}
      BY <2>5 DEF AwaitReply, TypeInv, TypeOK, CallsTypeOK, CallRecord
    <3>2. call[c].reply = "result" => c \in executed BY DEF ContractInv, ProgressOK
    <3>3. PICK o : o = call[c].reply OBVIOUS
    <3>4. Return(c, o) /\ call[c].pc = "waiting" /\ UNCHANGED <<chan, held, device, up, executed>>
      BY <2>5, <3>3 DEF AwaitReply, Return
    <3> QED BY <3>1, <3>2, <3>3, <3>4, ConcludedStep
  <2>6. CASE ReplyTimeout(c) BY <2>6, ReplyTimeoutStep
  <2>7. CASE EvictTimedOut(c) BY <2>7, ConcludedStep DEF EvictTimedOut
  <2>8. CASE AbandonCall(c) BY <2>8, ConcludedStep DEF AbandonCall
  <2> QED BY <1>7, <2>1, <2>2, <2>3, <2>4, <2>5, <2>6, <2>7, <2>8 DEF DispatcherNext
<1>8. CASE WatcherNext
  <2>1. CASE WatcherEvent \/ WatcherLagged
    BY <2>1, UntouchedStep DEF WatcherEvent, WatcherLagged, sessionVars, callVars
  <2>2. ASSUME NEW c \in Call, CancelOne(c) PROVE ContractInv' /\ ContractStep
    BY <2>2, CancelOneStep
  <2> QED BY <1>8, <2>1, <2>2 DEF WatcherNext
<1>9. CASE StreamedNext BY <1>9, StreamedStep
<1> QED BY <1>1, <1>2, <1>3, <1>4, <1>5, <1>6, <1>7, <1>8, <1>9 DEF Next

LEMMA ContractInvInit == Init => ContractInv /\ Contract!Init
<1> SUFFICES ASSUME Init PROVE ContractInv /\ Contract!Init
  OBVIOUS
<1> USE DEF Init
<1>1. << >> \in Seq(NormalFrame) /\ << >> \in Seq(Frame) /\ Len(<< >>) = 0 OBVIOUS
<1>2. DOMAIN (<< >> \o << >>) = 1 .. 0 + 0 BY <1>1, DownIs
<1>3. \A s \in Session : DOMAIN Down(s) = {} BY <1>2 DEF Down
<1>4. QueuedOnce BY <1>3 DEF QueuedOnce
<1>5. QueuedIsOpen BY <1>3 DEF QueuedIsOpen, Queued
<1>6. \A c \in Call : call[c].pc = "idle" /\ call[c].outcome = "none" /\ call[c].reply = NoReply
  BY DEF NewCall
<1>7. \A c \in Call : ProgressOK(c) BY <1>6 DEF ProgressOK, NoReply
<1>8. AnsweredWasHanded BY DEF AnsweredWasHanded
<1>9. \A c \in Call : StatusOf(c) = "idle" BY <1>6, StatusIs
<1>10. Contract!Init BY <1>9 DEF Contract!Init
<1> QED BY <1>4, <1>5, <1>7, <1>8, <1>10 DEF ContractInv

LEMMA ContractInvariant == Spec => []ContractInv
<1>1. Init => ContractInv BY ContractInvInit
<1>2. TypeInv /\ ContractInv /\ [Next]_vars => ContractInv' BY ContractInvStep
<1> QED BY <1>1, <1>2, TypeInvInvariant, PTL DEF Spec

(***************************************************************************)
(* The unary dispatcher keeps its contract with the caller: a call settles *)
(* once, reaches a device at most once, is answered only if it did and     *)
(* never does after a rejection, however sessions are displaced, revoked   *)
(* or aborted, whatever devices send, and whichever of reply, offline      *)
(* event and deadline comes first (dispatch_frame_to_presence over         *)
(* PendingDispatchMap and the session.open provider).                      *)
(***************************************************************************)
THEOREM DispatchImplementsContract == Spec => ImplementsContract
<1>1. Init => Contract!Init BY ContractInvInit
<1>2. TypeInv /\ ContractInv /\ [Next]_vars
        => [Contract!Next]_<<[c \in Call |-> StatusOf(c)], executed>>
  BY ContractInvStep DEF ContractStep, StatusMap
<1> QED BY <1>1, <1>2, TypeInvInvariant, ContractInvariant, PTL
        DEF Spec, ImplementsContract, Contract!Spec

=============================================================================
