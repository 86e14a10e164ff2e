------------------------- MODULE HubMessageProofs -------------------------
(***************************************************************************)
(* What becomes of a message in Hub, for every value of the constants: it  *)
(* is neither lost nor doubled, it stays in the order of its sender, and   *)
(* who joins late finds it in the history.                                 *)
(*                                                                         *)
(* For a client c and a message m, a copy of m stands in one of four       *)
(* places: on the screen of c, in its channel, in a deliverSlow goroutine, *)
(* or with the task that delivers it.  Held counts the copies.  The proof  *)
(* shows that no step but addToHistory makes a copy (Ledger), that         *)
(* addToHistory makes one only of a message that has none yet (Past), and  *)
(* that no step destroys a copy that a healthy settled client is owed      *)
(* (Kept).  The history frame replaces the screen, so it has to precede    *)
(* in the channel every message stored since the client settled            *)
(* (ReplayFirst).                                                          *)
(***************************************************************************)
EXTENDS HubDeliveryProofs, FiniteSetTheorems

USE DEF vars, hubVars, chanVars, taskVars, connVars, rest, Places

Logged(c, m)  == {i \in DOMAIN view[c].log : view[c].log[i] = m}
Waiting(c, m) == {i \in DOMAIN queue[c] : queue[c][i] = MessageFrame(m)}
Retried(c, m) == {s \in slow : s.conn = c /\ s.frame = MessageFrame(m)}

Carries(t, c, m) == /\ body[t] = MessageFrame(m)
                    /\ \/ pc[t] = "deliver"
                       \/ pc[t] = "delivering" /\ c \in todo[t]

Carrying(c, m) == {t \in Task : Carries(t, c, m)}

\* None, one, or more: enough of the size of a set that may be infinite.
Tally(S) == IF S = {} THEN 0 ELSE IF \E x \in S : S = {x} THEN 1 ELSE 2

Held(c, m) == Tally(Logged(c, m)) + Tally(Waiting(c, m))
                + Tally(Retried(c, m)) + Tally(Carrying(c, m))

\* m is not a message that its sender's handler still has to store, nor one that
\* has not been read yet.
Past(m) == IF pc[Main(m.from)] = "store" THEN m.n + 1 < sent[m.from]
                                         ELSE m.n < sent[m.from]

Ledger == \A c \in Conn, m \in Message : /\ Held(c, m) <= 1
                                         /\ Held(c, m) > 0 => Past(m)

\* The message a task holds is its own connection's, and the last one read.
Original(t) == /\ body[t].kind = "message" =>
                    /\ t = Main(body[t].msg.from)
                    /\ pc[t] = "store" => body[t].msg.n + 1 = sent[body[t].msg.from]
               /\ pc[t] = "history" => body[t].kind = "history"

Origins == (\A e \in chat : Past(e.msg)) /\ (\A t \in Task : Original(t))

Joining == {"idle", "welcome", "cutoff", "snapshot", "history"}

\* No history frame on its way to c will wipe m off the screen.
Early(c, m) ==
    \A i \in DOMAIN queue[c] : queue[c][i].kind = "history" =>
        Logged(c, m) = {} /\ \A j \in Waiting(c, m) : i < j

ReplayFirst ==
    /\ \A s \in slow : s.frame.kind # "history"
    /\ \A e \in chat : \A c \in e.settled : pc[Main(c)] \notin Joining /\ Early(c, e.msg)

\* c is to see m.
Awaits(c, m) == Addressed(c, m) /\ \E e \in chat : e.msg = m /\ c \in e.settled

Kept == \A c \in Conn, m \in Message : Healthy(c) /\ Awaits(c, m) => Held(c, m) >= 1

Safe == SafeInv /\ PrivacyInv
Inv  == Ledger /\ Origins /\ ReplayFirst /\ Kept

---------------------------------------------------------------------------
(* Counting *)

LEMMA TallyFacts ==
    /\ \A S : Tally(S) \in {0, 1, 2}
    /\ Tally({}) = 0 /\ \A x : Tally({x}) = 1
    /\ \A S : Tally(S) = 0 => S = {}
    /\ \A S : Tally(S) = 1 => \E x \in S : S = {x}
    /\ \A S, T : S \subseteq T => Tally(S) <= Tally(T)
<1>1. ASSUME NEW S, NEW T, S \subseteq T PROVE Tally(S) <= Tally(T)
  <2>1. CASE S = {} \/ \A x \in T : T # {x}
    BY <1>1, <2>1 DEF Tally
  <2>2. CASE S # {} /\ \E x \in T : T = {x}
    <3>1. PICK x \in T : T = {x}
      BY <2>2
    <3>2. S = {x}
      BY <1>1, <2>2, <3>1
    <3>. QED
      BY <3>1, <3>2 DEF Tally
  <2>. QED
    BY <2>1, <2>2
<1>2. \A S : Tally(S) \in {0, 1, 2} /\ (Tally(S) = 0 => S = {})
  BY DEF Tally
<1>3. \A S : Tally(S) = 1 => \E x \in S : S = {x}
  BY DEF Tally
<1>4. Tally({}) = 0 /\ \A x : Tally({x}) = 1
  BY DEF Tally
<1>. QED
  BY <1>1, <1>2, <1>3, <1>4

\* A copy in one place is the only one there, and there is none elsewhere.
LEMMA OneCopy ==
    ASSUME Ledger, NEW c \in Conn, NEW m \in Message
    PROVE  LET L == Logged(c, m)  W == Waiting(c, m)  R == Retried(c, m)  C == Carrying(c, m)
           IN  /\ \A x \in L : L = {x} /\ W = {} /\ R = {} /\ C = {}
               /\ \A x \in W : L = {} /\ W = {x} /\ R = {} /\ C = {}
               /\ \A x \in R : L = {} /\ W = {} /\ R = {x} /\ C = {}
               /\ \A x \in C : L = {} /\ W = {} /\ R = {} /\ C = {x}
<1>. DEFINE L == Logged(c, m)  W == Waiting(c, m)  R == Retried(c, m)  C == Carrying(c, m)
<1>1. Tally(L) + Tally(W) + Tally(R) + Tally(C) <= 1
  BY DEF Ledger, Held
<1>2. \A S : \A x \in S : Tally(S) # 0 /\ (Tally(S) = 1 => S = {x})
  BY TallyFacts
<1>. HIDE DEF L, W, R, C
<1>3. /\ \A x \in L : L = {x} /\ W = {} /\ R = {} /\ C = {}
      /\ \A x \in W : L = {} /\ W = {x} /\ R = {} /\ C = {}
      /\ \A x \in R : L = {} /\ W = {} /\ R = {x} /\ C = {}
      /\ \A x \in C : L = {} /\ W = {} /\ R = {} /\ C = {x}
  <2>1. /\ Tally(L) \in {0, 1, 2} /\ Tally(W) \in {0, 1, 2}
        /\ Tally(R) \in {0, 1, 2} /\ Tally(C) \in {0, 1, 2}
    BY TallyFacts
  <2>2. ASSUME NEW x \in L PROVE L = {x} /\ W = {} /\ R = {} /\ C = {}
    <3>1. Tally(L) = 1 /\ Tally(W) = 0 /\ Tally(R) = 0 /\ Tally(C) = 0
      BY <1>1, <1>2, <2>1
    <3>. QED
      BY <1>2, <3>1, TallyFacts
  <2>3. ASSUME NEW x \in W PROVE L = {} /\ W = {x} /\ R = {} /\ C = {}
    <3>1. Tally(L) = 0 /\ Tally(W) = 1 /\ Tally(R) = 0 /\ Tally(C) = 0
      BY <1>1, <1>2, <2>1
    <3>. QED
      BY <1>2, <3>1, TallyFacts
  <2>4. ASSUME NEW x \in R PROVE L = {} /\ W = {} /\ R = {x} /\ C = {}
    <3>1. Tally(L) = 0 /\ Tally(W) = 0 /\ Tally(R) = 1 /\ Tally(C) = 0
      BY <1>1, <1>2, <2>1
    <3>. QED
      BY <1>2, <3>1, TallyFacts
  <2>5. ASSUME NEW x \in C PROVE L = {} /\ W = {} /\ R = {} /\ C = {x}
    <3>1. Tally(L) = 0 /\ Tally(W) = 0 /\ Tally(R) = 0 /\ Tally(C) = 1
      BY <1>1, <1>2, <2>1
    <3>. QED
      BY <1>2, <3>1, TallyFacts
  <2>. QED
    BY <2>2, <2>3, <2>4, <2>5
<1>. QED
  BY <1>3 DEF L, W, R, C

LEMMA HeldFacts ==
    ASSUME NEW c, NEW m
    PROVE  /\ Held(c, m) \in Nat
           /\ Held(c, m) = 0 => /\ Logged(c, m) = {} /\ Waiting(c, m) = {}
                               /\ Retried(c, m) = {} /\ Carrying(c, m) = {}
<1>1. /\ Tally(Logged(c, m)) \in Nat /\ Tally(Waiting(c, m)) \in Nat
      /\ Tally(Retried(c, m)) \in Nat /\ Tally(Carrying(c, m)) \in Nat
  BY TallyFacts
<1>2. Held(c, m) \in Nat
  BY <1>1 DEF Held
<1>3. Held(c, m) = 0 => /\ Tally(Logged(c, m)) = 0 /\ Tally(Waiting(c, m)) = 0
                        /\ Tally(Retried(c, m)) = 0 /\ Tally(Carrying(c, m)) = 0
  <2>. DEFINE x == Tally(Logged(c, m))  y == Tally(Waiting(c, m))
              z == Tally(Retried(c, m))  w == Tally(Carrying(c, m))
  <2>1. x \in Nat /\ y \in Nat /\ z \in Nat /\ w \in Nat /\ Held(c, m) = x + y + z + w
    BY <1>1 DEF Held
  <2>. HIDE DEF x, y, z, w
  <2>2. Held(c, m) = 0 => x = 0 /\ y = 0 /\ z = 0 /\ w = 0
    BY <2>1
  <2>. QED
    BY <2>2 DEF x, y, z, w
<1>. QED
  BY <1>2, <1>3, TallyFacts

\* No place of m for c changes.
Still(c, m) == /\ Logged(c, m)' = Logged(c, m) /\ Waiting(c, m)' = Waiting(c, m)
               /\ Retried(c, m)' = Retried(c, m) /\ Carrying(c, m)' = Carrying(c, m)

\* No copy of m is made for c, and none is lost that c is owed.
Keeps(c, m) == /\ Held(c, m)' <= Held(c, m)
               /\ Healthy(c)' /\ Awaits(c, m) => Held(c, m)' = Held(c, m)

LEMMA StillKeeps ==
    ASSUME NEW c \in Conn, NEW m \in Message, Still(c, m)
    PROVE  Keeps(c, m)
<1>1. Held(c, m)' = Held(c, m)
  BY DEF Still, Held
<1>2. Held(c, m) \in Nat
  BY TallyFacts DEF Held
<1>. QED
  BY <1>1, <1>2 DEF Keeps

\* A step that keeps every copy keeps the ledger.
LEMMA LedgerStays ==
    ASSUME Ledger, Kept, Origins, UNCHANGED chat, chat \subseteq [msg: Message, present: SUBSET Conn, settled: SUBSET Conn],
           \A c \in Conn, m \in Message : Keeps(c, m),
           \A m \in Message : Past(m) => Past(m)',
           \A c \in Conn, m \in Message : Healthy(c)' /\ Awaits(c, m) => Healthy(c)
    PROVE  Ledger' /\ Kept' /\ \A e \in chat' : Past(e.msg)'
<1>1. \A c \in Conn, m \in Message : Held(c, m) \in Nat
  BY TallyFacts DEF Held
<1>2. \A c \in Conn, m \in Message : Held(c, m)' \in Nat
  BY TallyFacts DEF Held
<1>3. Ledger'
  BY <1>1, <1>2 DEF Ledger, Keeps
<1>4. Kept'
  <2>. SUFFICES ASSUME NEW c \in Conn, NEW m \in Message, Healthy(c)', Awaits(c, m)'
                PROVE  Held(c, m)' >= 1
    BY DEF Kept
  <2>1. Awaits(c, m)
    BY DEF Awaits, Addressed
  <2>2. Held(c, m) >= 1 /\ Held(c, m)' = Held(c, m)
    BY <2>1 DEF Kept, Keeps
  <2>. QED
    BY <2>2
<1>5. \A e \in chat' : Past(e.msg)'
  BY DEF Origins
<1>. QED
  BY <1>3, <1>4, <1>5

---------------------------------------------------------------------------
(* What the operations of the hub do to the copies *)

LEMMA FrameOf ==
    \A m : /\ MessageFrame(m).kind = "message" /\ MessageFrame(m).msg = m
           /\ \A k : MessageFrame(k) = MessageFrame(m) => k = m
<1>1. \A m : MessageFrame(m).kind = "message" /\ MessageFrame(m).msg = m
  BY DEF MessageFrame
<1>. QED
  BY <1>1

LEMMA SendPlain ==
    ASSUME TypeOK, NEW c \in Conn, NEW f \in Frame, Send(c, f),
           NEW d \in Conn, NEW m, d # c \/ f # MessageFrame(m)
    PROVE  Waiting(d, m)' = Waiting(d, m)
<1>1. CASE queue'[d] = queue[d]
  BY <1>1 DEF Waiting
<1>2. CASE d = c /\ queue'[d] = Append(queue[d], f)
  <2>1. queue[d] \in Seq(Frame)
    BY DEF TypeOK
  <2>2. /\ DOMAIN queue[d] = 1..Len(queue[d]) /\ Len(queue[d]) \in Nat
        /\ DOMAIN queue'[d] = 1..Len(queue[d]) + 1
        /\ queue'[d][Len(queue[d]) + 1] = f
        /\ \A i \in 1..Len(queue[d]) : queue'[d][i] = queue[d][i]
    BY <1>2, <2>1, AppendProperties
  <2>. QED
    BY <1>2, <2>2 DEF Waiting
<1>. QED
  BY <1>1, <1>2 DEF Send, TypeOK

LEMMA SendCopy ==
    ASSUME TypeOK, NEW c \in Conn, NEW m \in Message, Send(c, MessageFrame(m)),
           c \notin closed, ~Full(c), Waiting(c, m) = {}
    PROVE  Waiting(c, m)' = {Len(queue[c]) + 1}
<1>. DEFINE f == MessageFrame(m)
<1>1. queue[c] \in Seq(Frame) /\ queue'[c] = Append(queue[c], f)
  BY FrameFacts, SendLast DEF TypeOK
<1>2. /\ DOMAIN queue[c] = 1..Len(queue[c]) /\ Len(queue[c]) \in Nat
      /\ DOMAIN queue'[c] = 1..Len(queue[c]) + 1
      /\ queue'[c][Len(queue[c]) + 1] = f
      /\ \A i \in 1..Len(queue[c]) : queue'[c][i] = queue[c][i]
  BY <1>1, AppendProperties, FrameFacts
<1>. QED
  BY <1>2 DEF Waiting

\* Only the handler of its sender delivers a message.
LEMMA OneCarrier ==
    ASSUME Origins, NEW t \in Task, NEW c, NEW m, Carries(t, c, m)
    PROVE  t = Main(m.from) /\ body[t].kind = "message" /\ body[t].msg = m
BY FrameOf DEF Carries, Origins, Original

\* A step that leaves each task's share alone leaves all of them alone.
LEMMA TasksStill ==
    ASSUME NEW c, NEW m, \A t \in Task : Carries(t, c, m)' <=> Carries(t, c, m)
    PROVE  Carrying(c, m)' = Carrying(c, m)
BY DEF Carrying

\* The handler of d, unless it stores or delivers, shows nothing and writes nothing.
LEMMA ConnQuiet ==
    ASSUME NEW d, ~Store(d), EnvStep(d) \/ ConnStep(d)
    PROVE  UNCHANGED <<view, slow, todo>>
<1>1. CASE EnvStep(d)
  BY <1>1 DEF EnvStep, Register, ReadMessage, ProtocolError, LinkDown
<1>2. CASE RegisterStep(d)
  BY <1>2 DEF RegisterStep, SendWelcome, ReadCutoff, Snapshot, SendHistory
<1>3. CASE ReadFails(d) \/ ReadPumpExit(d)
  BY <1>3 DEF ReadFails, ReadPumpExit
<1>. QED
  BY <1>1, <1>2, <1>3 DEF ConnStep

\* What the handler of d does outside a delivery, and the end of d.
LEMMA ConnStill ==
    ASSUME Safe, Origins, NEW d \in Conn, ~Store(d), EnvStep(d) \/ ConnStep(d),
           NEW c \in Conn, NEW m \in Message
    PROVE  Still(c, m)
<1>. USE TaskFacts DEF Safe, SafeInv
<1>1. UNCHANGED <<view, slow, todo>>
  BY ConnQuiet
<1>2. \A t \in Task \ {Main(d), Leave(d)} : pc'[t] = pc[t] /\ body'[t] = body[t]
  <2>. SUFFICES ASSUME NEW t \in Task \ {Main(d), Leave(d)}
                PROVE  pc'[t] = pc[t] /\ body'[t] = body[t]
    OBVIOUS
  <2>0. ASSUME NEW l, NEW b, Goto(Main(d), l), body' = body \/ Hold(Main(d), b)
        PROVE  pc'[t] = pc[t] /\ body'[t] = body[t]
    BY <2>0 DEF Goto, Hold, TypeOK
  <2>1. CASE EnvStep(d)
    <3>1. CASE Register(d) \/ ProtocolError(d) \/ LinkDown(d)
      BY <2>0, <3>1 DEF Register, ProtocolError, LinkDown
    <3>2. CASE ReadMessage(d)
      BY <2>0, <3>2 DEF ReadMessage
    <3>. QED
      BY <2>1, <3>1, <3>2 DEF EnvStep
  <2>2. CASE RegisterStep(d)
    BY <2>0, <2>2 DEF RegisterStep, SendWelcome, ReadCutoff, Snapshot, SendHistory
  <2>3. CASE ReadFails(d)
    BY <2>0, <2>3 DEF ReadFails
  <2>4. CASE ReadPumpExit(d)
    BY <2>4 DEF ReadPumpExit, AfterRemove, TypeOK
  <2>. QED
    BY <2>1, <2>2, <2>3, <2>4 DEF ConnStep
<1>3. \/ pc'[Main(d)] = pc[Main(d)] /\ body'[Main(d)] = body[Main(d)]
      \/ /\ pc[Main(d)] \notin {"deliver", "delivering"}
         /\ pc'[Main(d)] \notin {"deliver", "delivering"}
  BY DEF EnvStep, ConnStep, Register, RegisterStep, SendWelcome, ReadCutoff, Snapshot,
         SendHistory, ReadMessage, ReadFails, ProtocolError, LinkDown, ReadPumpExit,
         AfterRemove, Goto, Hold, TypeOK
<1>4. body'[Leave(d)] = body[Leave(d)]
  BY DEF EnvStep, ConnStep, Register, RegisterStep, SendWelcome, ReadCutoff, Snapshot,
         SendHistory, ReadMessage, ReadFails, ProtocolError, LinkDown, ReadPumpExit,
         AfterRemove, Goto, Hold, TypeOK
<1>5. body[Leave(d)] # MessageFrame(m)
  <2>1. Leave(d) # Main(m.from)
    BY DEF Main, Leave
  <2>. QED
    BY <2>1, FrameOf DEF Origins, Original
<1>6. Carrying(c, m)' = Carrying(c, m)
  <2>1. ASSUME NEW t \in Task PROVE Carries(t, c, m)' <=> Carries(t, c, m)
    <3>1. CASE t \notin {Main(d), Leave(d)}
      BY <1>1, <1>2, <3>1 DEF Carries
    <3>2. CASE t = Main(d)
      BY <1>1, <1>3, <3>2 DEF Carries
    <3>3. CASE t = Leave(d)
      BY <1>4, <1>5, <3>3 DEF Carries
    <3>. QED
      BY <3>1, <3>2, <3>3
  <2>. QED
    BY <2>1, TasksStill
<1>7. Waiting(c, m)' = Waiting(c, m)
  <2>1. \/ queue' = queue
        \/ Send(d, WelcomeFrame)
        \/ Send(d, body[Main(d)]) /\ pc[Main(d)] = "history"
    BY DEF EnvStep, ConnStep, Register, RegisterStep, SendWelcome, ReadCutoff, Snapshot,
           SendHistory, ReadMessage, ReadFails, ProtocolError, LinkDown, ReadPumpExit,
           EnqueueJSON
  <2>2. CASE queue' = queue
    BY <2>2 DEF Waiting
  <2>3. CASE Send(d, WelcomeFrame)
    <3>1. WelcomeFrame # MessageFrame(m) /\ WelcomeFrame \in Frame
      BY FrameFacts DEF WelcomeFrame, MessageFrame
    <3>. QED
      BY <2>3, <3>1, SendPlain
  <2>4. CASE Send(d, body[Main(d)]) /\ pc[Main(d)] = "history"
    <3>1. body[Main(d)] # MessageFrame(m) /\ body[Main(d)] \in Frame
      BY <2>4, FrameOf DEF Origins, Original, TypeOK
    <3>. QED
      BY <2>4, <3>1, SendPlain
  <2>. QED
    BY <2>1, <2>2, <2>3, <2>4
<1>. QED
  BY <1>1, <1>6, <1>7 DEF Still, Logged, Retried

\* addToHistory: the message becomes deliverable to everyone, and nothing else moves.
LEMMA StoreLedger ==
    ASSUME Safe, Inv, NEW d \in Conn, Store(d)
    PROVE  /\ Ledger' /\ Kept'
           /\ \A e \in chat' : e \in chat \/ (e.settled = Settled /\ \A c \in Conn :
                                 Logged(c, e.msg) = {} /\ Waiting(c, e.msg) = {})
           /\ \A e \in chat' : Past(e.msg)'
<1>. USE TaskFacts DEF Safe, SafeInv
<1>. DEFINE k == body[Main(d)].msg
<1>1. /\ pc[Main(d)] = "store" /\ pc' = [pc EXCEPT ![Main(d)] = "deliver"]
      /\ UNCHANGED <<view, queue, slow, body, todo, sent, link, shut, clients>>
      /\ chat' = chat \cup {[msg |-> k, present |-> clients, settled |-> Settled]}
  BY DEF Store, Goto
<1>2. /\ body[Main(d)].kind = "message" /\ k \in Message /\ body[Main(d)] = MessageFrame(k)
      /\ k.n + 1 = sent[d] /\ k.from = d /\ k.n \in Nat /\ sent[d] \in Nat
  <2>1. body[Main(d)] \in Frame /\ body[Main(d)].kind = "message"
    BY <1>1 DEF TypeOK
  <2>2. k \in Message /\ body[Main(d)] = MessageFrame(k)
    <3>1. body[Main(d)] \in [kind: {"message"}, msg: Message]
      BY <2>1 DEF Frame, WelcomeFrame
    <3>. QED
      BY <3>1 DEF MessageFrame
  <2>3. Main(k.from) = Main(d) /\ k.n + 1 = sent[k.from]
    BY <1>1, <2>1 DEF Inv, Origins, Original
  <2>4. k.from = d
    BY <2>3 DEF Main
  <2>. QED
    BY <2>1, <2>2, <2>3, <2>4 DEF Message, TypeOK
<1>3. ~Past(k)
  BY <1>1, <1>2 DEF Past
<1>4. \A c \in Conn : ~(Held(c, k) > 0)
  BY <1>2, <1>3 DEF Inv, Ledger
<1>5. ASSUME NEW c \in Conn
      PROVE  Logged(c, k) = {} /\ Waiting(c, k) = {} /\ Retried(c, k) = {} /\ Carrying(c, k) = {}
  <2>1. Held(c, k) = 0
    BY <1>4, HeldFacts
  <2>. QED
    BY <2>1, HeldFacts
<1>6. ASSUME NEW c \in Conn, NEW m \in Message
      PROVE  /\ Logged(c, m)' = Logged(c, m) /\ Waiting(c, m)' = Waiting(c, m)
             /\ Retried(c, m)' = Retried(c, m)
             /\ Carrying(c, m)' = IF m = k THEN {Main(d)} ELSE Carrying(c, m)
  <2>1. /\ Logged(c, m)' = Logged(c, m) /\ Waiting(c, m)' = Waiting(c, m)
        /\ Retried(c, m)' = Retried(c, m)
    BY <1>1 DEF Logged, Waiting, Retried
  <2>2. \A t \in Task : Carries(t, c, m)' <=> Carries(t, c, m) \/ (t = Main(d) /\ m = k)
    <3>1. \A t \in Task \ {Main(d)} : pc'[t] = pc[t] /\ body'[t] = body[t] /\ todo'[t] = todo[t]
      BY <1>1 DEF TypeOK
    <3>2. /\ pc[Main(d)] = "store" /\ pc'[Main(d)] = "deliver"
          /\ body'[Main(d)] = MessageFrame(k)
      BY <1>1, <1>2 DEF TypeOK
    <3>3. \A t \in Task \ {Main(d)} : Carries(t, c, m)' <=> Carries(t, c, m)
      BY <3>1 DEF Carries
    <3>4. Carries(Main(d), c, m)' <=> m = k
      BY <3>2, FrameOf DEF Carries
    <3>5. ~Carries(Main(d), c, m)
      BY <3>2 DEF Carries
    <3>. QED
      BY <3>3, <3>4, <3>5
  <2>3. CASE m = k
    <3>1. \A t \in Task : ~Carries(t, c, m)
      BY <1>5, <2>3 DEF Carrying
    <3>. QED
      BY <2>1, <2>2, <2>3, <3>1 DEF Carrying
  <2>4. CASE m # k
    BY <2>1, <2>2, <2>4 DEF Carrying
  <2>. QED
    BY <2>3, <2>4
<1>7. ASSUME NEW c \in Conn, NEW m \in Message
      PROVE  Held(c, m)' = IF m = k THEN 1 ELSE Held(c, m)
  <2>1. CASE m = k
    <3>1. /\ Logged(c, m)' = {} /\ Waiting(c, m)' = {} /\ Retried(c, m)' = {}
          /\ Carrying(c, m)' = {Main(d)}
      BY <1>5, <1>6, <2>1
    <3>2. /\ Tally(Logged(c, m)') = 0 /\ Tally(Waiting(c, m)') = 0
          /\ Tally(Retried(c, m)') = 0 /\ Tally(Carrying(c, m)') = 1
      BY ONLY <3>1, TallyFacts
    <3>. QED
      BY <2>1, <3>2 DEF Held
  <2>2. CASE m # k
    <3>1. /\ Logged(c, m)' = Logged(c, m) /\ Waiting(c, m)' = Waiting(c, m)
          /\ Retried(c, m)' = Retried(c, m) /\ Carrying(c, m)' = Carrying(c, m)
      BY <1>6, <2>2
    <3>. QED
      BY <2>2, <3>1 DEF Held
  <2>. QED
    BY <2>1, <2>2
<1>8. \A m \in Message : Past(m) \/ m = k => Past(m)'
  <2>. SUFFICES ASSUME NEW m \in Message, Past(m) \/ m = k PROVE Past(m)'
    OBVIOUS
  <2>1. m.from \in Conn /\ m.n \in Nat /\ sent[m.from] \in Nat
    BY DEF Message, TypeOK
  <2>2. pc'[Main(m.from)] = "store" => pc[Main(m.from)] = "store" /\ m.from # d
    BY <1>1, <2>1 DEF TypeOK
  <2>. QED
    BY <1>1, <1>2, <2>1, <2>2 DEF Past
<1>9. Ledger'
  BY <1>7, <1>8 DEF Inv, Ledger
<1>10. Kept'
  <2>. SUFFICES ASSUME NEW c \in Conn, NEW m \in Message, Healthy(c)', Awaits(c, m)'
                PROVE  Held(c, m)' >= 1
    BY DEF Kept
  <2>1. m # k => Awaits(c, m)
    BY <1>1 DEF Awaits, Addressed
  <2>2. Healthy(c)
    BY <1>1 DEF Healthy
  <2>. QED
    BY <1>7, <2>1, <2>2 DEF Inv, Kept
<1>11. \A e \in chat' : e \in chat \/ (e.settled = Settled /\ \A c \in Conn :
                           Logged(c, e.msg) = {} /\ Waiting(c, e.msg) = {})
  BY <1>1, <1>5
<1>12. \A e \in chat' : Past(e.msg)'
  <2>1. \A e \in chat : e.msg \in Message /\ Past(e.msg)
    BY DEF Inv, Origins, TypeOK
  <2>. QED
    BY <1>1, <1>2, <1>8, <2>1
<1>. QED
  BY <1>9, <1>10, <1>11, <1>12

\* The one copy of m for c goes from one place to another.
LEMMA MovedKeeps ==
    ASSUME Ledger, NEW c \in Conn, NEW m \in Message, NEW x,
           Waiting(c, m) # {} \/ Retried(c, m) # {} \/ Carrying(c, m) # {},
           \/ /\ Logged(c, m)' = {x} /\ Waiting(c, m)' = {}
              /\ Retried(c, m)' = {} /\ Carrying(c, m)' = {}
           \/ /\ Logged(c, m)' = {} /\ Waiting(c, m)' = {x}
              /\ Retried(c, m)' = {} /\ Carrying(c, m)' = {}
           \/ /\ Logged(c, m)' = {} /\ Waiting(c, m)' = {}
              /\ Retried(c, m)' = {x} /\ Carrying(c, m)' = {}
    PROVE  Keeps(c, m)
<1>1. Held(c, m)' = 1
  <2>1. Tally({x}) = 1 /\ Tally({}) = 0
    BY TallyFacts
  <2>. QED
    BY <2>1 DEF Held
<1>2. Held(c, m) # 0 /\ Held(c, m) \in Nat /\ Held(c, m) <= 1
  BY HeldFacts DEF Ledger
<1>. QED
  BY <1>1, <1>2 DEF Keeps

\* Copies of m for c, who is owed none, go away.
LEMMA ShrunkKeeps ==
    ASSUME NEW c \in Conn, NEW m \in Message, ~(Healthy(c)' /\ Awaits(c, m)),
           Logged(c, m)' \subseteq Logged(c, m), Waiting(c, m)' \subseteq Waiting(c, m),
           Retried(c, m)' \subseteq Retried(c, m), Carrying(c, m)' \subseteq Carrying(c, m)
    PROVE  Keeps(c, m)
<1>. DEFINE x == Tally(Logged(c, m))  y == Tally(Waiting(c, m))
            z == Tally(Retried(c, m))  w == Tally(Carrying(c, m))
            p == Tally(Logged(c, m)')  q == Tally(Waiting(c, m)')
            r == Tally(Retried(c, m)')  s == Tally(Carrying(c, m)')
<1>1. x \in Nat /\ y \in Nat /\ z \in Nat /\ w \in Nat
  BY TallyFacts
<1>2. p \in Nat /\ q \in Nat /\ r \in Nat /\ s \in Nat
  BY TallyFacts
<1>3. p <= x /\ q <= y /\ r <= z /\ s <= w
  BY TallyFacts
<1>4. Held(c, m) = x + y + z + w /\ Held(c, m)' = p + q + r + s
  BY DEF Held
<1>5. Held(c, m)' <= Held(c, m)
  <2>. HIDE DEF x, y, z, w, p, q, r, s
  <2>. QED
    BY <1>1, <1>2, <1>3, <1>4
<1>. QED
  BY <1>5 DEF Keeps

\* Who is to see a message is visited by its delivery.
LEMMA DueIsAudience ==
    ASSUME NEW c \in clients, NEW m, Addressed(c, m)
    PROVE  c \in Audience(MessageFrame(m))
BY FrameOf DEF Audience, Addressed, VisibleTo

LEMMA DeliverKeeps ==
    ASSUME Safe, Inv, NEW t \in Task, DeliverStep(t), NEW c \in Conn, NEW m \in Message
    PROVE  Keeps(c, m)
<1>. USE TaskFacts DEF Safe, SafeInv
<1>. DEFINE f == MessageFrame(m)
<1>1. /\ UNCHANGED <<view, link, clients>>
      /\ \A u \in Task \ {t} : pc'[u] = pc[u] /\ body'[u] = body[u] /\ todo'[u] = todo[u]
  BY DeliverOwn
<1>2. \A u \in Task \ {t} : Carries(u, c, m)' <=> Carries(u, c, m)
  BY <1>1 DEF Carries
<1>3. Logged(c, m)' = Logged(c, m)
  BY <1>1 DEF Logged
<1>4. CASE ListDevices(t) \/ EndDeliver(t)
  <2>1. /\ UNCHANGED <<queue, slow, todo>>
        /\ \/ pc[t] = "devices" /\ body'[t] = PresenceFrame(t, OnlineDevices)
           \/ pc[t] = "delivering" /\ todo[t] = {} /\ pc'[t] \in {"read", "done"}
    BY <1>4 DEF ListDevices, EndDeliver, Goto, Hold, TypeOK
  <2>2. PresenceFrame(t, OnlineDevices) # f
    BY DEF PresenceFrame, MessageFrame
  <2>3. ~Carries(t, c, m) /\ ~Carries(t, c, m)'
    BY <2>1, <2>2 DEF Carries
  <2>4. Carrying(c, m)' = Carrying(c, m)
    BY <1>2, <2>3, TasksStill
  <2>. QED
    BY <1>3, <2>1, <2>4, StillKeeps DEF Still, Waiting, Retried
<1>5. CASE BeginDeliver(t)
  <2>1. /\ UNCHANGED <<queue, slow, body, shut>> /\ pc[t] = "deliver" /\ pc'[t] = "delivering"
        /\ todo'[t] = Audience(body[t])
    BY <1>5 DEF BeginDeliver, Goto, TypeOK
  <2>2. Waiting(c, m)' = Waiting(c, m) /\ Retried(c, m)' = Retried(c, m)
    BY <2>1 DEF Waiting, Retried
  <2>3. CASE Carries(t, c, m)' <=> Carries(t, c, m)
    <3>1. Carrying(c, m)' = Carrying(c, m)
      BY <1>2, <2>3, TasksStill
    <3>. QED
      BY <1>3, <2>2, <3>1, StillKeeps DEF Still
  <2>4. CASE ~(Carries(t, c, m)' <=> Carries(t, c, m))
    <3>1. body[t] = f /\ c \notin Audience(f) /\ ~Carries(t, c, m)'
      BY <2>1, <2>4 DEF Carries
    <3>2. Carrying(c, m)' \subseteq Carrying(c, m)
      BY <1>2, <3>1 DEF Carrying
    <3>3. ~(Healthy(c)' /\ Awaits(c, m))
      BY <1>1, <3>1, DueIsAudience DEF Healthy, Awaits
    <3>. QED
      BY <1>3, <2>2, <3>2, <3>3, ShrunkKeeps
  <2>. QED
    BY <2>3, <2>4
<1>6. ASSUME NEW d \in todo[t], DeliverTo(t, d) PROVE Keeps(c, m)
  <2>1. /\ UNCHANGED <<pc, body, shut>> /\ pc[t] = "delivering" /\ todo'[t] = todo[t] \ {d}
        /\ d \in Conn /\ d \notin closed /\ body[t] \in Frame
    BY <1>6 DEF DeliverTo, TypeOK, LockInv
  <2>2. \/ Send(d, body[t]) /\ ~Full(d) /\ slow' = slow
        \/ queue' = queue /\ slow' = slow \cup {Slow(d, body[t], "retry")}
    BY <1>6, <2>1 DEF DeliverTo
  <2>3. Slow(d, body[t], "retry").conn = d /\ Slow(d, body[t], "retry").frame = body[t]
    BY DEF Slow
  <2>4. CASE c # d \/ body[t] # f
    <3>1. Carries(t, c, m)' <=> Carries(t, c, m)
      BY <2>1, <2>4 DEF Carries
    <3>2. Carrying(c, m)' = Carrying(c, m)
      BY <1>2, <3>1, TasksStill
    <3>3. Waiting(c, m)' = Waiting(c, m)
      <4>1. CASE Send(d, body[t])
        BY <2>1, <2>4, <4>1, SendPlain
      <4>2. CASE queue' = queue
        BY <4>2 DEF Waiting
      <4>. QED
        BY <2>2, <4>1, <4>2
    <3>4. Retried(c, m)' = Retried(c, m)
      BY <2>2, <2>3, <2>4 DEF Retried
    <3>. QED
      BY <1>3, <3>2, <3>3, <3>4, StillKeeps DEF Still
  <2>5. CASE c = d /\ body[t] = f
    <3>1. t \in Carrying(c, m)
      BY <2>1, <2>5 DEF Carrying, Carries
    <3>2. Logged(c, m) = {} /\ Waiting(c, m) = {} /\ Retried(c, m) = {} /\ Carrying(c, m) = {t}
      BY <3>1, OneCopy DEF Inv
    <3>3. ~Carries(t, c, m)'
      BY <2>1, <2>5 DEF Carries
    <3>4. Carrying(c, m)' = {}
      BY <1>2, <3>2, <3>3 DEF Carrying
    <3>5. CASE Send(d, body[t]) /\ ~Full(d) /\ slow' = slow
      <4>1. Waiting(c, m)' = {Len(queue[c]) + 1} /\ Retried(c, m)' = {}
        BY <2>1, <2>5, <3>2, <3>5, SendCopy DEF Retried
      <4>. QED
        BY <1>3, <3>2, <3>4, <4>1, MovedKeeps DEF Inv
    <3>6. CASE queue' = queue /\ slow' = slow \cup {Slow(d, body[t], "retry")}
      <4>1. Waiting(c, m)' = {} /\ Retried(c, m)' = {Slow(d, body[t], "retry")}
        BY <2>3, <2>5, <3>2, <3>6 DEF Waiting, Retried
      <4>. QED
        BY <1>3, <3>2, <3>4, <4>1, MovedKeeps DEF Inv
    <3>. QED
      BY <2>2, <3>5, <3>6
  <2>. QED
    BY <2>4, <2>5
<1>. QED
  BY <1>4, <1>5, <1>6 DEF DeliverStep

\* Removing a connection hands no message to anyone.
LEMMA RemoveStill ==
    ASSUME Safe, Origins, NEW d \in Conn, NEW l, pc' = AfterRemove(d, l), UNCHANGED <<body, todo>>,
           l \in [Task -> Places], NEW c \in Conn, NEW m \in Message,
           \A t \in Task : l[t] # pc[t] => /\ pc[t] \notin {"deliver", "delivering"}
                                           /\ l[t] \notin {"deliver", "delivering"}
    PROVE  Carrying(c, m)' = Carrying(c, m)
<1>. USE TaskFacts
<1>1. body[Leave(d)] # MessageFrame(m)
  <2>1. Leave(d) # Main(m.from)
    BY DEF Main, Leave
  <2>. QED
    BY <2>1, FrameOf DEF Origins, Original
<1>2. \A t \in Task \ {Leave(d)} : pc'[t] = l[t]
  BY DEF AfterRemove
<1>3. ASSUME NEW t \in Task PROVE Carries(t, c, m)' <=> Carries(t, c, m)
  <2>1. CASE t = Leave(d)
    BY <1>1, <2>1 DEF Carries
  <2>2. CASE t # Leave(d)
    BY <1>2, <2>2 DEF Carries
  <2>. QED
    BY <2>1, <2>2
<1>. QED
  BY <1>3, TasksStill

LEMMA SlowKeeps ==
    ASSUME Safe, Inv, NEW s \in slow, SlowStep(s), NEW c \in Conn, NEW m \in Message
    PROVE  Keeps(c, m)
<1>. USE TaskFacts DEF Safe, SafeInv
<1>. DEFINE f == MessageFrame(m)
<1>1. /\ UNCHANGED <<view, link, body, todo>> /\ s.conn \in Conn /\ s.frame \in Frame
      /\ Logged(c, m)' = Logged(c, m)
  BY DEF SlowStep, Retry, Expire, StillThere, Disconnect, TypeOK, Logged
<1>2. CASE Disconnect(s)
  <2>1. /\ UNCHANGED queue /\ slow' = slow \ {s} /\ Remove(s.conn)
        /\ pc' = AfterRemove(s.conn, pc) /\ pc \in [Task -> Places]
    BY <1>2 DEF Disconnect, TypeOK
  <2>2. Carrying(c, m)' = Carrying(c, m)
    BY <1>1, <2>1, RemoveStill DEF Inv
  <2>3. Waiting(c, m)' = Waiting(c, m)
    BY <2>1 DEF Waiting
  <2>4. CASE s.conn = c
    <3>1. ~Healthy(c)'
      BY <2>1, <2>4 DEF Remove, Healthy
    <3>2. Retried(c, m)' \subseteq Retried(c, m)
      BY <2>1 DEF Retried
    <3>. QED
      BY <1>1, <2>2, <2>3, <3>1, <3>2, ShrunkKeeps
  <2>5. CASE s.conn # c
    <3>1. Retried(c, m)' = Retried(c, m)
      BY <2>1, <2>5 DEF Retried
    <3>. QED
      BY <1>1, <2>2, <2>3, <3>1, StillKeeps DEF Still
  <2>. QED
    BY <2>4, <2>5
<1>3. CASE ~Disconnect(s)
  <2>1. UNCHANGED <<pc, clients, shut>> /\ Carrying(c, m)' = Carrying(c, m)
    BY <1>1, <1>3 DEF SlowStep, Retry, Expire, StillThere, Carrying, Carries
  <2>2. CASE s.conn \notin clients /\ slow' = slow \ {s} /\ queue' = queue
    <3>1. Waiting(c, m)' = Waiting(c, m) /\ Retried(c, m)' \subseteq Retried(c, m)
      BY <2>2 DEF Waiting, Retried
    <3>2. CASE s.conn = c
      BY <1>1, <2>1, <2>2, <3>1, <3>2, ShrunkKeeps DEF Healthy
    <3>3. CASE s.conn # c
      <4>1. Retried(c, m)' = Retried(c, m)
        BY <2>2, <3>3 DEF Retried
      <4>. QED
        BY <1>1, <2>1, <3>1, <4>1, StillKeeps DEF Still
    <3>. QED
      BY <3>2, <3>3
  <2>3. CASE /\ slow' = slow \ {s} /\ Send(s.conn, s.frame) /\ ~Full(s.conn)
             /\ s.conn \notin closed
    <3>1. CASE s.conn = c /\ s.frame = f
      <4>1. s \in Retried(c, m)
        BY <3>1 DEF Retried
      <4>2. Logged(c, m) = {} /\ Waiting(c, m) = {} /\ Retried(c, m) = {s} /\ Carrying(c, m) = {}
        BY <4>1, OneCopy DEF Inv
      <4>3. Waiting(c, m)' = {Len(queue[c]) + 1}
        BY <2>3, <3>1, <4>2, SendCopy
      <4>4. Retried(c, m)' = {}
        BY <2>3, <4>2 DEF Retried
      <4>. QED
        BY <1>1, <2>1, <4>2, <4>3, <4>4, MovedKeeps DEF Inv
    <3>2. CASE s.conn # c \/ s.frame # f
      <4>1. Waiting(c, m)' = Waiting(c, m)
        BY <1>1, <2>3, <3>2, SendPlain
      <4>2. Retried(c, m)' = Retried(c, m)
        BY <2>3, <3>2 DEF Retried
      <4>. QED
        BY <1>1, <2>1, <4>1, <4>2, StillKeeps DEF Still
    <3>. QED
      BY <3>1, <3>2
  <2>4. ASSUME NEW l, Move(s, l), queue' = queue PROVE Keeps(c, m)
    <3>. DEFINE q == [s EXCEPT !.at = l]
    <3>1. slow' = (slow \ {s}) \cup {q} /\ q.conn = s.conn /\ q.frame = s.frame
      BY <2>4 DEF Move, TypeOK
    <3>2. Waiting(c, m)' = Waiting(c, m)
      BY <2>4 DEF Waiting
    <3>. HIDE DEF q
    <3>3. CASE s.conn = c /\ s.frame = f
      <4>1. s \in Retried(c, m)
        BY <3>3 DEF Retried
      <4>2. Logged(c, m) = {} /\ Waiting(c, m) = {} /\ Retried(c, m) = {s} /\ Carrying(c, m) = {}
        BY <4>1, OneCopy DEF Inv
      <4>3. Retried(c, m)' = {q}
        BY <3>1, <3>3, <4>2 DEF Retried
      <4>. QED
        BY <1>1, <2>1, <3>2, <4>2, <4>3, MovedKeeps DEF Inv
    <3>4. CASE s.conn # c \/ s.frame # f
      <4>1. Retried(c, m)' = Retried(c, m)
        BY <3>1, <3>4 DEF Retried
      <4>. QED
        BY <1>1, <2>1, <3>2, <4>1, StillKeeps DEF Still
    <3>. QED
      BY <3>3, <3>4
  <2>5. \/ s.conn \notin clients /\ slow' = slow \ {s} /\ queue' = queue
        \/ /\ slow' = slow \ {s} /\ Send(s.conn, s.frame) /\ ~Full(s.conn)
           /\ s.conn \notin closed
        \/ (\E l \in {"check", "unregister"} : Move(s, l)) /\ queue' = queue
    BY <1>3 DEF SlowStep, Retry, Expire, StillThere, LockInv
  <2>. QED
    BY <2>2, <2>3, <2>4, <2>5
<1>. QED
  BY <1>2, <1>3

\* A frame leaves the channel: each remaining one moves up.
LEMMA TailFacts ==
    ASSUME TypeOK, NEW c \in Conn, queue[c] # <<>>, queue' = [queue EXCEPT ![c] = Tail(@)]
    PROVE  /\ 1 \in DOMAIN queue[c] /\ Head(queue[c]) = queue[c][1] /\ queue[c][1] \in Frame
           /\ DOMAIN queue[c] \subseteq Nat
           /\ \A i \in DOMAIN queue'[c] : /\ i \in Nat /\ i + 1 \in DOMAIN queue[c]
                                          /\ queue'[c][i] = queue[c][i + 1]
           /\ \A i \in DOMAIN queue[c] \ {1} : /\ i - 1 \in DOMAIN queue'[c]
                                              /\ queue'[c][i - 1] = queue[c][i]
           /\ \A d \in Conn \ {c} : queue'[d] = queue[d]
<1>1. queue[c] \in Seq(Frame) /\ queue'[c] = Tail(queue[c])
  BY DEF TypeOK
<1>2. /\ Tail(queue[c]) \in Seq(Frame) /\ Len(Tail(queue[c])) = Len(queue[c]) - 1
      /\ Head(queue[c]) \in Frame /\ Len(queue[c]) \in Nat /\ Len(queue[c]) # 0
      /\ \A i \in 1..Len(Tail(queue[c])) : Tail(queue[c])[i] = queue[c][i + 1]
  BY <1>1, HeadTailProperties, EmptySeq
<1>3. Head(queue[c]) = queue[c][1]
  BY <1>1
<1>4. DOMAIN queue[c] = 1..Len(queue[c]) /\ DOMAIN queue'[c] = 1..(Len(queue[c]) - 1)
  <2>1. \A s \in Seq(Frame) : DOMAIN s = 1..Len(s)
    OBVIOUS
  <2>. QED
    BY <1>1, <1>2, <2>1
<1>5. \A d \in Conn \ {c} : queue'[d] = queue[d]
  BY DEF TypeOK
<1>6. \A i \in DOMAIN queue'[c] : /\ i \in Nat /\ i + 1 \in DOMAIN queue[c]
                               /\ queue'[c][i] = queue[c][i + 1]
  BY <1>1, <1>2, <1>4
<1>7. ASSUME NEW i \in DOMAIN queue[c] \ {1}
      PROVE  i - 1 \in DOMAIN queue'[c] /\ queue'[c][i - 1] = queue[c][i]
  <2>1. i \in Nat /\ i - 1 \in DOMAIN queue'[c]
    BY <1>2, <1>4
  <2>2. i - 1 + 1 = i
    BY <2>1
  <2>. QED
    BY <1>6, <2>1, <2>2
<1>8. 1 \in DOMAIN queue[c] /\ DOMAIN queue[c] \subseteq Nat
  BY <1>2, <1>4
<1>. QED
  BY <1>2, <1>3, <1>5, <1>6, <1>7, <1>8

LEMMA TailCopies ==
    ASSUME Safe, Inv, NEW c \in Conn, queue[c] # <<>>, queue' = [queue EXCEPT ![c] = Tail(@)],
           NEW m \in Message
    PROVE  /\ \A d \in Conn \ {c} : Waiting(d, m)' = Waiting(d, m)
           /\ 1 \in Waiting(c, m) => Waiting(c, m)' = {}
           /\ 1 \notin Waiting(c, m) /\ Waiting(c, m) = {} => Waiting(c, m)' = {}
           /\ 1 \notin Waiting(c, m) => \A x \in Waiting(c, m) : Waiting(c, m)' = {x - 1}
<1>. USE DEF Safe, SafeInv
<1>1. \A d \in Conn \ {c} : Waiting(d, m)' = Waiting(d, m)
  BY TailFacts DEF Waiting
<1>2. \A i \in Waiting(c, m)' : i \in Nat /\ i + 1 \in Waiting(c, m)
  BY TailFacts DEF Waiting
<1>3. \A i \in Waiting(c, m) \ {1} : i - 1 \in Waiting(c, m)' /\ i \in Nat
  <2>. SUFFICES ASSUME NEW i \in Waiting(c, m) \ {1}
                PROVE  i - 1 \in Waiting(c, m)' /\ i \in Nat
    OBVIOUS
  <2>1. i \in DOMAIN queue[c] \ {1} /\ queue[c][i] = MessageFrame(m)
    BY DEF Waiting
  <2>2. i \in Nat /\ i - 1 \in DOMAIN queue'[c] /\ queue'[c][i - 1] = queue[c][i]
    BY <2>1, TailFacts
  <2>. QED
    BY <2>1, <2>2 DEF Waiting
<1>4. \A x \in Waiting(c, m) : Waiting(c, m) = {x}
  BY OneCopy DEF Inv
<1>5. ASSUME 1 \in Waiting(c, m) PROVE Waiting(c, m)' = {}
  <2>1. \A i \in Waiting(c, m)' : i \in Nat /\ i + 1 = 1 /\ i # 0
    <3>1. \A i \in Waiting(c, m)' : i \in DOMAIN queue'[c]
      BY DEF Waiting
    <3>2. 0 \notin DOMAIN queue'[c]
      <4>1. queue'[c] \in Seq(Frame)
        BY HeadTailProperties DEF TypeOK
      <4>. QED
        BY <4>1
    <3>. QED
      BY <1>2, <1>4, <1>5, <3>1, <3>2
  <2>. QED
    BY <2>1
<1>6. ASSUME 1 \notin Waiting(c, m), NEW x \in Waiting(c, m) PROVE Waiting(c, m)' = {x - 1}
  <2>1. x - 1 \in Waiting(c, m)' /\ x \in Nat
    BY <1>3, <1>6
  <2>2. \A i \in Waiting(c, m)' : i \in Nat /\ i + 1 = x
    BY <1>2, <1>4
  <2>3. \A i \in Waiting(c, m)' : i = x - 1
    BY <2>1, <2>2
  <2>. QED
    BY <2>1, <2>3
<1>. QED
  BY <1>1, <1>2, <1>5, <1>6

\* A frame joins the log only if it is a message; a history frame empties the log.
LEMMA LogStep ==
    ASSUME TypeOK, NEW c \in Conn, NEW f \in Frame, view' = [view EXCEPT ![c] = Received(@, f)],
           NEW m \in Message
    PROVE  /\ f = MessageFrame(m) =>
                Logged(c, m)' = Logged(c, m) \cup {Len(view[c].log) + 1}
           /\ f.kind = "history" => Logged(c, m)' = {}
           /\ f # MessageFrame(m) /\ f.kind # "history" => Logged(c, m)' = Logged(c, m)
<1>. DEFINE log == view[c].log
<1>1. view[c] \in View /\ log \in Seq(Message) /\ view'[c] = Received(view[c], f)
  BY DEF TypeOK, View
<1>2. CASE f.kind \in {"welcome", "presence"}
  <2>1. view'[c].log = log
    <3>1. CASE f.kind = "welcome"
      BY <1>1, <3>1 DEF Received
    <3>2. CASE f.kind = "presence"
      <4>1. view'[c] = [view[c] EXCEPT !.users = f.users, !.rosters = @ \cup {f.users}]
        BY <1>1, <3>2 DEF Received
      <4>. QED
        BY <1>1, <4>1 DEF View
    <3>. QED
      BY <1>2, <3>1, <3>2
  <2>2. f # MessageFrame(m)
    BY <1>2, FrameOf
  <2>. QED
    BY <1>2, <2>1, <2>2 DEF Logged
<1>3. CASE f.kind = "history"
  <2>1. view'[c] = [view[c] EXCEPT !.replayed = f.msgs, !.log = <<>>]
    BY <1>1, <1>3 DEF Received
  <2>2. view'[c].log = <<>>
    BY <1>1, <2>1 DEF View
  <2>3. f # MessageFrame(m)
    BY <1>3, FrameOf
  <2>. QED
    BY <1>3, <2>2, <2>3 DEF Logged
<1>4. CASE f.kind = "message"
  <2>1. view'[c] = [view[c] EXCEPT !.log = Append(@, f.msg)] /\ f.msg \in Message
    BY <1>1, <1>4, FrameFacts DEF Received
  <2>2. view'[c].log = Append(log, f.msg)
    BY <1>1, <2>1 DEF View
  <2>3. f = MessageFrame(f.msg)
    <3>1. f \in [kind: {"message"}, msg: Message]
      BY <1>4 DEF Frame, WelcomeFrame
    <3>. QED
      BY <3>1 DEF MessageFrame
  <2>. HIDE DEF log
  <2>4. /\ DOMAIN log = 1..Len(log) /\ Len(log) \in Nat
        /\ DOMAIN Append(log, f.msg) = 1..Len(log) + 1
        /\ Append(log, f.msg)[Len(log) + 1] = f.msg
        /\ \A i \in 1..Len(log) : Append(log, f.msg)[i] = log[i]
    BY <1>1, <2>1, AppendProperties
  <2>5. CASE f.msg = m
    <3>1. Logged(c, m)' = {i \in 1..Len(log) + 1 : Append(log, f.msg)[i] = m}
      BY <2>2, <2>4 DEF Logged
    <3>2. Logged(c, m) = {i \in 1..Len(log) : log[i] = m}
      BY <2>4 DEF Logged, log
    <3>3. Logged(c, m)' = Logged(c, m) \cup {Len(log) + 1}
      BY <2>4, <2>5, <3>1, <3>2
    <3>. QED
      BY <1>4, <2>3, <2>5, <3>3 DEF log
  <2>6. CASE f.msg # m
    <3>1. Logged(c, m)' = {i \in 1..Len(log) + 1 : Append(log, f.msg)[i] = m}
      BY <2>2, <2>4 DEF Logged
    <3>2. Logged(c, m) = {i \in 1..Len(log) : log[i] = m}
      BY <2>4 DEF Logged, log
    <3>3. Logged(c, m)' = Logged(c, m)
      BY <2>4, <2>6, <3>1, <3>2
    <3>. QED
      BY <1>4, <2>6, <3>3, FrameOf
  <2>. QED
    BY <2>5, <2>6
<1>. QED
  BY <1>2, <1>3, <1>4, FrameFacts

LEMMA WriteKeeps ==
    ASSUME Safe, Inv, NEW d \in Conn, WriteStep(d), NEW c \in Conn, NEW m \in Message
    PROVE  Keeps(c, m)
<1>. USE DEF Safe, SafeInv
<1>. DEFINE f == MessageFrame(m)
<1>1. UNCHANGED <<slow, pc, body, todo, clients, link>>
  BY DEF WriteStep, WriteFrame, WriteLost, WriteFails, WriteClose, WriterEnds
<1>2. Retried(c, m)' = Retried(c, m) /\ Carrying(c, m)' = Carrying(c, m)
  BY <1>1 DEF Retried, Carrying, Carries
<1>3. CASE WriteFails(d) \/ WriteClose(d)
  <2>1. UNCHANGED <<queue, view>>
    BY <1>3 DEF WriteFails, WriteClose, WriterEnds
  <2>. QED
    BY <1>2, <2>1, StillKeeps DEF Still, Logged, Waiting
<1>4. CASE WriteFrame(d) \/ WriteLost(d)
  <2>1. queue[d] # <<>> /\ queue' = [queue EXCEPT ![d] = Tail(@)]
    BY <1>4 DEF WriteFrame, WriteLost
  <2>2. CASE c # d
    <3>1. Waiting(c, m)' = Waiting(c, m)
      BY <2>1, <2>2, TailCopies
    <3>2. Logged(c, m)' = Logged(c, m)
      BY <1>4, <2>2 DEF WriteFrame, WriteLost, Logged, TypeOK
    <3>. QED
      BY <1>2, <3>1, <3>2, StillKeeps DEF Still
  <2>3. CASE c = d
    <3>. DEFINE g == queue[c][1]
    <3>1. g \in Frame /\ 1 \in DOMAIN queue[c] /\ Head(queue[c]) = g
          /\ (1 \in Waiting(c, m) <=> g = f)
      BY <2>1, <2>3, TailFacts DEF Waiting
    <3>2. ASSUME Logged(c, m)' = Logged(c, m), g # f PROVE Keeps(c, m)
      <4>1. CASE Waiting(c, m) = {}
        <5>1. Waiting(c, m)' = {}
          BY <2>1, <2>3, <3>1, <3>2, <4>1, TailCopies
        <5>. QED
          BY <1>2, <3>2, <4>1, <5>1, StillKeeps DEF Still
      <4>2. ASSUME NEW x \in Waiting(c, m) PROVE Keeps(c, m)
        <5>1. Waiting(c, m)' = {x - 1}
          BY <2>1, <2>3, <3>1, <3>2, <4>2, TailCopies
        <5>2. Logged(c, m) = {} /\ Retried(c, m) = {} /\ Carrying(c, m) = {}
          BY <4>2, OneCopy DEF Inv
        <5>. QED
          BY <1>2, <3>2, <4>2, <5>1, <5>2, MovedKeeps DEF Inv
      <4>. QED
        BY <4>1, <4>2
    <3>3. CASE WriteLost(c)
      <4>1. Logged(c, m)' = Logged(c, m) /\ ~Healthy(c)'
        BY <3>3 DEF WriteLost, Healthy, Logged
      <4>2. CASE g = f
        <5>1. Waiting(c, m)' = {}
          BY <2>1, <2>3, <3>1, <4>2, TailCopies
        <5>. QED
          BY <1>2, <4>1, <5>1, ShrunkKeeps
      <4>. QED
        BY <3>2, <4>1, <4>2
    <3>4. CASE WriteFrame(c)
      <4>1. view' = [view EXCEPT ![c] = Received(@, g)]
        BY <3>1, <3>4 DEF WriteFrame
      <4>2. CASE g = f
        <5>1. Waiting(c, m)' = {} /\ Waiting(c, m) # {}
          BY <2>1, <2>3, <3>1, <4>2, TailCopies
        <5>2. Logged(c, m) = {} /\ Retried(c, m) = {} /\ Carrying(c, m) = {}
          BY <5>1, OneCopy DEF Inv
        <5>3. Logged(c, m)' = {Len(view[c].log) + 1}
          BY <3>1, <4>1, <4>2, <5>2, LogStep
        <5>. QED
          BY <1>2, <5>1, <5>2, <5>3, MovedKeeps DEF Inv
      <4>3. CASE g # f /\ g.kind # "history"
        <5>1. Logged(c, m)' = Logged(c, m)
          BY <3>1, <4>1, <4>3, LogStep
        <5>. QED
          BY <3>2, <4>3, <5>1
      <4>4. CASE g # f /\ g.kind = "history"
        <5>1. Logged(c, m)' = {}
          BY <3>1, <4>1, <4>4, LogStep
        <5>2. CASE Logged(c, m) = {}
          BY <3>2, <4>4, <5>1, <5>2
        <5>3. CASE Logged(c, m) # {}
          <6>1. Waiting(c, m) = {}
            BY <5>3, OneCopy DEF Inv
          <6>2. Waiting(c, m)' = {}
            BY <2>1, <2>3, <3>1, <4>4, <6>1, TailCopies
          <6>3. ~Awaits(c, m)
            BY <3>1, <4>4, <5>3 DEF Inv, ReplayFirst, Early, Awaits
          <6>. QED
            BY <1>2, <5>1, <6>2, <6>3, ShrunkKeeps
        <5>. QED
          BY <5>2, <5>3
      <4>. QED
        BY <4>2, <4>3, <4>4
    <3>. QED
      BY <1>4, <2>3, <3>3, <3>4
  <2>. QED
    BY <2>2, <2>3
<1>. QED
  BY <1>3, <1>4 DEF WriteStep

---------------------------------------------------------------------------
(* Which messages are old, whose they are, and where history frames stand *)

LEMMA PastStays ==
    ASSUME Safe, Next, \A d \in Conn : ~Store(d), NEW m \in Message, Past(m)
    PROVE  Past(m)'
<1>. USE TaskFacts DEF Safe, SafeInv
<1>. DEFINE t == Main(m.from)
<1>1. m.from \in Conn /\ t \in Task /\ m.n \in Nat /\ sent[m.from] \in Nat
  BY DEF Message, TypeOK
<1>2. CASE sent' = sent /\ (pc'[t] = "store" => pc[t] = "store")
  BY <1>1, <1>2 DEF Past
<1>3. ASSUME NEW d \in Conn, ReadMessage(d) PROVE Past(m)'
  <2>1. /\ sent' = [sent EXCEPT ![d] = @ + 1] /\ pc[Main(d)] = "read"
        /\ pc' = [pc EXCEPT ![Main(d)] = "store"]
    BY <1>3 DEF ReadMessage, Goto
  <2>2. CASE m.from = d
    <3>1. sent'[m.from] = sent[m.from] + 1 /\ m.n < sent[m.from]
      BY <1>1, <2>1, <2>2 DEF Past, TypeOK
    <3>. QED
      BY <1>1, <3>1 DEF Past
  <2>3. CASE m.from # d
    <3>1. t # Main(d)
      BY <2>3 DEF Main
    <3>2. sent'[m.from] = sent[m.from] /\ pc'[t] = pc[t]
      BY <1>1, <2>1, <2>3, <3>1 DEF TypeOK
    <3>. QED
      BY <3>2 DEF Past
  <2>. QED
    BY <2>2, <2>3
<1>4. ASSUME NEW d \in Conn, ConnStep(d) \/ EnvStep(d) PROVE Past(m)'
  <2>1. CASE ~ReadMessage(d)
    <3>1. sent' = sent /\ \A u \in Task : pc'[u] = "store" => pc[u] = "store"
      BY <1>4, <2>1 DEF EnvStep, ConnStep, Register, RegisterStep, SendWelcome, ReadCutoff,
         Snapshot, SendHistory, ReadFails, ProtocolError, LinkDown, ReadPumpExit,
         AfterRemove, Goto, Hold, TypeOK
    <3>. QED
      BY <1>1, <1>2, <3>1
  <2>. QED
    BY <1>3, <2>1
<1>5. ASSUME NEW d \in Conn, WriteStep(d) PROVE Past(m)'
  BY <1>2, <1>5 DEF WriteStep, WriteFrame, WriteLost, WriteFails, WriteClose, WriterEnds
<1>6. ASSUME NEW u \in Task, DeliverStep(u) PROVE Past(m)'
  <2>1. sent' = sent /\ \A v \in Task : pc'[v] = "store" => pc[v] = "store"
    BY <1>6 DEF DeliverStep, ListDevices, BeginDeliver, DeliverTo, EndDeliver, Goto, TypeOK
  <2>. QED
    BY <1>1, <1>2, <2>1
<1>7. ASSUME NEW s \in slow, SlowStep(s) PROVE Past(m)'
  <2>1. sent' = sent /\ s.conn \in Conn /\ (pc' = pc \/ pc' = AfterRemove(s.conn, pc))
    BY <1>7 DEF SlowStep, Retry, Expire, StillThere, Disconnect, TypeOK
  <2>2. \A v \in Task : pc'[v] = "store" => pc[v] = "store"
    BY <2>1 DEF AfterRemove, TypeOK
  <2>. QED
    BY <1>1, <1>2, <2>1, <2>2
<1>8. CASE Tick
  BY <1>2, <1>8 DEF Tick
<1>. QED
  BY <1>4, <1>5, <1>6, <1>7, <1>8 DEF Next, Work

\* A task that keeps what it holds, or holds something else than a message.
LEMMA OriginalStays ==
    ASSUME Origins, NEW t \in Task, sent' = sent,
           \/ body'[t] = body[t] /\ (pc'[t] \in {"store", "history"} => pc'[t] = pc[t])
           \/ /\ body'[t].kind # "message"
              /\ pc'[t] = "history" => body'[t].kind = "history"
    PROVE  Original(t)'
BY DEF Origins, Original

LEMMA OriginNext ==
    ASSUME Safe, Origins, Next, NEW t \in Task
    PROVE  Original(t)'
<1>. USE TaskFacts DEF Safe, SafeInv
<1>1. ASSUME NEW d \in Conn, ReadMessage(d) PROVE Original(t)'
  <2>1. PICK m : /\ m.from = d /\ m.n = sent[d]
                 /\ body' = [body EXCEPT ![Main(d)] = MessageFrame(m)]
    <3>1. PICK raw \in RawLists : Hold(Main(d), MessageFrame(
             [from |-> d, n |-> sent[d], to |-> Recipients(raw, DeviceOf[d]),
              named |-> Recipients(raw, DeviceOf[d]) \cap known, ts |-> now,
              asked |-> Intended(raw)]))
      BY <1>1 DEF ReadMessage
    <3>. QED
      BY <3>1 DEF Hold
  <2>2. /\ sent' = [sent EXCEPT ![d] = @ + 1] /\ sent[d] \in Nat
        /\ pc' = [pc EXCEPT ![Main(d)] = "store"]
    BY <1>1 DEF ReadMessage, Goto, TypeOK
  <2>3. CASE t = Main(d)
    <3>1. body'[t] = MessageFrame(m) /\ pc'[t] = "store" /\ sent'[d] = m.n + 1
      BY <2>1, <2>2, <2>3 DEF TypeOK
    <3>. QED
      BY <2>1, <2>3, <3>1, FrameOf DEF Original
  <2>4. CASE t # Main(d)
    <3>1. body'[t] = body[t] /\ pc'[t] = pc[t]
      BY <2>1, <2>2, <2>4 DEF TypeOK
    <3>2. body[t].kind = "message" => body[t].msg.from # d
      BY <2>4 DEF Origins, Original
    <3>3. ASSUME body[t].kind = "message", pc[t] = "store"
          PROVE  sent'[body[t].msg.from] = sent[body[t].msg.from]
      <4>1. body[t] \in Frame
        BY <3>3 DEF TypeOK
      <4>2. body[t].msg \in Message
        BY <3>3, <4>1, FrameFacts
      <4>3. body[t].msg.from \in Conn
        BY <4>2 DEF Message
      <4>. QED
        BY <2>2, <3>2, <3>3, <4>3 DEF TypeOK
    <3>. QED
      BY <3>1, <3>3 DEF Origins, Original
  <2>. QED
    BY <2>3, <2>4
<1>2. ASSUME NEW d \in Conn, EnvStep(d) \/ ConnStep(d), ~ReadMessage(d) PROVE Original(t)'
  <2>1. CASE ReadCutoff(d) \/ Snapshot(d) \/ SendHistory(d)
    <3>1. /\ UNCHANGED sent
          /\ \A u \in Task : \/ body'[u] = body[u] /\ pc'[u] = pc[u]
                            \/ /\ body'[u].kind # "message"
                               /\ pc'[u] = "history" => body'[u].kind = "history"
      <4>1. CASE ReadCutoff(d)
        BY <4>1 DEF ReadCutoff, Goto, Hold, Cutoff, TypeOK
      <4>2. CASE Snapshot(d)
        <5>1. /\ UNCHANGED sent
              /\ \/ \E b : /\ b.kind = "history"
                           /\ body' = [body EXCEPT ![Main(d)] = b]
                 \/ /\ body' = [body EXCEPT ![Main(d)] = Nothing]
                    /\ pc' = [pc EXCEPT ![Main(d)] = "devices"]
          BY <4>2 DEF Snapshot, Goto, Hold, HistoryFrame
        <5>2. \A u \in Task \ {Main(d)} : pc'[u] = pc[u]
          BY <4>2 DEF Snapshot, Goto, TypeOK
        <5>3. \A u \in Task \ {Main(d)} : body'[u] = body[u]
          BY <5>1 DEF TypeOK
        <5>4. \/ body'[Main(d)].kind = "history"
              \/ body'[Main(d)].kind # "message" /\ pc'[Main(d)] # "history"
          <6>1. Main(d) \in DOMAIN body /\ Main(d) \in DOMAIN pc
            BY DEF TypeOK
          <6>2. \/ \E b : b.kind = "history" /\ body'[Main(d)] = b
                \/ body'[Main(d)] = Nothing /\ pc'[Main(d)] = "devices"
            BY <5>1, <6>1
          <6>. QED
            BY <6>2 DEF Nothing
        <5>. QED
          BY <5>1, <5>2, <5>3, <5>4
      <4>3. CASE SendHistory(d)
        BY <4>3 DEF SendHistory, Goto, Hold, Nothing, TypeOK
      <4>. QED
        BY <2>1, <4>1, <4>2, <4>3
    <3>. QED
      BY <3>1, OriginalStays
  <2>2. CASE Register(d) \/ SendWelcome(d) \/ Store(d) \/ ReadFails(d) \/ ProtocolError(d)
    BY <2>2, OriginalStays DEF Register, SendWelcome, Store, ReadFails, ProtocolError,
                               Goto, TypeOK
  <2>3. CASE LinkDown(d) \/ ReadPumpExit(d)
    <3>1. /\ UNCHANGED <<sent, body>>
          /\ \A u \in Task : pc'[u] \in {"store", "history"} => pc'[u] = pc[u]
      BY <2>3 DEF LinkDown, ReadPumpExit, AfterRemove, TypeOK
    <3>. QED
      BY <3>1, OriginalStays
  <2>. QED
    BY <1>2, <2>1, <2>2, <2>3 DEF EnvStep, ConnStep, RegisterStep
<1>3. ASSUME NEW d \in Conn, WriteStep(d) PROVE Original(t)'
  BY <1>3, OriginalStays DEF WriteStep, WriteFrame, WriteLost, WriteFails, WriteClose,
                             WriterEnds
<1>4. ASSUME NEW u \in Task, DeliverStep(u) PROVE Original(t)'
  <2>1. /\ UNCHANGED sent
        /\ \A v \in Task : \/ body'[v] = body[v] /\ pc'[v] \notin {"store", "history"}
                           \/ body'[v] = body[v] /\ pc'[v] = pc[v]
                           \/ body'[v].kind # "message" /\ pc'[v] # "history"
    <3>1. CASE ListDevices(u)
      BY <3>1 DEF ListDevices, Goto, Hold, PresenceFrame, TypeOK
    <3>2. CASE BeginDeliver(u) \/ \E c \in todo[u] : DeliverTo(u, c)
      BY <3>2 DEF BeginDeliver, DeliverTo, Goto, TypeOK
    <3>3. CASE EndDeliver(u)
      <4>1. /\ body' = [body EXCEPT ![u] = Nothing] /\ UNCHANGED sent
            /\ \E l \in {"read", "done"} : pc' = [pc EXCEPT ![u] = l]
        BY <3>3 DEF EndDeliver, Goto, Hold
      <4>2. body'[u].kind # "message" /\ pc'[u] # "history"
        BY <4>1 DEF Nothing, TypeOK
      <4>. QED
        BY <4>1, <4>2 DEF TypeOK
    <3>. QED
      BY <1>4, <3>1, <3>2, <3>3 DEF DeliverStep
  <2>. QED
    BY <2>1, OriginalStays
<1>5. ASSUME NEW s \in slow, SlowStep(s) PROVE Original(t)'
  <2>1. /\ UNCHANGED <<sent, body>> /\ s.conn \in Conn
        /\ pc' = pc \/ pc' = AfterRemove(s.conn, pc)
    BY <1>5 DEF SlowStep, Retry, Expire, StillThere, Disconnect, TypeOK
  <2>2. \A u \in Task : pc'[u] \in {"store", "history"} => pc'[u] = pc[u]
    BY <2>1 DEF AfterRemove, TypeOK
  <2>. QED
    BY <2>1, <2>2, OriginalStays
<1>6. CASE Tick
  BY <1>6, OriginalStays DEF Tick
<1>. QED
  BY <1>1, <1>2, <1>3, <1>4, <1>5, <1>6 DEF Next, Work

\* A frame other than a history frame goes to the end of the channel.
LEMMA EarlySend ==
    ASSUME TypeOK, NEW d \in Conn, NEW f \in Frame, f.kind # "history", Send(d, f), view' = view,
           NEW c \in Conn, NEW m \in Message, Early(c, m)
    PROVE  Early(c, m)'
<1>1. Logged(c, m)' = Logged(c, m)
  BY DEF Logged
<1>2. CASE queue'[c] = queue[c]
  BY <1>1, <1>2 DEF Early, Waiting
<1>3. CASE queue'[c] = Append(queue[c], f)
  <2>. DEFINE n == Len(queue[c])
  <2>1. queue[c] \in Seq(Frame)
    BY DEF TypeOK
  <2>2. /\ n \in Nat /\ DOMAIN queue[c] = 1..n /\ DOMAIN queue'[c] = 1..n + 1
        /\ queue'[c][n + 1] = f
        /\ \A i \in 1..n : queue'[c][i] = queue[c][i]
    BY <1>3, <2>1, AppendProperties
  <2>. HIDE DEF n
  <2>3. \A i \in DOMAIN queue'[c] : queue'[c][i].kind = "history" =>
           i \in DOMAIN queue[c] /\ queue[c][i].kind = "history" /\ i \in 1..n
    BY <2>2
  <2>4. \A j \in Waiting(c, m)' : j \in Waiting(c, m) \/ j = n + 1
    BY <2>2 DEF Waiting
  <2>. QED
    BY <1>1, <2>2, <2>3, <2>4 DEF Early
<1>. QED
  BY <1>2, <1>3 DEF Send, TypeOK

LEMMA EarlyTail ==
    ASSUME Safe, Inv, NEW c \in Conn, WriteFrame(c) \/ WriteLost(c), NEW m \in Message, Early(c, m)
    PROVE  Early(c, m)'
<1>. USE DEF Safe, SafeInv
<1>1. queue[c] # <<>> /\ queue' = [queue EXCEPT ![c] = Tail(@)]
  BY DEF WriteFrame, WriteLost
<1>2. SUFFICES ASSUME NEW i \in DOMAIN queue'[c], queue'[c][i].kind = "history"
               PROVE  Logged(c, m)' = {} /\ \A j \in Waiting(c, m)' : i < j
  BY DEF Early
<1>3. i \in Nat /\ i + 1 \in DOMAIN queue[c] /\ queue[c][i + 1].kind = "history"
  BY <1>1, <1>2, TailFacts
<1>4. Logged(c, m) = {} /\ \A j \in Waiting(c, m) : i + 1 < j
  BY <1>3 DEF Early
<1>5. \A j \in Waiting(c, m)' : j \in Nat /\ j + 1 \in Waiting(c, m)
  BY <1>1, TailFacts DEF Waiting
<1>6. i # 0
  <2>1. queue'[c] \in Seq(Frame)
    BY <1>1, HeadTailProperties DEF TypeOK
  <2>. QED
    BY <2>1
<1>7. queue[c][1] # MessageFrame(m)
  <2>1. ASSUME queue[c][1] = MessageFrame(m) PROVE FALSE
    <3>1. 1 \in Waiting(c, m)
      BY <1>1, <2>1, TailFacts DEF Waiting
    <3>. QED
      BY <1>3, <1>4, <3>1
  <2>. QED
    BY <2>1
<1>8. Logged(c, m)' = {}
  <2>1. CASE WriteLost(c)
    BY <1>4, <2>1 DEF WriteLost, Logged
  <2>2. CASE WriteFrame(c)
    <3>1. queue[c][1] \in Frame /\ view' = [view EXCEPT ![c] = Received(@, queue[c][1])]
      BY <1>1, <2>2, TailFacts DEF WriteFrame
    <3>. QED
      BY <1>4, <1>7, <3>1, LogStep
  <2>. QED
    BY <2>1, <2>2
<1>9. \A j \in Waiting(c, m)' : i < j
  BY <1>3, <1>4, <1>5
<1>. QED
  BY <1>8, <1>9

\* Nothing a settled client has still to see is behind a history frame.
LEMMA EarlyStays ==
    ASSUME Safe, Inv, Next, \A d \in Conn : ~Store(d),
           NEW c \in Conn, pc[Main(c)] \notin Joining, NEW m \in Message, Early(c, m)
    PROVE  Early(c, m)'
<1>. USE TaskFacts DEF Safe, SafeInv
<1>1. CASE queue'[c] = queue[c] /\ view'[c] = view[c]
  BY <1>1 DEF Early, Logged, Waiting
<1>2. ASSUME NEW d \in Conn, EnvStep(d) \/ ConnStep(d) PROVE Early(c, m)'
  <2>1. view' = view
    BY <1>2 DEF EnvStep, ConnStep, Register, RegisterStep, SendWelcome, ReadCutoff, Snapshot,
       SendHistory, ReadMessage, ReadFails, ProtocolError, LinkDown, ReadPumpExit
  <2>2. CASE SendWelcome(d) \/ SendHistory(d)
    <3>1. c # d
      BY <2>2 DEF SendWelcome, SendHistory, Joining
    <3>2. queue'[c] = queue[c]
      BY <2>2, <3>1 DEF SendWelcome, SendHistory, EnqueueJSON, Send, TypeOK
    <3>. QED
      BY <1>1, <2>1, <3>2
  <2>3. CASE ~(SendWelcome(d) \/ SendHistory(d))
    <3>1. queue' = queue
      BY <1>2, <2>3 DEF EnvStep, ConnStep, Register, RegisterStep, ReadCutoff, Snapshot,
         ReadMessage, ReadFails, ProtocolError, LinkDown, ReadPumpExit
    <3>. QED
      BY <1>1, <2>1, <3>1
  <2>. QED
    BY <2>2, <2>3
<1>3. ASSUME NEW d \in Conn, WriteStep(d) PROVE Early(c, m)'
  <2>1. CASE WriteFails(d) \/ WriteClose(d)
    BY <1>1, <2>1 DEF WriteFails, WriteClose, WriterEnds
  <2>2. CASE WriteFrame(d) \/ WriteLost(d)
    <3>1. CASE c = d
      BY <2>2, <3>1, EarlyTail
    <3>2. CASE c # d
      BY <1>1, <2>2, <3>2 DEF WriteFrame, WriteLost, TypeOK
    <3>. QED
      BY <3>1, <3>2
  <2>. QED
    BY <1>3, <2>1, <2>2 DEF WriteStep
<1>4. ASSUME NEW t \in Task, DeliverStep(t) PROVE Early(c, m)'
  <2>1. view' = view
    BY <1>4 DEF DeliverStep, ListDevices, BeginDeliver, DeliverTo, EndDeliver
  <2>2. \/ queue' = queue
        \/ /\ \E d \in Conn : Send(d, body[t])
           /\ pc[t] = "delivering"
    BY <1>4 DEF DeliverStep, ListDevices, BeginDeliver, DeliverTo, EndDeliver, TypeOK
  <2>3. pc[t] = "delivering" => body[t] \in Frame /\ body[t].kind # "history"
    BY DEF TypeOK, PrivacyInv
  <2>. QED
    BY <1>1, <2>1, <2>2, <2>3, EarlySend
<1>5. ASSUME NEW s \in slow, SlowStep(s) PROVE Early(c, m)'
  <2>1. view' = view /\ s.conn \in Conn /\ s.frame \in Frame /\ s.frame.kind # "history"
    BY <1>5 DEF SlowStep, Retry, Expire, StillThere, Disconnect, TypeOK, Inv, ReplayFirst
  <2>2. queue' = queue \/ Send(s.conn, s.frame)
    BY <1>5 DEF SlowStep, Retry, Expire, StillThere, Disconnect
  <2>. QED
    BY <1>1, <2>1, <2>2, EarlySend
<1>6. CASE Tick
  BY <1>1, <1>6 DEF Tick
<1>. QED
  BY <1>2, <1>3, <1>4, <1>5, <1>6 DEF Next, Work

\* A connection never settles twice.
LEMMA JoinedStays ==
    ASSUME Safe, Next, NEW c \in Conn, pc[Main(c)] \notin Joining
    PROVE  pc'[Main(c)] \notin Joining
<1>. USE TaskFacts DEF Safe, SafeInv
<1>1. ASSUME NEW d \in Conn, EnvStep(d) \/ ConnStep(d) PROVE pc'[Main(c)] \notin Joining
  <2>1. \A e \in Conn : Leave(d) # Main(e)
    BY DEF Leave, Main
  <2>2. CASE Main(c) # Main(d)
    <3>1. pc'[Main(c)] = pc[Main(c)]
      BY <1>1, <2>1, <2>2 DEF EnvStep, ConnStep, Register, RegisterStep, SendWelcome,
         ReadCutoff, Snapshot, SendHistory, ReadMessage, Store, ReadFails, ProtocolError,
         LinkDown, ReadPumpExit, AfterRemove, Goto, TypeOK
    <3>. QED
      BY <3>1
  <2>3. CASE Main(c) = Main(d)
    BY <1>1, <2>1, <2>3 DEF EnvStep, ConnStep, Register, RegisterStep, SendWelcome,
         ReadCutoff, Snapshot, SendHistory, ReadMessage, Store, ReadFails, ProtocolError,
         LinkDown, ReadPumpExit, AfterRemove, Goto, TypeOK, Joining
  <2>. QED
    BY <2>2, <2>3
<1>2. ASSUME NEW d \in Conn, WriteStep(d) PROVE pc'[Main(c)] \notin Joining
  BY <1>2 DEF WriteStep, WriteFrame, WriteLost, WriteFails, WriteClose, WriterEnds
<1>3. ASSUME NEW t \in Task, DeliverStep(t) PROVE pc'[Main(c)] \notin Joining
  BY <1>3 DEF DeliverStep, ListDevices, BeginDeliver, DeliverTo, EndDeliver, Goto, TypeOK,
              Joining
<1>4. ASSUME NEW s \in slow, SlowStep(s) PROVE pc'[Main(c)] \notin Joining
  <2>1. s.conn \in Conn /\ (pc' = pc \/ pc' = AfterRemove(s.conn, pc))
    BY <1>4 DEF SlowStep, Retry, Expire, StillThere, Disconnect, TypeOK
  <2>. QED
    BY <2>1 DEF AfterRemove, TypeOK, Joining
<1>5. CASE Tick
  BY <1>5 DEF Tick
<1>. QED
  BY <1>1, <1>2, <1>3, <1>4, <1>5 DEF Next, Work

LEMMA SlowKinds ==
    ASSUME Safe, ReplayFirst, Next
    PROVE  \A s \in slow' : s.frame.kind # "history"
<1>. USE TaskFacts DEF Safe, SafeInv
<1>1. \A s \in slow : s.frame.kind # "history"
  BY DEF ReplayFirst
<1>2. ASSUME NEW d \in Conn, EnvStep(d) \/ ConnStep(d) PROVE slow' = slow
  BY <1>2 DEF EnvStep, ConnStep, Register, RegisterStep, SendWelcome, ReadCutoff, Snapshot,
     SendHistory, ReadMessage, Store, ReadFails, ProtocolError, LinkDown, ReadPumpExit
<1>3. ASSUME NEW d \in Conn, WriteStep(d) PROVE slow' = slow
  BY <1>3 DEF WriteStep, WriteFrame, WriteLost, WriteFails, WriteClose, WriterEnds
<1>4. ASSUME NEW t \in Task, DeliverStep(t) PROVE \A s \in slow' : s.frame.kind # "history"
  <2>1. CASE slow' = slow
    BY <1>1, <2>1
  <2>2. ASSUME NEW d \in todo[t], DeliverTo(t, d) PROVE \A s \in slow' : s.frame.kind # "history"
    <3>1. body[t].kind # "history"
      BY <2>2 DEF DeliverTo, PrivacyInv
    <3>2. Slow(d, body[t], "retry").frame = body[t]
      BY DEF Slow
    <3>. QED
      BY <1>1, <2>2, <3>1, <3>2 DEF DeliverTo
  <2>. QED
    BY <1>4, <2>1, <2>2 DEF DeliverStep, ListDevices, BeginDeliver, EndDeliver
<1>5. ASSUME NEW s \in slow, SlowStep(s) PROVE \A q \in slow' : q.frame.kind # "history"
  <2>1. \A l : [s EXCEPT !.at = l].frame = s.frame
    BY DEF TypeOK
  <2>. QED
    BY <1>1, <1>5, <2>1 DEF SlowStep, Retry, Expire, StillThere, Disconnect, Move
<1>6. Tick => slow' = slow
  BY DEF Tick
<1>. QED
  BY <1>1, <1>2, <1>3, <1>4, <1>5, <1>6 DEF Next, Work

---------------------------------------------------------------------------
(* The invariant *)

LEMMA InvStore ==
    ASSUME Safe, Inv, Next, NEW d \in Conn, Store(d)
    PROVE  Inv'
<1>. USE DEF Safe, SafeInv
<1>1. /\ Ledger' /\ Kept'
      /\ \A e \in chat' : e \in chat \/ (e.settled = Settled /\ \A c \in Conn :
                            Logged(c, e.msg) = {} /\ Waiting(c, e.msg) = {})
      /\ \A e \in chat' : Past(e.msg)'
  BY StoreLedger
<1>2. Origins'
  BY <1>1, OriginNext DEF Inv, Origins
<1>3. UNCHANGED <<queue, view>>
  BY DEF Store
<1>4. ASSUME NEW e \in chat', NEW c \in e.settled
      PROVE  pc'[Main(c)] \notin Joining /\ Early(c, e.msg)'
  <2>1. CASE e \in chat
    <3>1. c \in Conn /\ pc[Main(c)] \notin Joining /\ Early(c, e.msg)
      BY <2>1 DEF TypeOK, Inv, ReplayFirst
    <3>. QED
      BY <1>3, <3>1, JoinedStays DEF Early, Logged, Waiting
  <2>2. CASE e \notin chat
    <3>1. /\ c \in clients /\ c \in Conn /\ pc[Main(c)] \notin Joining
          /\ Logged(c, e.msg) = {} /\ Waiting(c, e.msg) = {}
      <4>1. e.settled = Settled /\ Logged(c, e.msg) = {} /\ Waiting(c, e.msg) = {}
        BY <1>1, <2>2 DEF Settled, TypeOK
      <4>2. c \in clients /\ pc[Main(c)] \notin Joining
        BY <4>1 DEF Settled, Joining, LockInv
      <4>. QED
        BY <4>1, <4>2 DEF TypeOK
    <3>. QED
      BY <1>3, <3>1, JoinedStays DEF Early, Logged, Waiting
  <2>. QED
    BY <2>1, <2>2
<1>5. ReplayFirst'
  BY <1>4, SlowKinds DEF Inv, ReplayFirst
<1>. QED
  BY <1>1, <1>2, <1>5 DEF Inv

\* Who is a healthy member after a step, and has settled, was one before.
LEMMA HealthyWas ==
    ASSUME Safe, Next, NEW c \in Conn, pc[Main(c)] # "idle", Healthy(c)'
    PROVE  Healthy(c)
<1>. USE DEF Safe, SafeInv
<1>1. ASSUME NEW d \in Conn, EnvStep(d) \/ ConnStep(d) PROVE Healthy(c)
  <2>1. CASE Register(d)
    BY <2>1 DEF Register, Healthy
  <2>2. CASE ~Register(d)
    BY <1>1, <2>2 DEF EnvStep, ConnStep, RegisterStep, SendWelcome, ReadCutoff, Snapshot,
       SendHistory, ReadMessage, Store, ReadFails, ProtocolError, LinkDown, ReadPumpExit,
       Remove, Healthy, TypeOK
  <2>. QED
    BY <2>1, <2>2
<1>2. ASSUME NEW d \in Conn, WriteStep(d) PROVE Healthy(c)
  BY <1>2 DEF WriteStep, WriteFrame, WriteLost, WriteFails, WriteClose, WriterEnds, Healthy
<1>3. ASSUME NEW t \in Task, DeliverStep(t) PROVE Healthy(c)
  BY <1>3 DEF DeliverStep, ListDevices, BeginDeliver, DeliverTo, EndDeliver, Healthy
<1>4. ASSUME NEW s \in slow, SlowStep(s) PROVE Healthy(c)
  BY <1>4 DEF SlowStep, Retry, Expire, StillThere, Disconnect, Remove, Healthy
<1>5. CASE Tick
  BY <1>5 DEF Tick, Healthy
<1>. QED
  BY <1>1, <1>2, <1>3, <1>4, <1>5 DEF Next, Work

LEMMA InvStep ==
    ASSUME Safe, Inv, Next, \A d \in Conn : ~Store(d)
    PROVE  Inv'
<1>. USE DEF Safe, SafeInv
<1>1. UNCHANGED chat
  BY DEF Next, Work, EnvStep, ConnStep, Register, RegisterStep, SendWelcome, ReadCutoff,
     Snapshot, SendHistory, ReadMessage, ReadFails, ProtocolError, LinkDown, ReadPumpExit,
     WriteStep, WriteFrame, WriteLost, WriteFails, WriteClose, WriterEnds, DeliverStep,
     ListDevices, BeginDeliver, DeliverTo, EndDeliver, SlowStep, Retry, Expire, StillThere,
     Disconnect, Tick
<1>2. ASSUME NEW c \in Conn, NEW m \in Message PROVE Keeps(c, m)
  <2>1. ASSUME NEW d \in Conn, EnvStep(d) \/ ConnStep(d) PROVE Keeps(c, m)
    BY <2>1, ConnStill, StillKeeps DEF Inv
  <2>2. CASE Tick
    BY <2>2, StillKeeps DEF Tick, Still, Logged, Waiting, Retried, Carrying, Carries
  <2>. QED
    BY <2>1, <2>2, WriteKeeps, DeliverKeeps, SlowKeeps DEF Next, Work
<1>3. \A m \in Message : Past(m) => Past(m)'
  BY PastStays
<1>4. ASSUME NEW c \in Conn, NEW m \in Message, Healthy(c)', Awaits(c, m) PROVE Healthy(c)
  <2>1. pc[Main(c)] # "idle"
    BY <1>4 DEF Inv, ReplayFirst, Awaits, Joining
  <2>. QED
    BY <1>4, <2>1, HealthyWas
<1>5. Ledger' /\ Kept' /\ \A e \in chat' : Past(e.msg)'
  BY <1>1, <1>2, <1>3, <1>4, LedgerStays DEF Inv, TypeOK
<1>6. Origins'
  BY <1>5, OriginNext DEF Inv, Origins
<1>7. ASSUME NEW e \in chat', NEW c \in e.settled
      PROVE  pc'[Main(c)] \notin Joining /\ Early(c, e.msg)'
  <2>1. /\ e \in chat /\ c \in Conn /\ e.msg \in Message
        /\ pc[Main(c)] \notin Joining /\ Early(c, e.msg)
    BY <1>1 DEF TypeOK, Inv, ReplayFirst
  <2>. QED
    BY <2>1, JoinedStays, EarlyStays
<1>8. ReplayFirst'
  BY <1>7, SlowKinds DEF Inv, ReplayFirst
<1>. QED
  BY <1>5, <1>6, <1>8 DEF Inv

LEMMA InvInit == Init => Inv
<1>. SUFFICES ASSUME Init PROVE Inv
  OBVIOUS
<1>1. ASSUME NEW c \in Conn, NEW m \in Message PROVE Held(c, m) = 0
  <2>1. /\ Logged(c, m) = {} /\ Waiting(c, m) = {} /\ Retried(c, m) = {} /\ Carrying(c, m) = {}
    BY DEF Init, NewView, Logged, Waiting, Retried, Carrying, Carries
  <2>. QED
    BY <2>1, TallyFacts DEF Held
<1>2. Ledger
  BY <1>1 DEF Ledger
<1>3. Origins /\ ReplayFirst
  BY DEF Init, Origins, Original, ReplayFirst, Nothing
<1>4. Kept
  BY DEF Init, Kept, Awaits
<1>. QED
  BY <1>2, <1>3, <1>4 DEF Inv

LEMMA Invariant == Spec => [](Safe /\ Inv)
<1>1. Safe /\ Inv /\ [Next]_vars => Inv'
  <2>1. ASSUME Safe, Inv, UNCHANGED vars PROVE Inv'
    <3>1. Ledger' /\ Kept'
      BY <2>1 DEF Inv, Ledger, Kept, Held, Logged, Waiting, Retried, Carrying, Carries, Past,
         Awaits, Addressed, Healthy
    <3>2. Origins' /\ ReplayFirst'
      BY <2>1 DEF Inv, Origins, Original, Past, ReplayFirst, Early, Logged, Waiting
    <3>. QED
      BY <3>1, <3>2 DEF Inv
  <2>. QED
    BY <2>1, InvStore, InvStep
<1>2. Spec => []Safe
  BY TypeCorrect, PanicFree, Private, PTL DEF Safe, SafeInv
<1>. QED
  BY <1>1, <1>2, InvInit, PTL DEF Spec

\* A message is never lost and never doubled for a healthy client that had settled
\* when it was stored: wherever deliver, deliverSlow and WritePump have brought it,
\* there is exactly one copy.
THEOREM NeitherLostNorDoubled == Spec => []Conserved
<1>1. Safe /\ Inv => Conserved
  <2>. SUFFICES ASSUME Safe, Inv, NEW e \in chat, NEW c \in e.settled, Healthy(c),
                       Addressed(c, e.msg)
                PROVE  Copies(c, e.msg) = 1
    BY DEF Conserved
  <2>. DEFINE m == e.msg
  <2>1. c \in Conn /\ m \in Message
    BY DEF Safe, SafeInv, TypeOK
  <2>2. Held(c, m) >= 1
    BY <2>1 DEF Inv, Kept, Awaits
  <2>3. \/ Logged(c, m) # {} \/ Waiting(c, m) # {} \/ Retried(c, m) # {} \/ Carrying(c, m) # {}
    BY <2>2, TallyFacts DEF Held
  <2>4. Copies(c, m) = Cardinality(Logged(c, m)) + Cardinality(Waiting(c, m))
                        + Cardinality(Retried(c, m)) + Cardinality(Carrying(c, m))
    BY DEF Copies, Logged, Waiting, Retried, Carrying, Carries
  <2>5. Cardinality({}) = 0 /\ \A x : Cardinality({x}) = 1
    BY FS_EmptySet, FS_Singleton
  <2>. HIDE DEF m
  <2>6. PICK x : \/ /\ Logged(c, m) = {x} /\ Waiting(c, m) = {}
                    /\ Retried(c, m) = {} /\ Carrying(c, m) = {}
                 \/ /\ Logged(c, m) = {} /\ Waiting(c, m) = {x}
                    /\ Retried(c, m) = {} /\ Carrying(c, m) = {}
                 \/ /\ Logged(c, m) = {} /\ Waiting(c, m) = {}
                    /\ Retried(c, m) = {x} /\ Carrying(c, m) = {}
                 \/ /\ Logged(c, m) = {} /\ Waiting(c, m) = {}
                    /\ Retried(c, m) = {} /\ Carrying(c, m) = {x}
    BY <2>1, <2>3, OneCopy DEF Inv
  <2>7. Copies(c, m) = 1
    <3>. DEFINE l == Cardinality(Logged(c, m))  w == Cardinality(Waiting(c, m))
                r == Cardinality(Retried(c, m))  k == Cardinality(Carrying(c, m))
    <3>1. \/ l = 1 /\ w = 0 /\ r = 0 /\ k = 0
          \/ l = 0 /\ w = 1 /\ r = 0 /\ k = 0
          \/ l = 0 /\ w = 0 /\ r = 1 /\ k = 0
          \/ l = 0 /\ w = 0 /\ r = 0 /\ k = 1
      BY ONLY <2>5, <2>6
    <3>. HIDE DEF l, w, r, k
    <3>2. l + w + r + k = 1
      BY <3>1
    <3>. QED
      BY <2>4, <3>2 DEF l, w, r, k
  <2>. QED
    BY <2>7 DEF m
<1>. QED
  BY <1>1, Invariant, PTL

---------------------------------------------------------------------------
(* The order of one sender's messages *)

Before(m, k) == m.from = k.from => m.n < k.n
Says(f) == f.kind = "message"

\* Along the way to c, screen, channel, delivery, each sender's numbers grow.
InLog(c)   == \A i, j \in DOMAIN view[c].log :
                 i < j => Before(view[c].log[i], view[c].log[j])
InQueue(c) == \A j \in DOMAIN queue[c] : Says(queue[c][j]) =>
                 /\ \A i \in DOMAIN view[c].log : Before(view[c].log[i], queue[c][j].msg)
                 /\ \A i \in DOMAIN queue[c] :
                       i < j /\ Says(queue[c][i]) => Before(queue[c][i].msg, queue[c][j].msg)
Newest(c, m) == /\ \A i \in DOMAIN view[c].log : Before(view[c].log[i], m)
                /\ \A i \in DOMAIN queue[c] : Says(queue[c][i]) => Before(queue[c][i].msg, m)
Ahead(c)   == \A t \in Task, m \in Message : Carries(t, c, m) => Newest(c, m)

Ordered(c) == InLog(c) /\ InQueue(c) /\ Ahead(c)

LEMMA OrderStays ==
    ASSUME NEW c \in Conn, Ordered(c), view'[c] = view[c], queue'[c] = queue[c],
           \A t \in Task, m \in Message : Carries(t, c, m)' => Carries(t, c, m)
    PROVE  Ordered(c)'
BY DEF Ordered, InLog, InQueue, Ahead, Newest

\* Frames go to the end of the channel, messages in the turn of their delivery.
LEMMA OrderAppend ==
    ASSUME Safe, Inv, NEW c \in Conn, Ordered(c), view'[c] = view[c],
           NEW f \in Frame, queue'[c] = Append(queue[c], f),
           Says(f) => \E t \in Task : /\ Carries(t, c, f.msg)
                                      /\ \A m \in Message : ~Carries(t, c, m)',
           \A t \in Task, m \in Message : Carries(t, c, m)' => Carries(t, c, m)
    PROVE  Ordered(c)'
<1>. DEFINE n == Len(queue[c])
<1>1. queue[c] \in Seq(Frame)
  BY DEF Safe, SafeInv, TypeOK
<1>2. /\ n \in Nat /\ DOMAIN queue[c] = 1..n /\ DOMAIN queue'[c] = 1..n + 1
      /\ queue'[c][n + 1] = f
      /\ \A i \in 1..n : queue'[c][i] = queue[c][i]
  BY <1>1, AppendProperties
<1>. HIDE DEF n
<1>3. Says(f) => Newest(c, f.msg)
  BY FrameFacts DEF Ordered, Ahead, Says
<1>4. InLog(c)'
  BY DEF Ordered, InLog
<1>5. InQueue(c)'
  <2>. SUFFICES ASSUME NEW j \in DOMAIN queue'[c], Says(queue'[c][j])
                PROVE  /\ \A i \in DOMAIN view[c].log : Before(view[c].log[i], queue'[c][j].msg)
                       /\ \A i \in DOMAIN queue'[c] : i < j /\ Says(queue'[c][i])
                             => Before(queue'[c][i].msg, queue'[c][j].msg)
    BY DEF InQueue, Says, Before
  <2>1. CASE j \in 1..n
    <3>1. queue'[c][j] = queue[c][j] /\ j \in DOMAIN queue[c]
      BY <1>2, <2>1
    <3>2. \A i \in DOMAIN queue'[c] : i < j => i \in DOMAIN queue[c] /\ queue'[c][i] = queue[c][i]
      BY <1>2, <2>1
    <3>. QED
      BY <3>1, <3>2 DEF Ordered, InQueue
  <2>2. CASE j = n + 1
    <3>1. \A i \in DOMAIN queue'[c] : i < j => i \in DOMAIN queue[c] /\ queue'[c][i] = queue[c][i]
      BY <1>2, <2>2
    <3>2. queue'[c][j] = f /\ queue'[c][j].msg = f.msg /\ Newest(c, f.msg)
      BY <1>2, <1>3, <2>2
    <3>3. \A i \in DOMAIN view[c].log : Before(view[c].log[i], queue'[c][j].msg)
      BY <3>2 DEF Newest
    <3>4. \A i \in DOMAIN queue[c] : Says(queue[c][i]) => Before(queue[c][i].msg, queue'[c][j].msg)
      BY <3>2 DEF Newest
    <3>5. \A i \in DOMAIN queue'[c] : i < j /\ Says(queue'[c][i])
             => Before(queue'[c][i].msg, queue'[c][j].msg)
      BY <3>1, <3>4
    <3>. QED
      BY <3>3, <3>5
  <2>3. j \in 1..n \/ j = n + 1
    BY <1>2
  <2>. QED
    BY <2>1, <2>2, <2>3
<1>6. Ahead(c)'
  <2>. SUFFICES ASSUME NEW t \in Task, NEW m \in Message, Carries(t, c, m)'
                PROVE  Newest(c, m)'
    BY DEF Ahead
  <2>1. Carries(t, c, m) /\ Newest(c, m)
    BY DEF Ordered, Ahead
  <2>2. Says(f) => Before(f.msg, m)
    <3>1. ASSUME Says(f) PROVE Before(f.msg, m)
      <4>1. PICK u \in Task : Carries(u, c, f.msg) /\ \A k \in Message : ~Carries(u, c, k)'
        BY <3>1
      <4>2. u # t /\ u = Main(f.msg.from) /\ t = Main(m.from)
        BY <2>1, <4>1, OneCarrier DEF Inv
      <4>. QED
        BY <4>2 DEF Before
    <3>. QED
      BY <3>1
  <2>3. \A i \in DOMAIN queue'[c] : Says(queue'[c][i]) => Before(queue'[c][i].msg, m)
    BY <1>2, <2>1, <2>2 DEF Newest
  <2>. QED
    BY <2>1, <2>3 DEF Newest
<1>. QED
  BY <1>4, <1>5, <1>6 DEF Ordered

\* A message goes from the head of the channel to the end of the log.
LEMMA OrderTail ==
    ASSUME Safe, Inv, NEW c \in Conn, Ordered(c), WriteFrame(c) \/ WriteLost(c)
    PROVE  Ordered(c)'
<1>. USE DEF Safe, SafeInv
<1>. DEFINE g == queue[c][1]  log == view[c].log
<1>1. /\ queue[c] # <<>> /\ queue' = [queue EXCEPT ![c] = Tail(@)]
      /\ UNCHANGED <<pc, body, todo>>
  BY DEF WriteFrame, WriteLost
<1>2. /\ 1 \in DOMAIN queue[c] /\ g \in Frame
      /\ \A i \in DOMAIN queue'[c] : /\ i \in Nat /\ i + 1 \in DOMAIN queue[c]
                                     /\ queue'[c][i] = queue[c][i + 1]
  BY <1>1, TailFacts
<1>3. \A t \in Task, m \in Message : Carries(t, c, m)' => Carries(t, c, m)
  BY <1>1 DEF Carries
<1>4. \A i \in DOMAIN queue'[c] : 1 < i + 1
  <2>1. queue'[c] \in Seq(Frame)
    BY <1>1, HeadTailProperties DEF TypeOK
  <2>2. \A i \in DOMAIN queue'[c] : i \in Nat /\ i # 0
    BY <2>1
  <2>. QED
    BY <2>2
<1>5. log \in Seq(Message)
  BY DEF TypeOK, View
<1>6. \/ view'[c].log = log
      \/ view'[c].log = <<>>
      \/ Says(g) /\ view'[c].log = Append(log, g.msg) /\ g.msg \in Message
  <2>1. CASE WriteLost(c)
    BY <2>1 DEF WriteLost
  <2>2. CASE WriteFrame(c)
    <3>1. view'[c] = Received(view[c], g) /\ view[c] \in View
      BY <1>1, <2>2, TailFacts DEF WriteFrame, TypeOK
    <3>. HIDE DEF g
    <3>2. CASE g.kind = "welcome"
      BY <3>1, <3>2 DEF Received
    <3>3. CASE g.kind = "history"
      BY <3>1, <3>3 DEF Received, View
    <3>4. CASE g.kind = "presence"
      <4>1. view'[c] = [view[c] EXCEPT !.users = g.users, !.rosters = @ \cup {g.users}]
        BY <3>1, <3>4 DEF Received
      <4>. QED
        BY <3>1, <4>1 DEF View
    <3>5. CASE g.kind = "message"
      BY <1>2, <3>1, <3>5, FrameFacts DEF Received, View, Says
    <3>. QED
      BY <1>2, <3>2, <3>3, <3>4, <3>5, FrameFacts
  <2>. QED
    BY <2>1, <2>2
<1>7. \A i \in DOMAIN view'[c].log :
         \/ i \in DOMAIN log /\ view'[c].log[i] = log[i]
         \/ Says(g) /\ view'[c].log[i] = g.msg /\ \A k \in DOMAIN view'[c].log : k <= i
  <2>. HIDE DEF log, g
  <2>1. CASE view'[c].log = log \/ view'[c].log = <<>>
    BY <2>1
  <2>2. CASE Says(g) /\ view'[c].log = Append(log, g.msg) /\ g.msg \in Message
    <3>1. /\ DOMAIN log = 1..Len(log) /\ Len(log) \in Nat
          /\ DOMAIN Append(log, g.msg) = 1..Len(log) + 1
          /\ Append(log, g.msg)[Len(log) + 1] = g.msg
          /\ \A i \in 1..Len(log) : Append(log, g.msg)[i] = log[i]
      BY <1>5, <2>2, AppendProperties
    <3>. QED
      BY <2>2, <3>1
  <2>. QED
    BY <1>6, <2>1, <2>2
<1>8. \A i \in DOMAIN view'[c].log : i \in Nat
  <2>1. view'[c].log \in Seq(Message)
    <3>1. <<>> \in Seq(Message)
      OBVIOUS
    <3>2. Says(g) /\ g.msg \in Message => Append(log, g.msg) \in Seq(Message)
      BY <1>5, AppendProperties
    <3>. HIDE DEF log, g
    <3>. QED
      BY <1>5, <1>6, <3>1, <3>2
  <2>. QED
    BY <2>1
<1>9. \A j \in DOMAIN queue[c] : 1 < j /\ Says(g) /\ Says(queue[c][j]) => Before(g.msg, queue[c][j].msg)
  BY <1>2 DEF Ordered, InQueue
<1>10. InLog(c)'
  <2>. SUFFICES ASSUME NEW i \in DOMAIN view'[c].log, NEW j \in DOMAIN view'[c].log, i < j
                PROVE  Before(view'[c].log[i], view'[c].log[j])
    BY DEF InLog, Before
  <2>1. i \in DOMAIN log /\ view'[c].log[i] = log[i]
    BY <1>7, <1>8
  <2>2. CASE j \in DOMAIN log /\ view'[c].log[j] = log[j]
    BY <2>1, <2>2 DEF Ordered, InLog
  <2>3. CASE Says(g) /\ view'[c].log[j] = g.msg
    BY <1>2, <2>1, <2>3 DEF Ordered, InQueue
  <2>. QED
    BY <1>7, <2>2, <2>3
<1>11. InQueue(c)'
  <2>. SUFFICES ASSUME NEW j \in DOMAIN queue'[c], Says(queue'[c][j])
                PROVE  /\ \A i \in DOMAIN view'[c].log : Before(view'[c].log[i], queue'[c][j].msg)
                       /\ \A i \in DOMAIN queue'[c] : i < j /\ Says(queue'[c][i])
                             => Before(queue'[c][i].msg, queue'[c][j].msg)
    BY DEF InQueue, Says, Before
  <2>1. j \in Nat /\ j + 1 \in DOMAIN queue[c] /\ queue'[c][j] = queue[c][j + 1] /\ 1 < j + 1
    BY <1>2, <1>4
  <2>2. \A i \in DOMAIN view'[c].log : Before(view'[c].log[i], queue'[c][j].msg)
    BY <1>7, <1>9, <2>1 DEF Ordered, InQueue
  <2>3. \A i \in DOMAIN queue'[c] : i < j => i + 1 < j + 1
    BY <1>2, <2>1
  <2>4. \A i \in DOMAIN queue'[c] : i < j /\ Says(queue'[c][i])
           => Before(queue'[c][i].msg, queue'[c][j].msg)
    BY <1>2, <2>1, <2>3 DEF Ordered, InQueue
  <2>. QED
    BY <2>2, <2>4
<1>12. Ahead(c)'
  <2>. SUFFICES ASSUME NEW t \in Task, NEW m \in Message, Carries(t, c, m)'
                PROVE  /\ \A i \in DOMAIN view'[c].log : Before(view'[c].log[i], m)
                       /\ \A i \in DOMAIN queue'[c] :
                             Says(queue'[c][i]) => Before(queue'[c][i].msg, m)
    BY DEF Ahead, Newest, Says, Before
  <2>1. Newest(c, m)
    BY <1>3 DEF Ordered, Ahead
  <2>. QED
    BY <1>2, <1>7, <2>1 DEF Newest
<1>. QED
  BY <1>10, <1>11, <1>12 DEF Ordered

LEMMA OrderStep ==
    ASSUME Safe, Inv, Next, slow = {}, slow' = {}, NEW c \in Conn, Ordered(c)
    PROVE  Ordered(c)'
<1>. USE TaskFacts DEF Safe, SafeInv
<1>1. ASSUME NEW d \in Conn, EnvStep(d) \/ ConnStep(d), ~Store(d) PROVE Ordered(c)'
  <2>1. view' = view
    BY <1>1, ConnQuiet
  <2>2. \A t \in Task, m \in Message : Carries(t, c, m)' => Carries(t, c, m)
    BY <1>1, ConnStill DEF Inv, Still, Carrying
  <2>3. \/ queue'[c] = queue[c]
        \/ queue'[c] = Append(queue[c], WelcomeFrame)
        \/ queue'[c] = Append(queue[c], body[Main(d)]) /\ pc[Main(d)] = "history"
    <3>1. CASE SendWelcome(d)
      <4>1. queue' = queue \/ queue' = [queue EXCEPT ![d] = Append(@, WelcomeFrame)]
        BY <3>1 DEF SendWelcome, EnqueueJSON, Send
      <4>2. CASE queue' = queue
        BY <4>2
      <4>3. CASE queue' = [queue EXCEPT ![d] = Append(@, WelcomeFrame)]
        BY <4>3 DEF TypeOK
      <4>. QED
        BY <4>1, <4>2, <4>3
    <3>2. CASE SendHistory(d)
      <4>1. /\ pc[Main(d)] = "history"
            /\ \/ queue' = queue
               \/ queue' = [queue EXCEPT ![d] = Append(@, body[Main(d)])]
        BY <3>2 DEF SendHistory, EnqueueJSON, Send
      <4>2. CASE queue' = queue
        BY <4>2
      <4>3. CASE queue' = [queue EXCEPT ![d] = Append(@, body[Main(d)])]
        BY <4>1, <4>3 DEF TypeOK
      <4>. QED
        BY <4>1, <4>2, <4>3
    <3>3. CASE ~SendWelcome(d) /\ ~SendHistory(d)
      <4>1. queue' = queue
        <5>1. CASE EnvStep(d)
          BY <5>1 DEF EnvStep, Register, ReadMessage, ProtocolError, LinkDown
        <5>2. CASE ConnStep(d)
          BY <1>1, <3>3, <5>2 DEF ConnStep, RegisterStep, ReadCutoff, Snapshot, ReadFails,
                                  ReadPumpExit
        <5>. QED
          BY <1>1, <5>1, <5>2
      <4>. QED
        BY <4>1
    <3>. QED
      BY <3>1, <3>2, <3>3
  <2>4. WelcomeFrame \in Frame /\ ~Says(WelcomeFrame)
    BY FrameFacts DEF WelcomeFrame, Says
  <2>5. pc[Main(d)] = "history" => body[Main(d)] \in Frame /\ ~Says(body[Main(d)])
    BY DEF Inv, Origins, Original, TypeOK, Says
  <2>. QED
    BY <2>1, <2>2, <2>3, <2>4, <2>5, OrderStays, OrderAppend
<1>2. ASSUME NEW d \in Conn, Store(d) PROVE Ordered(c)'
  <2>1. /\ UNCHANGED <<view, queue, body, todo, sent>> /\ pc[Main(d)] = "store"
        /\ pc' = [pc EXCEPT ![Main(d)] = "deliver"]
    BY <1>2 DEF Store, Goto
  <2>2. /\ body[Main(d)].kind = "message" /\ body[Main(d)].msg.from = d
        /\ body[Main(d)].msg.n + 1 = sent[d]
    <3>1. body[Main(d)].kind = "message"
      BY <2>1 DEF TypeOK
    <3>2. Main(d) = Main(body[Main(d)].msg.from)
      BY <3>1 DEF Inv, Origins, Original
    <3>3. body[Main(d)].msg.from = d
      BY <3>2 DEF Main
    <3>. QED
      BY <2>1, <3>1, <3>3 DEF Inv, Origins, Original
  <2>3. ASSUME NEW m \in Message, Held(c, m) # 0, m.from = d PROVE m.n + 1 < sent[d]
    <3>1. Past(m)
      BY <2>3, HeldFacts DEF Inv, Ledger
    <3>. QED
      BY <2>1, <2>3, <3>1 DEF Past
  <2>4. \A i \in DOMAIN view[c].log : view[c].log[i] \in Message /\ Held(c, view[c].log[i]) # 0
    <3>1. view[c].log \in Seq(Message)
      BY DEF TypeOK, View
    <3>2. \A i \in DOMAIN view[c].log : view[c].log[i] \in Message
      BY <3>1
    <3>. QED
      BY <3>2, HeldFacts DEF Logged
  <2>5. \A i \in DOMAIN queue[c] : Says(queue[c][i])
           => queue[c][i].msg \in Message /\ Held(c, queue[c][i].msg) # 0
    <3>. SUFFICES ASSUME NEW i \in DOMAIN queue[c], Says(queue[c][i])
                  PROVE  queue[c][i].msg \in Message /\ Held(c, queue[c][i].msg) # 0
      OBVIOUS
    <3>. DEFINE f == queue[c][i]
    <3>1. queue[c] \in Seq(Frame)
      BY DEF TypeOK
    <3>2. f \in Frame
      BY <3>1
    <3>3. f \in [kind: {"message"}, msg: Message]
      BY <3>2 DEF Frame, WelcomeFrame, Says
    <3>4. f = MessageFrame(f.msg) /\ f.msg \in Message
      BY <3>3 DEF MessageFrame
    <3>5. i \in Waiting(c, f.msg)
      BY <3>4 DEF Waiting
    <3>. QED
      BY <3>4, <3>5, HeldFacts
  <2>6. \A m \in Message : m.n \in Nat
    BY DEF Message
  <2>7. Newest(c, body[Main(d)].msg)
    <3>1. body[Main(d)].msg.n \in Nat
      <4>1. body[Main(d)] \in Frame
        BY <2>1 DEF TypeOK
      <4>. QED
        BY <2>2, <2>6, <4>1, FrameFacts
    <3>2. \A m \in Message : Held(c, m) # 0 => Before(m, body[Main(d)].msg)
      BY <2>2, <2>3, <2>6, <3>1 DEF Before
    <3>. QED
      BY <2>4, <2>5, <3>2 DEF Newest
  <2>8. \A t \in Task, m \in Message :
           Carries(t, c, m)' => Carries(t, c, m) \/ m = body[Main(d)].msg
    <3>. SUFFICES ASSUME NEW t \in Task, NEW m \in Message, Carries(t, c, m)'
                  PROVE  Carries(t, c, m) \/ m = body[Main(d)].msg
      OBVIOUS
    <3>1. CASE t = Main(d)
      BY <2>1, <3>1 DEF Carries, MessageFrame
    <3>2. CASE t # Main(d)
      BY <2>1, <3>2 DEF Carries, TypeOK
    <3>. QED
      BY <3>1, <3>2
  <2>9. InLog(c)' /\ InQueue(c)'
    BY <2>1 DEF Ordered, InLog, InQueue
  <2>10. Ahead(c)'
    <3>1. \A m : Newest(c, m) => Newest(c, m)'
      BY <2>1 DEF Newest
    <3>. QED
      BY <2>7, <2>8, <3>1 DEF Ordered, Ahead
  <2>. QED
    BY <2>9, <2>10 DEF Ordered
<1>3. ASSUME NEW d \in Conn, WriteStep(d) PROVE Ordered(c)'
  <2>1. CASE c = d /\ (WriteFrame(d) \/ WriteLost(d))
    BY <2>1, OrderTail
  <2>2. CASE ~(c = d /\ (WriteFrame(d) \/ WriteLost(d)))
    <3>1. view'[c] = view[c] /\ queue'[c] = queue[c] /\ UNCHANGED <<pc, body, todo>>
      BY <1>3, <2>2 DEF WriteStep, WriteFrame, WriteLost, WriteFails, WriteClose, WriterEnds,
                        TypeOK
    <3>. QED
      BY <3>1, OrderStays DEF Carries
  <2>. QED
    BY <2>1, <2>2
<1>4. ASSUME NEW t \in Task, DeliverStep(t) PROVE Ordered(c)'
  <2>1. view' = view
    BY <1>4 DEF DeliverStep, ListDevices, BeginDeliver, DeliverTo, EndDeliver
  <2>2. \A u \in Task, m \in Message : Carries(u, c, m)' => Carries(u, c, m)
    <3>. SUFFICES ASSUME NEW u \in Task, NEW m \in Message, Carries(u, c, m)'
                  PROVE  Carries(u, c, m)
      OBVIOUS
    <3>1. CASE u # t
      <4>1. pc'[u] = pc[u] /\ body'[u] = body[u] /\ todo'[u] = todo[u]
        BY <1>4, <3>1, DeliverOwn
      <4>. QED
        BY <4>1 DEF Carries
    <3>2. CASE u = t /\ ListDevices(t)
      <4>1. body'[t].kind = "presence"
        BY <3>2 DEF ListDevices, Hold, PresenceFrame, TypeOK
      <4>. QED
        BY <3>2, <4>1 DEF Carries, MessageFrame
    <3>4. CASE u = t /\ EndDeliver(t)
      <4>1. pc'[t] \in {"read", "done"}
        BY <3>4 DEF EndDeliver, Goto, TypeOK
      <4>. QED
        BY <3>4, <4>1 DEF Carries
    <3>3. CASE u = t /\ (BeginDeliver(t) \/ \E d \in todo[t] : DeliverTo(t, d))
      BY <3>3 DEF BeginDeliver, DeliverTo, Goto, Carries, TypeOK
    <3>. QED
      BY <1>4, <3>1, <3>2, <3>3, <3>4 DEF DeliverStep
  <2>3. CASE queue'[c] = queue[c]
    BY <2>1, <2>2, <2>3, OrderStays
  <2>4. CASE queue'[c] # queue[c]
    <3>1. PICK d \in todo[t] : DeliverTo(t, d)
      BY <1>4, <2>4 DEF DeliverStep, ListDevices, BeginDeliver, EndDeliver
    <3>2. /\ c = d /\ queue'[c] = Append(queue[c], body[t]) /\ pc[t] = "delivering"
          /\ body[t] \in Frame /\ UNCHANGED body /\ todo'[t] = todo[t] \ {c} /\ UNCHANGED pc
      <4>1. /\ pc[t] = "delivering" /\ todo' = [todo EXCEPT ![t] = @ \ {d}]
            /\ UNCHANGED <<body, pc>>
        BY <3>1 DEF DeliverTo
      <4>2. queue' = queue \/ queue' = [queue EXCEPT ![d] = Append(@, body[t])]
        BY <3>1 DEF DeliverTo, Send
      <4>3. queue' = [queue EXCEPT ![d] = Append(@, body[t])]
        BY <2>4, <4>2
      <4>5. c = d
        BY <2>4, <4>3 DEF TypeOK
      <4>6. queue'[c] = Append(queue[c], body[t])
        BY <4>3, <4>5 DEF TypeOK
      <4>4. body[t] \in Frame /\ todo'[t] = todo[t] \ {d}
        BY <4>1 DEF TypeOK
      <4>. QED
        BY <4>1, <4>4, <4>5, <4>6
    <3>3. Says(body[t]) => Carries(t, c, body[t].msg)
      <4>1. ASSUME Says(body[t]) PROVE body[t] = MessageFrame(body[t].msg)
        <5>1. body[t] \in [kind: {"message"}, msg: Message]
          BY <3>2, <4>1 DEF Frame, WelcomeFrame, Says
        <5>. QED
          BY <5>1 DEF MessageFrame
      <4>. QED
        BY <3>1, <3>2, <4>1 DEF Carries
    <3>4. \A m \in Message : ~Carries(t, c, m)'
      BY <3>2 DEF Carries
    <3>. QED
      BY <2>1, <2>2, <3>2, <3>3, <3>4, OrderAppend
  <2>. QED
    BY <2>3, <2>4
<1>5. CASE Tick
  BY <1>5, OrderStays DEF Tick, Carries
<1>. QED
  BY <1>1, <1>2, <1>3, <1>4, <1>5 DEF Next, Work

\* A client's screen lists the messages of one sender in the order they were sent, in
\* every behaviour in which no delivery meets a full channel (no deliverSlow starts).
THEOREM OrderKept == Spec /\ [](slow = {}) => []SenderOrder
<1>. DEFINE O == \A c \in Conn : Ordered(c)
<1>1. Init => O
  BY DEF Init, NewView, Ordered, InLog, InQueue, Ahead, Carries
<1>2. (Safe /\ Inv) /\ O /\ slow = {} /\ (slow = {})' /\ [Next]_vars => O'
  <2>. SUFFICES ASSUME Safe, Inv, O, slow = {}, slow' = {}, [Next]_vars, NEW c \in Conn
                PROVE  Ordered(c)'
    OBVIOUS
  <2>1. CASE UNCHANGED vars
    BY <2>1, OrderStays DEF Carries
  <2>. QED
    BY <2>1, OrderStep
<1>3. O => SenderOrder
  BY DEF SenderOrder, Ordered, InLog, Before
<1>. HIDE DEF O
<1>. QED
  BY <1>1, <1>2, <1>3, Invariant, PTL DEF Spec

---------------------------------------------------------------------------
(* The history a late joiner is sent *)

\* The places of history frames in the channel of c.
Replays(c) == {i \in DOMAIN queue[c] : queue[c][i].kind = "history"}

\* c is sent at most one history frame, and none before it has settled.
Single(c) == /\ pc[Main(c)] \in Joining => Replays(c) = {}
             /\ \A i, j \in Replays(c) : i = j
             /\ pc[Main(c)] = "snapshot" => body[Main(c)].at \in Nat /\ body[Main(c)].at <= now

\* c has m among what was replayed to it, or is going to.
Finds(c, m) ==
    \/ pc[Main(c)] \in Joining \ {"history"}
    \/ pc[Main(c)] = "history" /\ m \in body[Main(c)].msgs
    \/ /\ pc[Main(c)] \notin Joining
       /\ \/ \E i \in Replays(c) : m \in queue[c][i].msgs
          \/ Replays(c) = {} /\ m \in view[c].replayed

Retained == \A e \in chat : Fresh(e.msg, now) => e.msg \in history

\* c came after e was stored, and is to see it while it is kept.
Missed(c, e) == /\ Healthy(c) /\ c \notin e.present
                /\ Addressed(c, e.msg) /\ Fresh(e.msg, now)

Replayed == /\ Retained
            /\ \A c \in Conn : Single(c)
            /\ \A c \in Conn, e \in chat : Missed(c, e) => Finds(c, e.msg)

\* No history frame meets a full channel (enqueueJSON would drop it).
RoomForHistory == \A c \in Conn : pc[Main(c)] = "history" => ~Full(c)

LEMMA ReplayAppend ==
    ASSUME TypeOK, NEW c \in Conn, NEW f \in Frame, queue'[c] = Append(queue[c], f)
    PROVE  /\ \A i \in Replays(c) : i \in Replays(c)' /\ queue'[c][i] = queue[c][i]
           /\ f.kind # "history" => Replays(c)' = Replays(c)
           /\ f.kind = "history" => /\ Replays(c)' = Replays(c) \cup {Len(queue[c]) + 1}
                                    /\ queue'[c][Len(queue[c]) + 1] = f
<1>. DEFINE n == Len(queue[c])
<1>1. queue[c] \in Seq(Frame)
  BY DEF TypeOK
<1>2. /\ n \in Nat /\ DOMAIN queue[c] = 1..n /\ DOMAIN queue'[c] = 1..n + 1
      /\ queue'[c][n + 1] = f
      /\ \A i \in 1..n : queue'[c][i] = queue[c][i]
  BY <1>1, AppendProperties
<1>. HIDE DEF n
<1>3. \A i : i \in 1..n + 1 <=> i \in 1..n \/ i = n + 1
  BY <1>2
<1>4. \A i \in 1..n : i # n + 1
  BY <1>2
<1>5. \A i : i \in Replays(c)' <=> i \in Replays(c) \/ (i = n + 1 /\ f.kind = "history")
  BY <1>2, <1>3, <1>4 DEF Replays
<1>. QED
  BY <1>2, <1>5 DEF Replays, n

LEMMA ReplayTail ==
    ASSUME TypeOK, NEW c \in Conn, queue[c] # <<>>, queue' = [queue EXCEPT ![c] = Tail(@)]
    PROVE  /\ \A i \in Replays(c)' : /\ i \in Nat /\ i + 1 \in Replays(c) /\ i + 1 # 1
                                     /\ queue'[c][i] = queue[c][i + 1]
           /\ \A i \in Replays(c) \ {1} : /\ i - 1 \in Replays(c)'
                                          /\ queue'[c][i - 1] = queue[c][i]
<1>1. queue'[c] \in Seq(Frame)
  BY HeadTailProperties DEF TypeOK
<1>2. \A i \in DOMAIN queue'[c] : i \in Nat /\ i + 1 # 1
  BY <1>1
<1>. QED
  BY <1>2, TailFacts DEF Replays

\* What a step does to the channel of c and to what was replayed to c.
LEMMA ChannelStep ==
    ASSUME Safe, ReplayFirst, Next, NEW c \in Conn
    PROVE  \/ queue'[c] = queue[c] /\ view'[c] = view[c]
           \/ /\ view'[c] = view[c]
              /\ \E f \in Frame : f.kind # "history" /\ queue'[c] = Append(queue[c], f)
           \/ SendHistory(c)
           \/ WriteFrame(c) \/ WriteLost(c)
<1>. USE TaskFacts DEF Safe, SafeInv
<1>. DEFINE Goal == \/ queue'[c] = queue[c] /\ view'[c] = view[c]
                    \/ /\ view'[c] = view[c]
                       /\ \E f \in Frame : f.kind # "history" /\ queue'[c] = Append(queue[c], f)
                    \/ SendHistory(c)
                    \/ WriteFrame(c) \/ WriteLost(c)
<1>1. ASSUME NEW d \in Conn, NEW f \in Frame, Send(d, f), f.kind # "history", view' = view
      PROVE  Goal
  <2>1. queue'[c] = queue[c] \/ queue'[c] = Append(queue[c], f)
    BY <1>1 DEF Send, TypeOK
  <2>. QED
    BY <1>1, <2>1
<1>2. ASSUME NEW d \in Conn, EnvStep(d) \/ ConnStep(d) PROVE Goal
  <2>1. CASE SendWelcome(d)
    <3>1. WelcomeFrame \in Frame /\ WelcomeFrame.kind # "history"
      BY FrameFacts DEF WelcomeFrame
    <3>. HIDE DEF Goal
    <3>2. view' = view /\ (queue' = queue \/ Send(d, WelcomeFrame))
      BY <2>1 DEF SendWelcome, EnqueueJSON
    <3>3. CASE queue' = queue
      BY <3>2, <3>3 DEF Goal
    <3>. QED
      BY <1>1, <3>1, <3>2, <3>3
  <2>2. CASE SendHistory(d)
    <3>1. d # c => queue'[c] = queue[c] /\ view'[c] = view[c]
      BY <2>2 DEF SendHistory, EnqueueJSON, Send, TypeOK
    <3>. QED
      BY <2>2, <3>1
  <2>3. CASE ~SendWelcome(d) /\ ~SendHistory(d)
    BY <1>2, <2>3 DEF EnvStep, ConnStep, Register, RegisterStep, ReadCutoff, Snapshot,
       ReadMessage, Store, ReadFails, ProtocolError, LinkDown, ReadPumpExit
  <2>. QED
    BY <2>1, <2>2, <2>3
<1>3. ASSUME NEW d \in Conn, WriteStep(d) PROVE Goal
  <2>1. CASE WriteFrame(d) \/ WriteLost(d)
    BY <2>1 DEF WriteFrame, WriteLost, TypeOK
  <2>2. CASE WriteFails(d) \/ WriteClose(d)
    BY <2>2 DEF WriteFails, WriteClose, WriterEnds
  <2>. QED
    BY <1>3, <2>1, <2>2 DEF WriteStep
<1>4. ASSUME NEW t \in Task, DeliverStep(t) PROVE Goal
  <2>. HIDE DEF Goal
  <2>1. CASE UNCHANGED <<queue, view>>
    BY <2>1 DEF Goal
  <2>2. ASSUME NEW d \in todo[t], DeliverTo(t, d) PROVE Goal
    <3>1. d \in Conn /\ body[t] \in Frame /\ body[t].kind # "history" /\ view' = view
      BY <2>2 DEF DeliverTo, PrivacyInv, TypeOK
    <3>2. queue' = queue \/ Send(d, body[t])
      BY <2>2 DEF DeliverTo
    <3>. QED
      BY <1>1, <2>1, <3>1, <3>2
  <2>. QED
    BY <1>4, <2>1, <2>2 DEF DeliverStep, ListDevices, BeginDeliver, EndDeliver
<1>5. ASSUME NEW s \in slow, SlowStep(s) PROVE Goal
  <2>. HIDE DEF Goal
  <2>1. s.conn \in Conn /\ s.frame \in Frame /\ s.frame.kind # "history"
    BY DEF TypeOK, ReplayFirst
  <2>2. view' = view /\ (queue' = queue \/ Send(s.conn, s.frame))
    BY <1>5 DEF SlowStep, Retry, Expire, StillThere, Disconnect
  <2>3. CASE queue' = queue
    BY <2>2, <2>3 DEF Goal
  <2>. QED
    BY <1>1, <2>1, <2>2, <2>3
<1>6. CASE Tick
  BY <1>6 DEF Tick
<1>. QED
  BY <1>2, <1>3, <1>4, <1>5, <1>6 DEF Next, Work

\* What a step does to the handler of a connection that is joining.
LEMMA JoinStep ==
    ASSUME Safe, Next, NEW c \in Conn, pc[Main(c)] \in Joining
    PROVE  \/ pc'[Main(c)] = pc[Main(c)] /\ body'[Main(c)] = body[Main(c)]
           \/ pc'[Main(c)] \in {"welcome", "cutoff"}
           \/ ReadCutoff(c) \/ Snapshot(c) \/ SendHistory(c)
<1>. USE TaskFacts DEF Safe, SafeInv
<1>. DEFINE Goal == \/ pc'[Main(c)] = pc[Main(c)] /\ body'[Main(c)] = body[Main(c)]
                    \/ pc'[Main(c)] \in {"welcome", "cutoff"}
                    \/ ReadCutoff(c) \/ Snapshot(c) \/ SendHistory(c)
<1>1. \A e \in Conn : Leave(e) # Main(c) /\ (Main(e) = Main(c) => e = c)
  BY DEF Leave, Main
<1>2. ASSUME NEW d \in Conn, EnvStep(d) \/ ConnStep(d) PROVE Goal
  <2>1. CASE d = c
    BY <1>2, <2>1 DEF EnvStep, ConnStep, Register, RegisterStep, SendWelcome, ReadMessage,
       Store, ReadFails, ProtocolError, LinkDown, ReadPumpExit, Goto, TypeOK, Joining
  <2>2. CASE d # c
    <3>1. Main(d) # Main(c)
      BY <1>1, <2>2
    <3>. QED
      BY <1>1, <1>2, <3>1 DEF EnvStep, ConnStep, Register, RegisterStep, SendWelcome,
         ReadCutoff, Snapshot, SendHistory, ReadMessage, Store, ReadFails, ProtocolError,
         LinkDown, ReadPumpExit, AfterRemove, Goto, Hold, TypeOK
  <2>. QED
    BY <2>1, <2>2
<1>3. ASSUME NEW d \in Conn, WriteStep(d) PROVE Goal
  BY <1>3 DEF WriteStep, WriteFrame, WriteLost, WriteFails, WriteClose, WriterEnds
<1>4. ASSUME NEW t \in Task, DeliverStep(t) PROVE Goal
  <2>1. pc[t] \notin Joining
    BY <1>4 DEF DeliverStep, ListDevices, BeginDeliver, DeliverTo, EndDeliver, Joining
  <2>2. t # Main(c)
    BY <2>1
  <2>. QED
    BY <1>4, <2>2 DEF DeliverStep, ListDevices, BeginDeliver, DeliverTo, EndDeliver, Goto, Hold,
                      TypeOK
<1>5. ASSUME NEW s \in slow, SlowStep(s) PROVE Goal
  <2>1. s.conn \in Conn /\ body' = body /\ (pc' = pc \/ pc' = AfterRemove(s.conn, pc))
    BY <1>5 DEF SlowStep, Retry, Expire, StillThere, Disconnect, TypeOK
  <2>. QED
    BY <1>1, <2>1 DEF AfterRemove, TypeOK
<1>6. CASE Tick
  BY <1>6 DEF Tick
<1>. QED
  BY <1>2, <1>3, <1>4, <1>5, <1>6 DEF Next, Work

LEMMA SingleStep ==
    ASSUME Safe, Inv, Next, NEW c \in Conn, Single(c)
    PROVE  Single(c)'
<1>. USE TaskFacts DEF Safe, SafeInv
<1>1. now \in Nat /\ now' \in Nat /\ now <= now'
  <2>1. now' = now \/ now' = now + 1
    BY DEF Next, Work, EnvStep, ConnStep, Register, RegisterStep, SendWelcome, ReadCutoff,
       Snapshot, SendHistory, ReadMessage, Store, ReadFails, ProtocolError, LinkDown,
       ReadPumpExit, WriteStep, WriteFrame, WriteLost, WriteFails, WriteClose, WriterEnds,
       DeliverStep, ListDevices, BeginDeliver, DeliverTo, EndDeliver, SlowStep, Retry,
       Expire, StillThere, Disconnect, Tick
  <2>2. now \in Nat
    BY DEF TypeOK
  <2>. QED
    BY <2>1, <2>2
<1>2. pc'[Main(c)] = "snapshot" => body'[Main(c)].at \in Nat /\ body'[Main(c)].at <= now'
  <2>. SUFFICES ASSUME pc'[Main(c)] = "snapshot"
                PROVE  body'[Main(c)].at \in Nat /\ body'[Main(c)].at <= now'
    OBVIOUS
  <2>1. pc[Main(c)] \in Joining
    BY JoinedStays DEF Joining
  <2>2. CASE ReadCutoff(c)
    <3>1. body'[Main(c)] = Cutoff(now)
      BY <2>2 DEF ReadCutoff, Hold, TypeOK
    <3>. QED
      BY <1>1, <3>1 DEF Cutoff
  <2>3. CASE Snapshot(c) \/ SendHistory(c)
    BY <2>3 DEF Snapshot, SendHistory, Goto, TypeOK
  <2>4. CASE pc'[Main(c)] = pc[Main(c)] /\ body'[Main(c)] = body[Main(c)]
    BY <1>1, <2>4 DEF Single
  <2>. QED
    BY <2>1, <2>2, <2>3, <2>4, JoinStep
<1>3. CASE SendHistory(c)
  <2>1. Replays(c) = {} /\ body[Main(c)] \in Frame /\ pc'[Main(c)] = "devices"
    BY <1>3 DEF SendHistory, Single, Joining, Goto, TypeOK
  <2>2. queue'[c] = queue[c] \/ queue'[c] = Append(queue[c], body[Main(c)])
    BY <1>3 DEF SendHistory, EnqueueJSON, Send, TypeOK
  <2>3. \A i, j \in Replays(c)' : i = j
    <3>1. CASE queue'[c] = queue[c]
      BY <2>1, <3>1 DEF Replays
    <3>2. CASE queue'[c] = Append(queue[c], body[Main(c)])
      BY <2>1, <3>2, ReplayAppend
    <3>. QED
      BY <2>2, <3>1, <3>2
  <2>. QED
    BY <1>2, <2>1, <2>3 DEF Single, Joining
<1>4. CASE ~SendHistory(c)
  <2>1. \A i, j \in Replays(c)' : i = j
    <3>1. CASE queue'[c] = queue[c]
      BY <3>1 DEF Single, Replays
    <3>2. ASSUME NEW f \in Frame, f.kind # "history", queue'[c] = Append(queue[c], f)
          PROVE  \A i, j \in Replays(c)' : i = j
      BY <3>2, ReplayAppend DEF Single
    <3>3. CASE WriteFrame(c) \/ WriteLost(c)
      <4>1. queue[c] # <<>> /\ queue' = [queue EXCEPT ![c] = Tail(@)]
        BY <3>3 DEF WriteFrame, WriteLost
      <4>2. \A i, j \in Replays(c)' : i \in Nat /\ j \in Nat /\ i + 1 = j + 1
        BY <4>1, ReplayTail DEF Single
      <4>. QED
        BY <4>2
    <3>. QED
      BY <1>4, <3>1, <3>2, <3>3, ChannelStep DEF Inv
  <2>2. Replays(c) = {} => Replays(c)' = {}
    <3>1. CASE queue'[c] = queue[c]
      BY <3>1 DEF Replays
    <3>2. ASSUME NEW f \in Frame, f.kind # "history", queue'[c] = Append(queue[c], f)
          PROVE  Replays(c) = {} => Replays(c)' = {}
      BY <3>2, ReplayAppend
    <3>3. CASE WriteFrame(c) \/ WriteLost(c)
      BY <3>3, ReplayTail DEF WriteFrame, WriteLost
    <3>. QED
      BY <1>4, <3>1, <3>2, <3>3, ChannelStep DEF Inv
  <2>3. pc'[Main(c)] \in Joining => pc[Main(c)] \in Joining
    BY JoinedStays
  <2>. QED
    BY <1>2, <2>1, <2>2, <2>3 DEF Single
<1>. QED
  BY <1>3, <1>4

\* While m is kept, a healthy client that finds it goes on finding it.
LEMMA FindsStep ==
    ASSUME Safe, Inv, Next, NEW c \in Conn, Single(c), RoomForHistory, NEW m \in Message,
           Healthy(c), Healthy(c)', Addressed(c, m), Fresh(m, now), m \in history, Finds(c, m)
    PROVE  Finds(c, m)'
<1>. USE TaskFacts DEF Safe, SafeInv
<1>1. CASE pc[Main(c)] \in Joining
  <2>1. CASE pc'[Main(c)] = pc[Main(c)] /\ body'[Main(c)] = body[Main(c)]
    BY <1>1, <2>1 DEF Finds
  <2>2. CASE pc'[Main(c)] \in {"welcome", "cutoff"}
    BY <2>2 DEF Finds, Joining
  <2>3. CASE ReadCutoff(c)
    BY <2>3 DEF ReadCutoff, Goto, TypeOK, Finds, Joining
  <2>4. CASE Snapshot(c)
    <3>. DEFINE found == {h \in history : /\ Fresh(h, body[Main(c)].at)
                                          /\ VisibleTo(h, DeviceOf[c])}
    <3>1. body[Main(c)].at \in Nat /\ body[Main(c)].at <= now
      BY <2>4 DEF Snapshot, Single
    <3>2. Fresh(m, body[Main(c)].at)
      <4>1. m.ts \in Nat /\ HistoryTTL \in Nat /\ now \in Nat
        BY NumberAssumption DEF Message, TypeOK
      <4>. QED
        BY <3>1, <4>1 DEF Fresh
    <3>3. VisibleTo(m, DeviceOf[c])
      BY DEF Addressed, VisibleTo
    <3>4. m \in found
      BY <3>2, <3>3
    <3>. HIDE DEF found
    <3>5. /\ pc[Main(c)] = "snapshot"
          /\ pc' = [pc EXCEPT ![Main(c)] = "history"]
          /\ body' = [body EXCEPT ![Main(c)] = HistoryFrame(found)]
      BY <2>4, <3>4 DEF Snapshot, Goto, Hold, found
    <3>6. pc'[Main(c)] = "history" /\ body'[Main(c)] = HistoryFrame(found)
      BY <3>5 DEF TypeOK
    <3>. QED
      BY <3>4, <3>6 DEF Finds, HistoryFrame
  <2>5. CASE SendHistory(c)
    <3>. DEFINE f == body[Main(c)]  n == Len(queue[c]) + 1
    <3>1. /\ pc[Main(c)] = "history" /\ pc'[Main(c)] = "devices"
          /\ f \in Frame /\ f.kind = "history"
      BY <2>5 DEF SendHistory, Goto, TypeOK, Inv, Origins, Original
    <3>2. c \in clients /\ c \notin closed /\ ~Full(c)
      BY <3>1 DEF Healthy, LockInv, RoomForHistory
    <3>3. queue'[c] = Append(queue[c], f)
      BY <2>5, <3>2 DEF SendHistory, EnqueueJSON, Send, TypeOK
    <3>4. n \in Replays(c)' /\ queue'[c][n] = f
      BY <3>1, <3>3, ReplayAppend
    <3>5. m \in f.msgs
      BY <3>1 DEF Finds, Joining
    <3>. QED
      BY <3>1, <3>4, <3>5 DEF Finds, Joining
  <2>. QED
    BY <1>1, <2>1, <2>2, <2>3, <2>4, <2>5, JoinStep
<1>2. CASE pc[Main(c)] \notin Joining
  <2>1. pc'[Main(c)] \notin Joining /\ ~SendHistory(c)
    BY <1>2, JoinedStays DEF SendHistory, Joining
  <2>2. \/ \E i \in Replays(c) : m \in queue[c][i].msgs
        \/ Replays(c) = {} /\ m \in view[c].replayed
    BY <1>2 DEF Finds, Joining
  <2>3. \/ \E i \in Replays(c)' : m \in queue'[c][i].msgs
        \/ Replays(c)' = {} /\ m \in view'[c].replayed
    <3>1. CASE queue'[c] = queue[c] /\ view'[c] = view[c]
      BY <2>2, <3>1 DEF Replays
    <3>2. ASSUME NEW f \in Frame, f.kind # "history", queue'[c] = Append(queue[c], f),
                 view'[c] = view[c]
          PROVE  \/ \E i \in Replays(c)' : m \in queue'[c][i].msgs
                 \/ Replays(c)' = {} /\ m \in view'[c].replayed
      <4>1. /\ \A i \in Replays(c) : i \in Replays(c)' /\ queue'[c][i] = queue[c][i]
            /\ Replays(c)' = Replays(c)
        BY <3>2, ReplayAppend
      <4>. QED
        BY <2>2, <3>2, <4>1
    <3>3. CASE WriteFrame(c)
      <4>1. /\ queue[c] # <<>> /\ queue' = [queue EXCEPT ![c] = Tail(@)]
            /\ view'[c] = Received(view[c], queue[c][1]) /\ view[c] \in View
            /\ queue[c][1] \in Frame /\ 1 \in DOMAIN queue[c]
        BY <3>3, TailFacts DEF WriteFrame, TypeOK
      <4>. DEFINE g == queue[c][1]
      <4>. HIDE DEF g
      <4>2. CASE g.kind = "history"
        <5>1. 1 \in Replays(c) /\ \A i \in Replays(c) : i = 1
          BY <4>1, <4>2 DEF Replays, Single, g
        <5>2. Replays(c)' = {}
          BY <4>1, <5>1, ReplayTail
        <5>3. m \in g.msgs
          BY <2>2, <5>1 DEF g
        <5>4. view'[c] = [view[c] EXCEPT !.replayed = g.msgs, !.log = <<>>]
          BY <4>1, <4>2 DEF Received, g
        <5>5. view'[c].replayed = g.msgs
          BY <4>1, <5>4 DEF View
        <5>. QED
          BY <5>2, <5>3, <5>5
      <4>3. CASE g.kind # "history"
        <5>1. view'[c].replayed = view[c].replayed
          <6>1. CASE g.kind = "welcome"
            BY <4>1, <6>1 DEF Received, g
          <6>2. CASE g.kind = "presence"
            <7>1. view'[c] = [view[c] EXCEPT !.users = g.users, !.rosters = @ \cup {g.users}]
              BY <4>1, <6>2 DEF Received, g
            <7>. QED
              BY <4>1, <7>1 DEF View
          <6>3. CASE g.kind = "message"
            <7>1. view'[c] = [view[c] EXCEPT !.log = Append(@, g.msg)]
              BY <4>1, <6>3 DEF Received, g
            <7>. QED
              BY <4>1, <7>1 DEF View
          <6>. QED
            BY <4>1, <4>3, <6>1, <6>2, <6>3, FrameFacts DEF g
        <5>2. 1 \notin Replays(c)
          BY <4>3 DEF Replays, g
        <5>3. CASE Replays(c) = {} /\ m \in view[c].replayed
          BY <4>1, <5>1, <5>3, ReplayTail
        <5>4. ASSUME NEW i \in Replays(c), m \in queue[c][i].msgs
              PROVE  \E j \in Replays(c)' : m \in queue'[c][j].msgs
          <6>1. i - 1 \in Replays(c)' /\ queue'[c][i - 1] = queue[c][i]
            BY <4>1, <5>2, <5>4, ReplayTail
          <6>. QED
            BY <5>4, <6>1
        <5>. QED
          BY <2>2, <5>3, <5>4
      <4>. QED
        BY <4>2, <4>3
    <3>4. ~WriteLost(c)
      BY DEF WriteLost, Healthy
    <3>. QED
      BY <2>1, <3>1, <3>2, <3>3, <3>4, ChannelStep DEF Inv
  <2>. QED
    BY <2>1, <2>3 DEF Finds
<1>. QED
  BY <1>1, <1>2

\* Nothing that is still to be kept leaves the history, and what joins it is new.
LEMMA HistoryStep ==
    ASSUME Safe, Next
    PROVE  /\ \A m \in Message : Fresh(m, now)' => Fresh(m, now)
           /\ \A m \in history : Fresh(m, now)' => m \in history'
           /\ \A e \in chat' : \/ e \in chat
                               \/ e.msg \in history' /\ e.present = clients /\ UNCHANGED clients
<1>. USE TaskFacts DEF Safe, SafeInv
<1>1. \A m \in Message : Fresh(m, now)' => Fresh(m, now)
  <2>1. now' = now \/ now' = now + 1
    BY DEF Next, Work, EnvStep, ConnStep, Register, RegisterStep, SendWelcome, ReadCutoff,
       Snapshot, SendHistory, ReadMessage, Store, ReadFails, ProtocolError, LinkDown,
       ReadPumpExit, WriteStep, WriteFrame, WriteLost, WriteFails, WriteClose, WriterEnds,
       DeliverStep, ListDevices, BeginDeliver, DeliverTo, EndDeliver, SlowStep, Retry,
       Expire, StillThere, Disconnect, Tick
  <2>2. now \in Nat /\ HistoryTTL \in Nat /\ \A m \in Message : m.ts \in Nat
    BY NumberAssumption DEF TypeOK, Message
  <2>. QED
    BY <2>1, <2>2 DEF Fresh
<1>2. ASSUME NEW d \in Conn, Store(d)
      PROVE  /\ \A m \in history : Fresh(m, now)' => m \in history'
             /\ \A e \in chat' : \/ e \in chat
                                 \/ /\ e.msg \in history' /\ e.present = clients
                                    /\ UNCHANGED clients
  BY <1>2 DEF Store, Fresh
<1>3. CASE \A d \in Conn : ~Store(d)
  <2>1. UNCHANGED <<history, chat>>
    BY <1>3 DEF Next, Work, EnvStep, ConnStep, Register, RegisterStep, SendWelcome, ReadCutoff,
       Snapshot, SendHistory, ReadMessage, ReadFails, ProtocolError, LinkDown,
       ReadPumpExit, WriteStep, WriteFrame, WriteLost, WriteFails, WriteClose, WriterEnds,
       DeliverStep, ListDevices, BeginDeliver, DeliverTo, EndDeliver, SlowStep, Retry,
       Expire, StillThere, Disconnect, Tick
  <2>. QED
    BY <1>1, <2>1
<1>. QED
  BY <1>1, <1>2, <1>3

LEMMA ReplayedStep ==
    ASSUME Safe, Inv, Replayed, RoomForHistory, Next
    PROVE  Replayed'
<1>. USE TaskFacts DEF Safe, SafeInv
<1>1. \A e \in chat : e.msg \in Message
  BY DEF TypeOK
<1>2. Retained'
  <2>. SUFFICES ASSUME NEW e \in chat', Fresh(e.msg, now)' PROVE e.msg \in history'
    BY DEF Retained, Fresh
  <2>1. CASE e \in chat
    BY <1>1, <2>1, HistoryStep DEF Replayed, Retained
  <2>2. CASE e \notin chat
    BY <2>2, HistoryStep
  <2>. QED
    BY <2>1, <2>2
<1>3. ASSUME NEW c \in Conn PROVE Single(c)'
  BY SingleStep DEF Replayed
<1>4. ASSUME NEW c \in Conn, NEW e \in chat', Missed(c, e)' PROVE Finds(c, e.msg)'
  <2>1. /\ Healthy(c)' /\ c \notin e.present /\ Addressed(c, e.msg) /\ Fresh(e.msg, now)'
    BY <1>4 DEF Missed, Addressed
  <2>2. e \in chat
    BY <2>1, HistoryStep DEF Healthy
  <2>3. e.msg \in Message /\ Fresh(e.msg, now) /\ e.msg \in history
    BY <1>1, <2>1, <2>2, HistoryStep DEF Replayed, Retained
  <2>4. CASE pc[Main(c)] = "idle"
    <3>1. c \notin clients
      BY <2>4 DEF LockInv
    <3>2. c \in clients'
      BY <2>1 DEF Healthy
    <3>3. PICK d \in Conn : Register(d) /\ clients' = clients \cup {d}
      BY <3>1, <3>2 DEF Next, Work, EnvStep, ConnStep, Register, RegisterStep, SendWelcome,
         ReadCutoff, Snapshot, SendHistory, ReadMessage, Store, ReadFails, ProtocolError,
         LinkDown, ReadPumpExit, WriteStep, WriteFrame, WriteLost, WriteFails, WriteClose,
         WriterEnds, DeliverStep, ListDevices, BeginDeliver, DeliverTo, EndDeliver, SlowStep,
         Retry, Expire, StillThere, Disconnect, Remove, Tick
    <3>4. pc'[Main(c)] = "welcome"
      BY <3>1, <3>2, <3>3 DEF Register, Goto, TypeOK
    <3>. QED
      BY <3>4 DEF Finds, Joining
  <2>5. CASE pc[Main(c)] # "idle"
    <3>1. Healthy(c)
      BY <2>1, <2>5, HealthyWas
    <3>2. Finds(c, e.msg)
      BY <2>1, <2>2, <2>3, <3>1 DEF Replayed, Missed
    <3>3. Single(c)
      BY DEF Replayed
    <3>. QED
      BY <2>1, <2>3, <3>1, <3>2, <3>3, FindsStep
  <2>. QED
    BY <2>4, <2>5
<1>. QED
  BY <1>2, <1>3, <1>4 DEF Replayed

\* Who joins after a message was stored has it in the history it was sent, as long as
\* the retention has not passed (addToHistory, sendHistory), in every behaviour in
\* which the history frame finds room in the channel of the newcomer.
THEOREM LateJoinersServed == Spec /\ []RoomForHistory => []LateJoinerSeesFresh
<1>1. Init => Replayed
  <2>. SUFFICES ASSUME Init PROVE Replayed
    OBVIOUS
  <2>1. chat = {} /\ \A c \in Conn : queue[c] = <<>> /\ pc[Main(c)] = "idle"
    BY TaskFacts DEF Init
  <2>. QED
    BY <2>1 DEF Replayed, Retained, Single, Replays
<1>2. (Safe /\ Inv) /\ Replayed /\ RoomForHistory /\ [Next]_vars => Replayed'
  <2>1. Replayed /\ UNCHANGED vars => Replayed'
    BY DEF Replayed, Retained, Single, Missed, Finds, Replays, Healthy, Addressed, Fresh
  <2>. QED
    BY <2>1, ReplayedStep
<1>3. (Safe /\ Inv) /\ Replayed => LateJoinerSeesFresh
  <2>. SUFFICES ASSUME Safe, Replayed, Quiet, NEW e \in chat, NEW c \in Conn,
                       Healthy(c), c \notin e.present, Addressed(c, e.msg),
                       e.msg.ts + HistoryTTL >= now
                PROVE  e.msg \in view[c].replayed
    BY DEF LateJoinerSeesFresh
  <2>1. c \in clients /\ queue[c] = <<>> /\ pc[Main(c)] \in {"read", "done"}
    BY TaskFacts DEF Healthy, Quiet, Safe, SafeInv, LockInv
  <2>2. Finds(c, e.msg)
    BY DEF Replayed, Missed, Fresh
  <2>3. Replays(c) = {} /\ pc[Main(c)] \notin Joining
    BY <2>1 DEF Replays, Joining
  <2>. QED
    BY <2>2, <2>3 DEF Finds, Joining
<1>. QED
  BY <1>1, <1>2, <1>3, Invariant, PTL DEF Spec
=============================================================================
