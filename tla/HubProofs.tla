----------------------------- MODULE HubProofs -----------------------------
(***************************************************************************)
(* Theorems about Hub, for every value of its constants.                   *)
(***************************************************************************)
EXTENDS Hub, SequenceTheorems, TLAPS

USE DEF vars, hubVars, chanVars, taskVars, connVars, rest, Places

\* Every frame constructor yields a frame, and a frame carries messages.
LEMMA FrameFacts ==
    /\ WelcomeFrame \in Frame /\ Frame \subseteq Body /\ Nothing \in Body
    /\ \A S \in SUBSET Message : HistoryFrame(S) \in Frame
    /\ \A t \in Task, S \in SUBSET Device : PresenceFrame(t, S) \in Frame
    /\ \A m \in Message : MessageFrame(m) \in Frame
    /\ \A f \in Frame : /\ f.kind \in {"welcome", "history", "presence", "message"}
                        /\ f.kind = "message" => f.msg \in Message
                        /\ f.kind = "history" => f.msgs \in SUBSET Message
                        /\ f.kind = "presence" => f.users \in SUBSET Device
BY DEF Frame, Body, Nothing, WelcomeFrame, HistoryFrame, PresenceFrame, MessageFrame

LEMMA TaskFacts ==
    /\ \A c \in Conn : Main(c) \in Task /\ Leave(c) \in Task /\ Main(c) # Leave(c)
    /\ \A t \in Task : ConnOf(t) \in Conn /\ (t = Main(ConnOf(t)) \/ t = Leave(ConnOf(t)))
BY DEF Task, Main, Leave, ConnOf

\* A step of a delivery moves only the goroutine that delivers.
LEMMA DeliverOwn ==
    ASSUME TypeOK, NEW t \in Task, DeliverStep(t)
    PROVE  /\ UNCHANGED <<clients, known, history, closed, link, rest>>
           /\ \A u \in Task \ {t} : pc'[u] = pc[u] /\ body'[u] = body[u] /\ todo'[u] = todo[u]
<1>1. CASE ListDevices(t)
  BY <1>1 DEF ListDevices, Goto, Hold, TypeOK
<1>2. CASE BeginDeliver(t)
  BY <1>2 DEF BeginDeliver, Goto, TypeOK
<1>3. ASSUME NEW d \in todo[t], DeliverTo(t, d)
      PROVE  /\ UNCHANGED <<clients, known, history, closed, link, rest, pc, body>>
             /\ todo' = [todo EXCEPT ![t] = @ \ {d}]
  BY <1>3 DEF DeliverTo
<1>4. CASE EndDeliver(t)
  <2>1. /\ UNCHANGED <<clients, known, history, closed, link, rest, todo>>
        /\ body' = [body EXCEPT ![t] = Nothing]
        /\ \E l : pc' = [pc EXCEPT ![t] = l]
    BY <1>4 DEF EndDeliver, Goto, Hold
  <2>. QED
    BY <2>1 DEF TypeOK
<1>. QED
  BY <1>1, <1>2, <1>3, <1>4 DEF DeliverStep, TypeOK

\* A non-blocking send keeps the type of the channels.
LEMMA SendType ==
    ASSUME TypeOK, NEW c \in Conn, NEW f \in Frame, Send(c, f)
    PROVE  queue' \in [Conn -> Seq(Frame)] /\ panicked' \in BOOLEAN
<1>1. queue[c] \in Seq(Frame)
  BY DEF TypeOK
<1>2. Append(queue[c], f) \in Seq(Frame)
  BY <1>1, AppendProperties
<1>3. queue' \in [Conn -> Seq(Frame)]
  BY <1>2 DEF TypeOK, Send
<1>. QED
  BY <1>3 DEF Send, TypeOK

\* What a client shows after a frame is again a view.
LEMMA ReceivedType ==
    ASSUME NEW v \in View, NEW f \in Frame
    PROVE  Received(v, f) \in View
<1>1. CASE f.kind = "welcome"
  BY <1>1 DEF Received, View
<1>2. CASE f.kind = "history"
  <2>1. Received(v, f) = [v EXCEPT !.replayed = f.msgs, !.log = <<>>]
    BY <1>2 DEF Received
  <2>2. <<>> \in Seq(Message) /\ f.msgs \in SUBSET Message
    BY <1>2, FrameFacts
  <2>. QED
    BY <2>1, <2>2 DEF View
<1>3. CASE f.kind = "presence"
  <2>1. Received(v, f) = [v EXCEPT !.users = f.users,
                                   !.rosters = v.rosters \cup {f.users}]
    BY <1>3 DEF Received
  <2>2. f.users \in SUBSET Device /\ v.rosters \cup {f.users} \in SUBSET SUBSET Device
    BY <1>3, FrameFacts DEF View
  <2>. QED
    BY <2>1, <2>2 DEF View
<1>4. CASE f.kind = "message"
  <2>1. Append(v.log, f.msg) \in Seq(Message)
    BY <1>4, FrameFacts, AppendProperties DEF View
  <2>. QED
    BY <1>4, <2>1 DEF Received, View
<1>. QED
  BY <1>1, <1>2, <1>3, <1>4, FrameFacts

\* The recipients of an incoming list are device IDs.
LEMMA RecipientsType ==
    ASSUME NEW raw, NEW self
    PROVE  Recipients(raw, self) \subseteq Device
BY DEF Recipients

LEMMA EnqueueType ==
    ASSUME TypeOK, NEW c \in Conn, NEW f \in Frame, EnqueueJSON(c, f)
    PROVE  queue' \in [Conn -> Seq(Frame)] /\ panicked' \in BOOLEAN
BY SendType DEF EnqueueJSON, TypeOK

LEMMA RegisterTypes ==
    ASSUME TypeOK, NEW c \in Conn, Register(c) \/ RegisterStep(c)
    PROVE  TypeOK'
<1>. USE TaskFacts, FrameFacts
<1>1. CASE Register(c)
  <2>1. /\ clients' = clients \cup {c} /\ known' = known \cup {DeviceOf[c]}
        /\ pc' = [pc EXCEPT ![Main(c)] = "welcome"]
        /\ UNCHANGED <<history, closed, chanVars, body, todo, slow, connVars, rest>>
    BY <1>1 DEF Register, Goto
  <2>2. DeviceOf[c] \in Device
    BY DeviceOfAssumption
  <2>3. clients' \subseteq Conn /\ known' \subseteq Device /\ OnlineDevices' \subseteq known'
    BY <2>1, <2>2 DEF TypeOK, OnlineDevices
  <2>4. pc' \in [Task -> Places]
    BY <2>1 DEF TypeOK, Places
  <2>5. \A t \in Task :
          /\ pc'[t] \in {"deliver", "delivering", "store", "history"} => body'[t] \in Frame
          /\ pc'[t] = "snapshot" => body'[t].kind = "cutoff"
          /\ pc'[t] = "store" => body'[t].kind = "message"
    BY <2>1 DEF TypeOK
  <2>. QED
    BY <2>1, <2>3, <2>4, <2>5 DEF TypeOK
<1>2. CASE SendWelcome(c)
  <2>1. queue' \in [Conn -> Seq(Frame)] /\ panicked' \in BOOLEAN
    BY <1>2, EnqueueType DEF SendWelcome
  <2>. QED
    BY <1>2, <2>1 DEF TypeOK, SendWelcome, Goto, OnlineDevices
<1>3. CASE ReadCutoff(c)
  BY <1>3 DEF TypeOK, ReadCutoff, Goto, Hold, Cutoff, Body, OnlineDevices
<1>4. CASE Snapshot(c)
  <2>. DEFINE found == {m \in history : /\ Fresh(m, body[Main(c)].at)
                                        /\ VisibleTo(m, DeviceOf[c])}
  <2>1. HistoryFrame(found) \in Frame
    BY DEF TypeOK
  <2>2. PICK b \in Body, l \in {"devices", "history"} :
          /\ Hold(Main(c), b) /\ Goto(Main(c), l)
          /\ l = "history" => b \in Frame
    <3>1. CASE found = {}
      BY <1>4, <3>1 DEF Snapshot
    <3>2. CASE found # {}
      BY <1>4, <2>1, <3>2 DEF Snapshot
    <3>. QED
      BY <3>1, <3>2
  <2>3. UNCHANGED <<hubVars, chanVars, todo, slow, connVars, rest>>
    BY <1>4 DEF Snapshot
  <2>. QED
    BY <2>2, <2>3 DEF TypeOK, Goto, Hold, OnlineDevices
<1>5. CASE SendHistory(c)
  <2>1. queue' \in [Conn -> Seq(Frame)] /\ panicked' \in BOOLEAN
    BY <1>5, EnqueueType DEF SendHistory, TypeOK
  <2>. QED
    BY <1>5, <2>1 DEF TypeOK, SendHistory, Goto, Hold, OnlineDevices
<1>. QED
  BY <1>1, <1>2, <1>3, <1>4, <1>5 DEF RegisterStep


LEMMA DeliverTypes ==
    ASSUME TypeOK, NEW t \in Task, DeliverStep(t)
    PROVE  TypeOK'
<1>. USE TaskFacts, FrameFacts
<1>1. CASE ListDevices(t)
  <2>1. PresenceFrame(t, OnlineDevices) \in Frame
    BY DeviceOfAssumption DEF TypeOK, OnlineDevices
  <2>. QED
    BY <1>1, <2>1 DEF TypeOK, ListDevices, Goto, Hold, OnlineDevices
<1>2. CASE BeginDeliver(t)
  <2>1. Audience(body[t]) \subseteq Conn
    BY DEF Audience, TypeOK
  <2>. QED
    BY <1>2, <2>1 DEF TypeOK, BeginDeliver, Goto, OnlineDevices
<1>3. ASSUME NEW c \in todo[t], DeliverTo(t, c) PROVE TypeOK'
  <2>1. c \in Conn /\ body[t] \in Frame
    BY <1>3 DEF TypeOK, DeliverTo
  <2>2. queue' \in [Conn -> Seq(Frame)] /\ panicked' \in BOOLEAN
    BY <1>3, <2>1, SendType DEF DeliverTo, TypeOK
  <2>3. slow' \subseteq [conn: Conn, frame: Frame, at: {"retry", "check", "unregister"}]
    <3>1. Slow(c, body[t], "retry") \in
            [conn: Conn, frame: Frame, at: {"retry", "check", "unregister"}]
      BY <2>1 DEF Slow
    <3>2. slow' \subseteq slow \cup {Slow(c, body[t], "retry")}
      BY <1>3 DEF DeliverTo
    <3>. QED
      BY <3>1, <3>2 DEF TypeOK
  <2>. QED
    BY <1>3, <2>1, <2>2, <2>3 DEF TypeOK, DeliverTo, OnlineDevices
<1>4. CASE EndDeliver(t)
  <2>1. writer' \in [Conn -> {"off", "run", "done"}] /\ shut' \subseteq Conn
    BY <1>4 DEF EndDeliver, TypeOK
  <2>2. \E l \in {"read", "done"} : Goto(t, l)
    BY <1>4 DEF EndDeliver
  <2>3. pc' \in [Task -> Places] /\ pc'[t] \in {"read", "done"}
    <3>1. PICK l \in {"read", "done"} : pc' = [pc EXCEPT ![t] = l]
      BY <2>2 DEF Goto
    <3>2. l \in Places
      BY DEF Places
    <3>. QED
      BY <3>1, <3>2 DEF TypeOK
  <2>4. body' \in [Task -> Body]
    BY <1>4 DEF EndDeliver, Hold, TypeOK
  <2>5. \A u \in Task \ {t} : pc'[u] = pc[u] /\ body'[u] = body[u]
    BY <1>4, <2>2 DEF EndDeliver, Goto, Hold, TypeOK
  <2>6. \A u \in Task :
          /\ pc'[u] \in {"deliver", "delivering", "store", "history"} => body'[u] \in Frame
          /\ pc'[u] = "snapshot" => body'[u].kind = "cutoff"
          /\ pc'[u] = "store" => body'[u].kind = "message"
    BY <2>3, <2>5 DEF TypeOK
  <2>7. UNCHANGED <<hubVars, chanVars, todo, slow, link, rest>>
    BY <1>4 DEF EndDeliver
  <2>. QED
    BY <2>1, <2>3, <2>4, <2>6, <2>7 DEF TypeOK, OnlineDevices
<1>. QED
  BY <1>1, <1>2, <1>3, <1>4 DEF DeliverStep

LEMMA ReadTypes ==
    ASSUME TypeOK, NEW c \in Conn,
           ReadMessage(c) \/ Store(c) \/ ReadFails(c) \/ ProtocolError(c)
    PROVE  TypeOK'
<1>. USE TaskFacts, FrameFacts
<1>1. CASE ReadMessage(c)
  <2>1. PICK raw \in RawLists :
          Hold(Main(c), MessageFrame(
              [from |-> c, n |-> sent[c], to |-> Recipients(raw, DeviceOf[c]),
               named |-> Recipients(raw, DeviceOf[c]) \cap known, ts |-> now,
               asked |-> Intended(raw)]))
    BY <1>1 DEF ReadMessage
  <2>2. Intended(raw) \subseteq Device
    BY DEF Intended
  <2>3. [from |-> c, n |-> sent[c], to |-> Recipients(raw, DeviceOf[c]),
         named |-> Recipients(raw, DeviceOf[c]) \cap known, ts |-> now,
         asked |-> Intended(raw)] \in Message
    BY <2>2, RecipientsType DEF TypeOK, Message
  <2>4. PICK m \in Message : Hold(Main(c), MessageFrame(m))
    BY <2>1, <2>3
  <2>5. /\ pc[Main(c)] = "read" /\ sent' = [sent EXCEPT ![c] = @ + 1]
        /\ Goto(Main(c), "store")
        /\ UNCHANGED <<hubVars, chanVars, todo, slow, connVars, now, chat, view>>
    BY <1>1 DEF ReadMessage
  <2>6. sent' \in [Conn -> Nat]
    <3>1. sent \in [Conn -> Nat]
      BY DEF TypeOK
    <3>2. sent[c] + 1 \in Nat
      BY <3>1
    <3>. QED
      BY <2>5, <3>1, <3>2
  <2>7. MessageFrame(m) \in Frame /\ MessageFrame(m).kind = "message"
    BY DEF MessageFrame
  <2>. HIDE DEF MessageFrame
  <2>. QED
    BY <2>4, <2>5, <2>6, <2>7 DEF TypeOK, Goto, Hold, OnlineDevices
<1>2. CASE Store(c)
  <2>1. body[Main(c)].msg \in Message
    BY <1>2 DEF Store, TypeOK
  <2>2. Settled \subseteq Conn
    BY DEF Settled, TypeOK
  <2>3. history' \subseteq Message
    BY <1>2, <2>1 DEF Store, TypeOK
  <2>4. chat' \subseteq [msg: Message, present: SUBSET Conn, settled: SUBSET Conn]
    <3>. DEFINE e == [msg |-> body[Main(c)].msg, present |-> clients, settled |-> Settled]
    <3>1. chat' = chat \cup {e}
      BY <1>2 DEF Store
    <3>2. e \in [msg: Message, present: SUBSET Conn, settled: SUBSET Conn]
      BY <2>1, <2>2 DEF TypeOK
    <3>. QED
      BY <3>1, <3>2 DEF TypeOK
  <2>5. /\ pc[Main(c)] = "store" /\ Goto(Main(c), "deliver")
        /\ UNCHANGED <<clients, known, closed, chanVars, body, todo, slow,
                       connVars, now, sent, view>>
    BY <1>2 DEF Store
  <2>. QED
    BY <2>3, <2>4, <2>5 DEF TypeOK, Goto, OnlineDevices
<1>3. CASE ReadFails(c)
  BY <1>3 DEF TypeOK, ReadFails, Goto, OnlineDevices
<1>4. CASE ProtocolError(c)
  BY <1>4 DEF TypeOK, ProtocolError, Goto, OnlineDevices
<1>. QED
  BY <1>1, <1>2, <1>3, <1>4

LEMMA LeaveTypes ==
    ASSUME TypeOK, NEW c \in Conn, ReadPumpExit(c)
    PROVE  TypeOK'
BY TaskFacts DEF TypeOK, ReadPumpExit, Remove, AfterRemove, OnlineDevices

LEMMA SlowTypes ==
    ASSUME TypeOK, NEW s \in slow, SlowStep(s)
    PROVE  TypeOK'
<1>. USE TaskFacts, FrameFacts
<1>1. s.conn \in Conn /\ s.frame \in Frame
  BY DEF TypeOK
<1>2. CASE Retry(s)
  <2>1. queue' \in [Conn -> Seq(Frame)] /\ panicked' \in BOOLEAN
    BY <1>1, <1>2, SendType DEF Retry, TypeOK
  <2>. QED
    BY <1>2, <2>1 DEF TypeOK, Retry, OnlineDevices
<1>3. ASSUME NEW l \in {"check", "unregister"}, Move(s, l)
      PROVE  slow' \subseteq [conn: Conn, frame: Frame, at: {"retry", "check", "unregister"}]
  BY <1>3 DEF Move, TypeOK
<1>4. CASE Expire(s)
  BY <1>3, <1>4 DEF TypeOK, Expire, OnlineDevices
<1>5. CASE StillThere(s)
  <2>1. slow' \subseteq [conn: Conn, frame: Frame, at: {"retry", "check", "unregister"}]
    BY <1>3, <1>5 DEF StillThere, TypeOK
  <2>. QED
    BY <1>5, <2>1 DEF TypeOK, StillThere, OnlineDevices
<1>6. CASE Disconnect(s)
  BY <1>1, <1>6 DEF TypeOK, Disconnect, Remove, AfterRemove, OnlineDevices
<1>. QED
  BY <1>2, <1>4, <1>5, <1>6 DEF SlowStep

LEMMA WriteTypes ==
    ASSUME TypeOK, NEW c \in Conn, WriteStep(c)
    PROVE  TypeOK'
<1>1. ASSUME queue[c] # <<>>
      PROVE  Head(queue[c]) \in Frame /\ Tail(queue[c]) \in Seq(Frame)
  BY <1>1, HeadTailProperties DEF TypeOK
<1>2. CASE WriteFrame(c)
  <2>1. Received(view[c], Head(queue[c])) \in View
    BY <1>1, <1>2, ReceivedType DEF WriteFrame, TypeOK
  <2>. QED
    BY <1>1, <1>2, <2>1 DEF TypeOK, WriteFrame, OnlineDevices
<1>3. CASE WriteLost(c)
  BY <1>1, <1>3 DEF TypeOK, WriteLost, OnlineDevices
<1>4. CASE WriteFails(c) \/ WriteClose(c)
  <2>1. WriterEnds(c)
    BY <1>4 DEF WriteFails, WriteClose
  <2>2. writer' \in [Conn -> {"off", "run", "done"}] /\ shut' \subseteq Conn
    BY <2>1 DEF WriterEnds, TypeOK
  <2>3. UNCHANGED <<hubVars, chanVars, taskVars, slow, link, rest>>
    BY <2>1 DEF WriterEnds
  <2>. QED
    BY <2>2, <2>3 DEF TypeOK, OnlineDevices
<1>. QED
  BY <1>2, <1>3, <1>4 DEF WriteStep

LEMMA InitType == ASSUME Init PROVE TypeOK
<1>1. <<>> \in Seq(Frame) /\ NewView \in View
  BY DEF NewView, View
<1>. QED
  BY <1>1, FrameFacts DEF Init, TypeOK, OnlineDevices

\* Every behaviour of the hub keeps TypeOK: the types, the frame each task needs
\* for its next step, and that a device online can be named from h.known.
THEOREM TypeCorrect == Spec => []TypeOK
<1>1. Init => TypeOK
  BY InitType
<1>2. TypeOK /\ [Next]_vars => TypeOK'
  <2>. SUFFICES ASSUME TypeOK, [Next]_vars PROVE TypeOK'
    OBVIOUS
  <2>1. ASSUME NEW c \in Conn, EnvStep(c) \/ ConnStep(c) PROVE TypeOK'
    <3>1. CASE LinkDown(c)
      BY <3>1 DEF TypeOK, LinkDown, OnlineDevices
    <3>. QED
      BY <2>1, <3>1, RegisterTypes, ReadTypes, LeaveTypes DEF EnvStep, ConnStep
  <2>2. ASSUME NEW c \in Conn, WriteStep(c) PROVE TypeOK'
    BY <2>2, WriteTypes
  <2>3. ASSUME NEW t \in Task, DeliverStep(t) PROVE TypeOK'
    BY <2>3, DeliverTypes
  <2>4. ASSUME NEW s \in slow, SlowStep(s) PROVE TypeOK'
    BY <2>4, SlowTypes
  <2>5. CASE Tick
    BY <2>5 DEF TypeOK, Tick, OnlineDevices
  <2>6. CASE UNCHANGED vars
    BY <2>6 DEF TypeOK, OnlineDevices
  <2>. QED
    BY <2>1, <2>2, <2>3, <2>4, <2>5, <2>6 DEF Next, Work
<1>. QED
  BY <1>1, <1>2, PTL DEF Spec

---------------------------------------------------------------------------
(* No send on a closed channel *)

SafeInv == TypeOK /\ LockInv /\ NoPanic

\* A send to a member finds its channel open.
LEMMA SendSafe ==
    ASSUME LockInv, NoPanic, NEW c \in clients, NEW f, Send(c, f)
    PROVE  NoPanic'
BY DEF LockInv, NoPanic, Send

\* A task that is not in the middle of a delivery may move to any place that is
\* not in the middle of one.
LEMMA GotoSafe ==
    ASSUME TypeOK, LockInv, NEW t \in Task, NEW l, Goto(t, l),
           l # "idle", todo[t] = {}, UNCHANGED <<clients, closed, todo>>
    PROVE  LockInv'
<1>1. \A c \in clients' \cup closed' : pc'[Main(c)] # "idle"
  BY TaskFacts DEF TypeOK, LockInv, Goto
<1>2. \A u \in Task : todo'[u] \subseteq clients' /\ (pc'[u] # "delivering" => todo'[u] = {})
  BY DEF TypeOK, LockInv, Goto
<1>. QED
  BY <1>1, <1>2 DEF LockInv

\* Unregister's locked section: no delivery is in progress, so none can still
\* hold the client that leaves; and a client is closed once, when it leaves.
LEMMA RemoveSafe ==
    ASSUME SafeInv, NEW c \in Conn, Remove(c),
           NEW l \in [Task -> Places],
           \A d \in Conn : pc[Main(d)] # "idle" => l[Main(d)] # "idle",
           pc' = AfterRemove(c, l), UNCHANGED todo
    PROVE  LockInv' /\ NoPanic'
<1>1. \A t \in Task : todo[t] = {}
  BY DEF SafeInv, LockInv, Remove, NoReader
<1>2. clients' \cap closed' = {}
  BY DEF SafeInv, LockInv, Remove
<1>3. NoPanic'
  BY DEF SafeInv, LockInv, NoPanic, Remove
<1>4. \A d \in clients' \cup closed' : pc'[Main(d)] # "idle"
  BY TaskFacts DEF SafeInv, TypeOK, LockInv, Remove, AfterRemove
<1>. QED
  BY <1>1, <1>2, <1>3, <1>4 DEF LockInv

LEMMA ConnSafe ==
    ASSUME SafeInv, NEW c \in Conn, EnvStep(c) \/ ConnStep(c)
    PROVE  LockInv' /\ NoPanic'
<1>. USE TaskFacts DEF SafeInv
<1>1. pc[Main(c)] # "delivering" => todo[Main(c)] = {}
  BY DEF LockInv
<1>2. CASE Register(c)
  <2>1. \A t \in Task : todo'[t] = {}
    BY <1>2 DEF Register, NoReader, LockInv
  <2>2. c \notin closed
    BY <1>2 DEF Register, LockInv
  <2>3. \A d \in clients' \cup closed' : pc'[Main(d)] # "idle"
    BY <1>2 DEF Register, Goto, LockInv, TypeOK
  <2>. QED
    BY <1>2, <2>1, <2>2, <2>3 DEF Register, LockInv, NoPanic
<1>3. CASE SendWelcome(c) \/ SendHistory(c)
  <2>1. NoPanic'
    BY <1>3, SendSafe DEF SendWelcome, SendHistory, EnqueueJSON, NoPanic
  <2>2. LockInv'
    BY <1>1, <1>3, GotoSafe DEF SendWelcome, SendHistory
  <2>. QED
    BY <2>1, <2>2
<1>4. CASE ReadCutoff(c) \/ Snapshot(c) \/ ReadMessage(c) \/ Store(c) \/ ReadFails(c)
              \/ ProtocolError(c)
  <2>1. /\ todo[Main(c)] = {} /\ UNCHANGED <<clients, closed, todo, panicked>>
        /\ \E l : l # "idle" /\ Goto(Main(c), l)
    BY <1>1, <1>4 DEF ReadCutoff, Snapshot, ReadMessage, Store, ReadFails, ProtocolError
  <2>. QED
    BY <2>1, GotoSafe DEF NoPanic
<1>5. CASE ReadPumpExit(c)
  <2>. DEFINE l == [pc EXCEPT ![Main(c)] = "done"]
  <2>1. Remove(c) /\ pc' = AfterRemove(c, l) /\ UNCHANGED todo
    BY <1>5 DEF ReadPumpExit
  <2>2. l \in [Task -> Places]
    BY DEF TypeOK
  <2>3. \A t \in Task : l[t] # "delivering"
    BY <2>1 DEF TypeOK, Remove, NoReader
  <2>4. \A d \in Conn : pc[Main(d)] # "idle" => l[Main(d)] # "idle"
    BY DEF TypeOK
  <2>. HIDE DEF l
  <2>. QED
    BY <2>1, <2>2, <2>3, <2>4, RemoveSafe
<1>6. CASE LinkDown(c)
  BY <1>6 DEF LinkDown, LockInv, NoPanic
<1>. QED
  BY <1>2, <1>3, <1>4, <1>5, <1>6 DEF EnvStep, ConnStep, RegisterStep

LEMMA DeliverSafe ==
    ASSUME SafeInv, NEW t \in Task, DeliverStep(t)
    PROVE  LockInv' /\ NoPanic'
<1>. USE TaskFacts DEF SafeInv
<1>1. CASE ListDevices(t)
  BY <1>1, GotoSafe DEF ListDevices, LockInv, NoPanic
<1>2. CASE BeginDeliver(t)
  <2>1. Audience(body[t]) \subseteq clients
    BY DEF Audience
  <2>2. \A u \in Task : todo'[u] \subseteq clients /\ (pc'[u] # "delivering" => todo'[u] = {})
    BY <1>2, <2>1 DEF BeginDeliver, Goto, TypeOK, LockInv
  <2>3. \A d \in clients \cup closed : pc'[Main(d)] # "idle"
    BY <1>2 DEF BeginDeliver, Goto, TypeOK, LockInv
  <2>. QED
    BY <1>2, <2>2, <2>3 DEF BeginDeliver, LockInv, NoPanic
<1>3. ASSUME NEW c \in todo[t], DeliverTo(t, c) PROVE LockInv' /\ NoPanic'
  <2>1. c \in clients
    BY DEF LockInv
  <2>2. NoPanic'
    BY <1>3, <2>1, SendSafe DEF DeliverTo, NoPanic
  <2>3. \A u \in Task : todo'[u] \subseteq todo[u]
    BY <1>3 DEF DeliverTo, TypeOK
  <2>. QED
    BY <1>3, <2>2, <2>3 DEF DeliverTo, LockInv
<1>4. CASE EndDeliver(t)
  <2>1. \E l : l # "idle" /\ Goto(t, l)
    BY <1>4 DEF EndDeliver
  <2>. QED
    BY <1>4, <2>1, GotoSafe DEF EndDeliver, NoPanic
<1>. QED
  BY <1>1, <1>2, <1>3, <1>4 DEF DeliverStep

LEMMA SlowSafe ==
    ASSUME SafeInv, NEW s \in slow, SlowStep(s)
    PROVE  LockInv' /\ NoPanic'
<1>. USE TaskFacts DEF SafeInv
<1>1. CASE Retry(s)
  <2>1. NoPanic'
    BY <1>1, SendSafe DEF Retry, NoPanic
  <2>. QED
    BY <1>1, <2>1 DEF Retry, LockInv
<1>2. CASE Expire(s) \/ StillThere(s)
  BY <1>2 DEF Expire, StillThere, LockInv, NoPanic
<1>3. CASE Disconnect(s)
  <2>1. s.conn \in Conn /\ pc \in [Task -> Places]
    BY DEF TypeOK
  <2>2. \A t \in Task : pc[t] # "delivering"
    BY <1>3 DEF Disconnect, Remove, NoReader
  <2>. QED
    BY <1>3, <2>1, <2>2, RemoveSafe DEF Disconnect
<1>. QED
  BY <1>1, <1>2, <1>3 DEF SlowStep

\* No goroutine of the hub ever sends on, or closes again, a channel that
\* Unregister has closed: any number of connections, any queue size.
THEOREM PanicFree == Spec => [](NoPanic /\ LockInv)
<1>1. Init => SafeInv
  <2>. SUFFICES ASSUME Init PROVE LockInv /\ NoPanic
    BY InitType DEF SafeInv
  <2>. QED
    BY DEF Init, LockInv, NoPanic
<1>2. SafeInv /\ TypeOK' /\ [Next]_vars => SafeInv'
  <2>. SUFFICES ASSUME SafeInv, [Next]_vars PROVE LockInv' /\ NoPanic'
    BY DEF SafeInv
  <2>1. ASSUME NEW c \in Conn, WriteStep(c) PROVE LockInv' /\ NoPanic'
    BY <2>1 DEF SafeInv, LockInv, NoPanic, WriteStep, WriteFrame, WriteLost,
                WriteFails, WriteClose, WriterEnds
  <2>2. CASE Tick \/ UNCHANGED vars
    BY <2>2 DEF SafeInv, LockInv, NoPanic, Tick
  <2>. QED
    BY <2>1, <2>2, ConnSafe, DeliverSafe, SlowSafe DEF Next, Work
<1>. QED
  BY <1>1, <1>2, TypeCorrect, PTL DEF Spec, SafeInv

\* The discipline of h.mu that keeps deliver and Unregister apart: no member leaves
\* while a delivery holds the read lock, and no member's channel is closed.
THEOREM LocksRespected == Spec => []LockInv
BY PanicFree, PTL

---------------------------------------------------------------------------
(* Directed messages reach the named devices only *)

\* Sanitizing never widens the audience the sender asked for: recipients come
\* from the list, and only an empty list means everyone.
LEMMA SanitizeSound ==
    ASSUME NEW c \in Conn, NEW raw \in RawLists, Acceptable(raw, DeviceOf[c]),
           NEW m, m.from = c, m.to = Recipients(raw, DeviceOf[c]),
           m.asked = Intended(raw)
    PROVE  Sound(m)
<1>. SUFFICES ASSUME NEW d \in Conn, VisibleTo(m, DeviceOf[d])
              PROVE  DeviceOf[d] \in m.asked \cup {DeviceOf[m.from]}
  BY DEF Sound, MayShow, Carried, MessageFrame
<1>1. CASE m.to = {}
  BY <1>1, DeviceOfAssumption DEF Acceptable, Intended
<1>2. CASE DeviceOf[d] \in m.to
  <2>1. PICK i \in DOMAIN raw : raw[i] = DeviceOf[d]
    BY <1>2 DEF Recipients
  <2>2. raw # <<>>
    BY <2>1
  <2>. QED
    BY <2>1, <2>2, DeviceOfAssumption DEF Intended, Elements
<1>. QED
  BY <1>1, <1>2 DEF VisibleTo

\* A send adds to the queue of c at most the frame it is given.
LEMMA SendElements ==
    ASSUME TypeOK, NEW c \in Conn, NEW f \in Frame, Send(c, f), NEW d \in Conn,
           NEW i \in DOMAIN queue'[d]
    PROVE  \/ i \in DOMAIN queue[d] /\ queue'[d][i] = queue[d][i]
           \/ d = c /\ queue'[d][i] = f
<1>1. CASE queue' = queue
  BY <1>1
<1>2. CASE queue' = [queue EXCEPT ![c] = Append(@, f)]
  <2>1. queue[d] \in Seq(Frame) /\ queue'[d] = IF d = c THEN Append(queue[c], f) ELSE queue[d]
    BY <1>2 DEF TypeOK
  <2>2. CASE d # c
    BY <2>1, <2>2
  <2>3. CASE d = c
    BY <2>1, <2>3, AppendProperties
  <2>. QED
    BY <2>2, <2>3
<1>. QED
  BY <1>1, <1>2 DEF Send

LEMMA SendPrivate ==
    ASSUME TypeOK, IntentPrivacy, NEW c \in Conn, NEW f \in Frame, Send(c, f),
           MayShow(c, f), slow' \subseteq slow
    PROVE  IntentPrivacy'
<1>1. \A d \in Conn : \A i \in DOMAIN queue'[d] : MayShow(d, queue'[d][i])
  BY SendElements DEF IntentPrivacy
<1>. QED
  BY <1>1 DEF IntentPrivacy

\* Steps that change no queue, no deliverSlow, no history and no audience, and
\* leave a body alone or set it to a frame that is fit for where the task goes.
LEMMA HoldPrivate ==
    ASSUME TypeOK, PrivacyInv, NEW t \in Task, NEW b \in Body, NEW l \in Places,
           pc' = [pc EXCEPT ![t] = l], body' = [body EXCEPT ![t] = b],
           todo[t] = {}, UNCHANGED <<history, queue, slow, todo>>,
           b.kind = "message" => Sound(b.msg),
           l \in {"deliver", "delivering"} => b.kind \in {"presence", "message"},
           l = "history" => \A c \in Conn : t = Main(c) => MayShow(c, b)
    PROVE  PrivacyInv'
<1>1. \A u \in Task : /\ body'[u] = IF u = t THEN b ELSE body[u]
                      /\ pc'[u] = IF u = t THEN l ELSE pc[u]
  BY DEF TypeOK
<1>2. IntentPrivacy'
  BY DEF PrivacyInv, IntentPrivacy
<1>3. \A c \in Conn : pc'[Main(c)] = "history" => MayShow(c, body'[Main(c)])
  BY <1>1, TaskFacts DEF PrivacyInv
<1>4. \A u \in Task :
         /\ body'[u].kind = "message" => Sound(body'[u].msg)
         /\ pc'[u] \in {"deliver", "delivering"} => body'[u].kind \in {"presence", "message"}
         /\ \A c \in todo'[u] : MayShow(c, body'[u])
  BY <1>1 DEF PrivacyInv
<1>. QED
  BY <1>2, <1>3, <1>4 DEF PrivacyInv

\* Frames without messages may be shown to anyone.
LEMMA EmptyFrames ==
    /\ \A c \in Conn : MayShow(c, WelcomeFrame)
    /\ \A c \in Conn, f \in Frame : f.kind \in {"welcome", "presence"} => MayShow(c, f)
BY FrameFacts DEF MayShow, Carried, WelcomeFrame

LEMMA RegisterPrivate ==
    ASSUME TypeOK, LockInv, PrivacyInv, NEW c \in Conn, Register(c) \/ RegisterStep(c)
    PROVE  PrivacyInv'
<1>. USE TaskFacts, FrameFacts
<1>1. pc[Main(c)] # "delivering" => todo[Main(c)] = {}
  BY DEF LockInv
<1>2. CASE Register(c)
  <2>1. \A u \in Task : pc'[u] = IF u = Main(c) THEN "welcome" ELSE pc[u]
    BY <1>2 DEF Register, Goto, TypeOK
  <2>. QED
    BY <1>2, <2>1 DEF Register, PrivacyInv, IntentPrivacy
<1>3. CASE SendWelcome(c)
  <2>1. IntentPrivacy'
    BY <1>3, SendPrivate, EmptyFrames DEF SendWelcome, EnqueueJSON, PrivacyInv, IntentPrivacy
  <2>2. \A u \in Task : pc'[u] = IF u = Main(c) THEN "cutoff" ELSE pc[u]
    BY <1>3 DEF SendWelcome, Goto, TypeOK
  <2>. QED
    BY <1>3, <2>1, <2>2 DEF SendWelcome, PrivacyInv
<1>4. CASE ReadCutoff(c)
  <2>1. Cutoff(now) \in Body /\ Cutoff(now).kind = "cutoff"
    BY DEF Cutoff, Body, TypeOK
  <2>. QED
    BY <1>1, <1>4, <2>1, HoldPrivate DEF ReadCutoff, Hold, Goto, Places
<1>5. CASE Snapshot(c)
  <2>. DEFINE found == {m \in history : /\ Fresh(m, body[Main(c)].at)
                                        /\ VisibleTo(m, DeviceOf[c])}
  <2>1. HistoryFrame(found) \in Body /\ HistoryFrame(found).kind = "history"
    BY DEF TypeOK, HistoryFrame
  <2>2. MayShow(c, HistoryFrame(found))
    BY DEF PrivacyInv, Sound, MayShow, Carried, HistoryFrame, MessageFrame
  <2>3. \A d \in Conn : Main(c) = Main(d) => d = c
    BY DEF Main
  <2>4. /\ pc[Main(c)] = "snapshot"
        /\ UNCHANGED <<history, queue, slow, todo>>
    BY <1>5 DEF Snapshot
  <2>5. CASE found = {}
    BY <1>1, <1>5, <2>4, <2>5, HoldPrivate DEF Snapshot, Hold, Goto, Nothing, Places
  <2>6. CASE found # {}
    <3>1. Hold(Main(c), HistoryFrame(found)) /\ Goto(Main(c), "history")
      BY <1>5, <2>6 DEF Snapshot
    <3>. HIDE DEF found
    <3>. QED
      BY <1>1, <2>1, <2>2, <2>3, <2>4, <3>1, HoldPrivate DEF Hold, Goto, Places
  <2>. QED
    BY <2>5, <2>6
<1>6. CASE SendHistory(c)
  <2>1. body[Main(c)] \in Frame /\ MayShow(c, body[Main(c)])
    BY <1>6 DEF SendHistory, TypeOK, PrivacyInv
  <2>2. IntentPrivacy'
    BY <1>6, <2>1, SendPrivate DEF SendHistory, EnqueueJSON, PrivacyInv, IntentPrivacy
  <2>3. \A u \in Task : /\ pc'[u] = IF u = Main(c) THEN "devices" ELSE pc[u]
                        /\ body'[u] = IF u = Main(c) THEN Nothing ELSE body[u]
    BY <1>6 DEF SendHistory, Goto, Hold, TypeOK
  <2>4. pc[Main(c)] = "history" /\ UNCHANGED <<history, todo>>
    BY <1>6 DEF SendHistory
  <2>. QED
    BY <1>1, <2>2, <2>3, <2>4 DEF PrivacyInv, Nothing
<1>. QED
  BY <1>2, <1>3, <1>4, <1>5, <1>6 DEF RegisterStep

LEMMA ReadPrivate ==
    ASSUME TypeOK, LockInv, PrivacyInv, NEW c \in Conn,
           ReadMessage(c) \/ Store(c) \/ ReadFails(c) \/ ProtocolError(c)
    PROVE  PrivacyInv'
<1>. USE TaskFacts, FrameFacts
<1>1. pc[Main(c)] # "delivering" => todo[Main(c)] = {}
  BY DEF LockInv
<1>2. CASE ReadMessage(c)
  <2>1. PICK raw \in RawLists :
          /\ Acceptable(raw, DeviceOf[c])
          /\ Hold(Main(c), MessageFrame(
               [from |-> c, n |-> sent[c], to |-> Recipients(raw, DeviceOf[c]),
                named |-> Recipients(raw, DeviceOf[c]) \cap known, ts |-> now,
                asked |-> Intended(raw)]))
    BY <1>2 DEF ReadMessage
  <2>. DEFINE m == [from |-> c, n |-> sent[c], to |-> Recipients(raw, DeviceOf[c]),
                    named |-> Recipients(raw, DeviceOf[c]) \cap known, ts |-> now,
                    asked |-> Intended(raw)]
  <2>2. Sound(m)
    BY <2>1, SanitizeSound
  <2>3. m \in Message
    BY RecipientsType DEF TypeOK, Message, Intended
  <2>. HIDE DEF m
  <2>4. /\ MessageFrame(m) \in Body /\ MessageFrame(m).kind = "message"
        /\ MessageFrame(m).msg = m
    BY <2>3 DEF MessageFrame
  <2>5. /\ pc[Main(c)] = "read" /\ Goto(Main(c), "store")
        /\ UNCHANGED <<history, queue, slow, todo>>
    BY <1>2 DEF ReadMessage
  <2>6. Hold(Main(c), MessageFrame(m))
    BY <2>1 DEF m
  <2>. QED
    BY <1>1, <2>2, <2>4, <2>5, <2>6, HoldPrivate DEF Hold, Goto, Places
<1>3. CASE Store(c)
  <2>1. Sound(body[Main(c)].msg) /\ body[Main(c)].kind = "message"
    BY <1>3 DEF Store, TypeOK, PrivacyInv
  <2>2. \A m \in history' : Sound(m)
    BY <1>3, <2>1 DEF Store, PrivacyInv
  <2>3. \A u \in Task : pc'[u] = IF u = Main(c) THEN "deliver" ELSE pc[u]
    BY <1>3 DEF Store, Goto, TypeOK
  <2>4. UNCHANGED <<body, todo, queue, slow>>
    BY <1>3 DEF Store
  <2>. QED
    BY <2>1, <2>2, <2>3, <2>4 DEF PrivacyInv, IntentPrivacy
<1>4. CASE ReadFails(c) \/ ProtocolError(c)
  <2>1. \A u \in Task : pc'[u] = IF u = Main(c) THEN "unregister" ELSE pc[u]
    BY <1>4 DEF ReadFails, ProtocolError, Goto, TypeOK
  <2>2. UNCHANGED <<history, body, todo, queue, slow>>
    BY <1>4 DEF ReadFails, ProtocolError
  <2>. QED
    BY <2>1, <2>2 DEF PrivacyInv, IntentPrivacy
<1>. QED
  BY <1>2, <1>3, <1>4

LEMMA DeliverPrivate ==
    ASSUME TypeOK, LockInv, PrivacyInv, NEW t \in Task, DeliverStep(t)
    PROVE  PrivacyInv'
<1>. USE TaskFacts, FrameFacts
<1>1. pc[t] # "delivering" => todo[t] = {}
  BY DEF LockInv
<1>2. CASE ListDevices(t)
  <2>1. PresenceFrame(t, OnlineDevices) \in Body
    BY DeviceOfAssumption DEF TypeOK, OnlineDevices
  <2>2. PresenceFrame(t, OnlineDevices).kind = "presence"
    BY DEF PresenceFrame
  <2>3. /\ body' = [body EXCEPT ![t] = PresenceFrame(t, OnlineDevices)]
        /\ pc' = [pc EXCEPT ![t] = "deliver"] /\ pc[t] = "devices"
        /\ UNCHANGED <<history, queue, todo, slow>>
    BY <1>2 DEF ListDevices, Hold, Goto
  <2>4. todo[t] = {} /\ "deliver" \in Places
    BY <1>1, <2>3 DEF Places
  <2>. HIDE DEF PresenceFrame
  <2>. QED
    BY <2>1, <2>2, <2>3, <2>4, HoldPrivate DEF Hold, Goto
<1>3. CASE BeginDeliver(t)
  <2>1. body[t].kind \in {"presence", "message"} /\ body[t] \in Frame
    BY <1>3 DEF BeginDeliver, PrivacyInv, TypeOK
  <2>2. \A c \in Audience(body[t]) : MayShow(c, body[t])
    <3>1. CASE body[t].kind = "presence"
      BY <2>1, <3>1, EmptyFrames DEF Audience, TypeOK
    <3>2. CASE body[t].kind = "message"
      <4>1. body[t].msg \in Message /\ Sound(body[t].msg)
        BY <2>1, <3>2 DEF PrivacyInv
      <4>2. \A c \in Audience(body[t]) : c \in Conn /\ VisibleTo(body[t].msg, DeviceOf[c])
        BY <3>2 DEF Audience, TypeOK
      <4>3. /\ Carried(body[t]) = {body[t].msg}
            /\ Carried(MessageFrame(body[t].msg)) = {body[t].msg}
        BY <3>2 DEF Carried, MessageFrame
      <4>4. \A c \in Audience(body[t]) : MayShow(c, MessageFrame(body[t].msg))
        BY <4>1, <4>2 DEF Sound
      <4>. QED
        BY <4>3, <4>4 DEF MayShow
    <3>. QED
      BY <2>1, <3>1, <3>2
  <2>3. \A u \in Task : /\ pc'[u] = IF u = t THEN "delivering" ELSE pc[u]
                        /\ todo'[u] = IF u = t THEN Audience(body[t]) ELSE todo[u]
    BY <1>3 DEF BeginDeliver, Goto, TypeOK
  <2>4. UNCHANGED <<history, body, queue, slow>>
    BY <1>3 DEF BeginDeliver
  <2>. QED
    BY <2>1, <2>2, <2>3, <2>4 DEF PrivacyInv, IntentPrivacy
<1>4. ASSUME NEW c \in todo[t], DeliverTo(t, c) PROVE PrivacyInv'
  <2>1. c \in Conn /\ body[t] \in Frame /\ MayShow(c, body[t])
    BY <1>4 DEF DeliverTo, TypeOK, PrivacyInv
  <2>2. ASSUME Send(c, body[t]), slow' = slow PROVE IntentPrivacy'
    BY <2>1, <2>2, SendPrivate DEF PrivacyInv
  <2>3. ASSUME slow' = slow \cup {Slow(c, body[t], "retry")}, UNCHANGED queue
        PROVE  IntentPrivacy'
    BY <2>1, <2>3 DEF PrivacyInv, IntentPrivacy, Slow
  <2>4. IntentPrivacy'
    BY <1>4, <2>2, <2>3 DEF DeliverTo
  <2>5. \A u \in Task : todo'[u] \subseteq todo[u]
    BY <1>4 DEF DeliverTo, TypeOK
  <2>6. UNCHANGED <<history, pc, body>>
    BY <1>4 DEF DeliverTo
  <2>. QED
    BY <2>4, <2>5, <2>6 DEF PrivacyInv
<1>5. CASE EndDeliver(t)
  <2>1. PICK l \in {"read", "done"} : Goto(t, l)
    BY <1>5 DEF EndDeliver
  <2>. QED
    BY <1>5, <2>1, HoldPrivate DEF EndDeliver, Hold, Goto, Nothing, Places
<1>. QED
  BY <1>2, <1>3, <1>4, <1>5 DEF DeliverStep

\* Unregister's locked section moves no frame.
LEMMA RemovePrivate ==
    ASSUME TypeOK, PrivacyInv, NEW c \in Conn,
           \/ pc' = AfterRemove(c, [pc EXCEPT ![Main(c)] = "done"])
           \/ pc' = AfterRemove(c, pc),
           UNCHANGED <<history, queue, body, todo>>, slow' \subseteq slow
    PROVE  PrivacyInv'
<1>1. \A t \in Task : pc'[t] \in {"deliver", "delivering", "history"} => pc'[t] = pc[t]
  BY TaskFacts DEF TypeOK, AfterRemove
<1>. QED
  BY <1>1, TaskFacts DEF PrivacyInv, IntentPrivacy

LEMMA SlowPrivate ==
    ASSUME TypeOK, LockInv, PrivacyInv, NEW s \in slow, SlowStep(s)
    PROVE  PrivacyInv'
<1>1. s.conn \in Conn /\ s.frame \in Frame /\ MayShow(s.conn, s.frame)
  BY DEF TypeOK, PrivacyInv, IntentPrivacy
<1>2. CASE Retry(s)
  <2>1. IntentPrivacy'
    BY <1>1, <1>2, SendPrivate DEF Retry, PrivacyInv, IntentPrivacy
  <2>. QED
    BY <1>2, <2>1 DEF Retry, PrivacyInv
<1>3. ASSUME NEW l, Move(s, l), UNCHANGED <<history, queue, pc, body, todo>>
      PROVE  PrivacyInv'
  <2>1. [s EXCEPT !.at = l].conn = s.conn /\ [s EXCEPT !.at = l].frame = s.frame
    BY DEF TypeOK
  <2>2. \A r \in slow' : MayShow(r.conn, r.frame)
    BY <1>1, <1>3, <2>1 DEF Move, PrivacyInv, IntentPrivacy
  <2>. QED
    BY <1>3, <2>2 DEF PrivacyInv, IntentPrivacy
<1>4. CASE Expire(s)
  BY <1>3, <1>4 DEF Expire
<1>5. CASE StillThere(s)
  <2>1. CASE slow' = slow \ {s}
    BY <1>5, <2>1 DEF StillThere, PrivacyInv, IntentPrivacy
  <2>. QED
    BY <1>3, <1>5, <2>1 DEF StillThere
<1>6. CASE Disconnect(s)
  BY <1>1, <1>6, RemovePrivate DEF Disconnect
<1>. QED
  BY <1>2, <1>4, <1>5, <1>6 DEF SlowStep

LEMMA WritePrivate ==
    ASSUME TypeOK, PrivacyInv, NEW c \in Conn, WriteStep(c)
    PROVE  PrivacyInv'
<1>1. CASE UNCHANGED queue
  BY <1>1 DEF WriteStep, WriteFrame, WriteLost, WriteFails, WriteClose, WriterEnds,
              PrivacyInv, IntentPrivacy
<1>2. ASSUME queue[c] # <<>>, queue' = [queue EXCEPT ![c] = Tail(@)],
             UNCHANGED <<history, slow, pc, body, todo>>
      PROVE  PrivacyInv'
  <2>1. \A i \in DOMAIN Tail(queue[c]) :
           i + 1 \in DOMAIN queue[c] /\ Tail(queue[c])[i] = queue[c][i + 1]
    BY <1>2, HeadTailProperties DEF TypeOK
  <2>2. \A d \in Conn : queue'[d] = IF d = c THEN Tail(queue[c]) ELSE queue[d]
    BY <1>2 DEF TypeOK
  <2>3. \A d \in Conn : \A i \in DOMAIN queue'[d] : MayShow(d, queue'[d][i])
    BY <2>1, <2>2 DEF PrivacyInv, IntentPrivacy
  <2>. QED
    BY <1>2, <2>3 DEF PrivacyInv, IntentPrivacy
<1>. QED
  BY <1>1, <1>2 DEF WriteStep, WriteFrame, WriteLost, WriteFails, WriteClose, WriterEnds

\* A directed message is never queued for, retried to or replayed to a device
\* that its sender did not name and that is not the sender's own, whatever the
\* lists clients send and however deliveries, joins and departures interleave.
THEOREM Private == Spec => [](IntentPrivacy /\ PrivacyInv)
<1>1. Init => PrivacyInv
  BY TaskFacts DEF Init, PrivacyInv, IntentPrivacy, Nothing
<1>2. TypeOK /\ LockInv /\ PrivacyInv /\ [Next]_vars => PrivacyInv'
  <2>. SUFFICES ASSUME TypeOK, LockInv, PrivacyInv, [Next]_vars PROVE PrivacyInv'
    OBVIOUS
  <2>1. ASSUME NEW c \in Conn, EnvStep(c) \/ ConnStep(c) PROVE PrivacyInv'
    <3>1. CASE LinkDown(c)
      BY <3>1 DEF LinkDown, PrivacyInv, IntentPrivacy
    <3>2. CASE ReadPumpExit(c)
      BY <3>2, RemovePrivate DEF ReadPumpExit
    <3>. QED
      BY <2>1, <3>1, <3>2, RegisterPrivate, ReadPrivate DEF EnvStep, ConnStep
  <2>2. ASSUME NEW c \in Conn, WriteStep(c) PROVE PrivacyInv'
    BY <2>2, WritePrivate
  <2>3. ASSUME NEW t \in Task, DeliverStep(t) PROVE PrivacyInv'
    BY <2>3, DeliverPrivate
  <2>4. ASSUME NEW s \in slow, SlowStep(s) PROVE PrivacyInv'
    BY <2>4, SlowPrivate
  <2>5. CASE Tick \/ UNCHANGED vars
    BY <2>5 DEF Tick, PrivacyInv, IntentPrivacy
  <2>. QED
    BY <2>1, <2>2, <2>3, <2>4, <2>5 DEF Next, Work
<1>3. PrivacyInv => IntentPrivacy
  BY DEF PrivacyInv
<1>. QED
  BY <1>1, <1>2, <1>3, TypeCorrect, PanicFree, PTL DEF Spec

\* Wherever the hub keeps a message, in its history, with a handler or on its way, the
\* recipients it has are among those its sender named.
THEOREM RecipientsSound == Spec => []PrivacyInv
BY Private, PTL

---------------------------------------------------------------------------
(* No connection is left half dead *)

\* The life of connection c: whoever has left h.clients is closed, or its departure is
\* still being announced, and only then closed; a handler that reads has a writer, and
\* a writer that has ended has closed the socket.
Alive(c) ==
    /\ pc[Main(c)] = "done" => c \notin clients
    /\ pc[Main(c)] = "idle" => writer[c] = "off"
    /\ pc[Main(c)] \in {"read", "store", "unregister", "done"} => writer[c] # "off"
    /\ writer[c] = "done" => c \in shut
    /\ c \notin clients /\ pc[Main(c)] # "idle" =>
          c \in shut \/ pc[Leave(c)] \in {"devices", "deliver", "delivering"}

LifeInv == \A c \in Conn : Alive(c)

\* A step that leaves c and its goroutines as they are.
LEMMA AliveStays ==
    ASSUME NEW c, Alive(c), pc'[Main(c)] = pc[Main(c)], pc'[Leave(c)] = pc[Leave(c)],
           writer'[c] = writer[c], c \in clients' <=> c \in clients,
           c \in shut => c \in shut'
    PROVE  Alive(c)'
BY DEF Alive

\* The handler of c goes on without anything else.
LEMMA AliveGoes ==
    ASSUME TypeOK, LifeInv, NEW c \in Conn, NEW l, Goto(Main(c), l), pc[Main(c)] # "idle",
           l \notin {"idle", "done"},
           l \in {"read", "store", "unregister"} => pc[Main(c)] \in {"read", "store"},
           UNCHANGED <<clients, writer, shut>>
    PROVE  LifeInv'
<1>. SUFFICES ASSUME NEW d \in Conn PROVE Alive(d)'
  BY DEF LifeInv
<1>1. \A t \in Task : pc'[t] = IF t = Main(c) THEN l ELSE pc[t]
  BY DEF Goto, TypeOK
<1>2. pc'[Leave(d)] = pc[Leave(d)]
  BY <1>1, TaskFacts DEF Main, Leave
<1>3. CASE d # c
  <2>1. pc'[Main(d)] = pc[Main(d)]
    BY <1>1, <1>3, TaskFacts DEF Main
  <2>. QED
    BY <1>2, <2>1, AliveStays DEF LifeInv
<1>4. CASE d = c
  <2>1. Alive(c) /\ pc'[Main(c)] = l
    BY <1>1, TaskFacts DEF LifeInv
  <2>. QED
    BY <1>2, <1>4, <2>1 DEF Alive
<1>. QED
  BY <1>3, <1>4

\* Unregister: from ReadPump, after which the handler is done, or from deliverSlow.
LEMMA RemoveAlive ==
    ASSUME TypeOK, LifeInv, NEW c \in Conn, Remove(c),
           NEW l \in [Task -> Places],
           \/ l = pc
           \/ l = [pc EXCEPT ![Main(c)] = "done"] /\ pc[Main(c)] = "unregister",
           pc' = AfterRemove(c, l), UNCHANGED writer
    PROVE  LifeInv'
<1>. SUFFICES ASSUME NEW d \in Conn PROVE Alive(d)'
  BY DEF LifeInv
<1>1. Alive(d) /\ Alive(c)
  BY DEF LifeInv
<1>2. CASE d # c
  <2>1. l[Main(d)] = pc[Main(d)] /\ l[Leave(d)] = pc[Leave(d)]
    BY <1>2, TaskFacts DEF Main, Leave, TypeOK
  <2>2. pc'[Main(d)] = l[Main(d)] /\ pc'[Leave(d)] = l[Leave(d)]
    BY <1>2, TaskFacts DEF AfterRemove, Main, Leave
  <2>3. (d \in clients' <=> d \in clients) /\ (d \in shut => d \in shut')
    BY <1>2 DEF Remove
  <2>. QED
    BY <1>1, <2>1, <2>2, <2>3, AliveStays
<1>3. CASE d = c
  <2>1. \/ l[Main(c)] = pc[Main(c)]
        \/ l[Main(c)] = "done" /\ pc[Main(c)] = "unregister"
    BY TaskFacts DEF TypeOK
  <2>2. l[Leave(c)] = pc[Leave(c)]
    BY TaskFacts DEF TypeOK
  <2>3. pc'[Main(c)] = l[Main(c)]
    BY TaskFacts DEF AfterRemove
  <2>4. c \notin clients' /\ shut \subseteq shut'
    BY DEF Remove
  <2>5. c \in shut' \/ pc'[Leave(c)] = "devices"
    BY TaskFacts DEF Remove, AfterRemove
  <2>. QED
    BY <1>1, <1>3, <2>1, <2>3, <2>4, <2>5 DEF Alive
<1>. QED
  BY <1>2, <1>3

LEMMA ConnAlive ==
    ASSUME TypeOK, LifeInv, NEW c \in Conn, EnvStep(c) \/ ConnStep(c)
    PROVE  LifeInv'
<1>1. CASE Register(c)
  <2>. SUFFICES ASSUME NEW d \in Conn PROVE Alive(d)'
    BY DEF LifeInv
  <2>1. /\ pc[Main(c)] = "idle" /\ clients' = clients \cup {c}
        /\ pc' = [pc EXCEPT ![Main(c)] = "welcome"] /\ UNCHANGED <<writer, shut>>
    BY <1>1 DEF Register, Goto
  <2>2. CASE d # c
    <3>1. pc'[Main(d)] = pc[Main(d)] /\ pc'[Leave(d)] = pc[Leave(d)]
      BY <2>1, <2>2, TaskFacts DEF Main, Leave, TypeOK
    <3>. QED
      BY <2>1, <2>2, <3>1, AliveStays DEF LifeInv
  <2>3. CASE d = c
    <3>1. pc'[Main(c)] = "welcome" /\ c \in clients'
      BY <2>1, TaskFacts DEF TypeOK
    <3>. QED
      BY <2>1, <2>3, <3>1 DEF Alive, LifeInv
  <2>. QED
    BY <2>2, <2>3
<1>2. CASE RegisterStep(c)
  <2>1. /\ pc[Main(c)] \in {"welcome", "cutoff", "snapshot", "history"}
        /\ UNCHANGED <<clients, writer, shut>>
        /\ \E l \in {"cutoff", "snapshot", "history", "devices"} : Goto(Main(c), l)
    BY <1>2 DEF RegisterStep, SendWelcome, ReadCutoff, Snapshot, SendHistory
  <2>. QED
    BY <2>1, AliveGoes
<1>3. CASE ReadMessage(c) \/ Store(c)
  <2>1. /\ pc[Main(c)] \in {"read", "store"} /\ UNCHANGED <<clients, writer, shut>>
        /\ \E l \in {"store", "deliver"} : Goto(Main(c), l)
    BY <1>3 DEF ReadMessage, Store
  <2>. QED
    BY <2>1, AliveGoes
<1>4. CASE ReadFails(c) \/ ProtocolError(c)
  <2>1. /\ pc[Main(c)] = "read" /\ UNCHANGED <<clients, writer, shut>>
        /\ Goto(Main(c), "unregister")
    BY <1>4 DEF ReadFails, ProtocolError
  <2>. QED
    BY <2>1, AliveGoes
<1>5. CASE ReadPumpExit(c)
  <2>. DEFINE l == [pc EXCEPT ![Main(c)] = "done"]
  <2>1. pc[Main(c)] = "unregister" /\ Remove(c) /\ pc' = AfterRemove(c, l) /\ UNCHANGED writer
    BY <1>5 DEF ReadPumpExit
  <2>2. l \in [Task -> Places]
    BY DEF TypeOK, Places
  <2>. QED
    BY <2>1, <2>2, RemoveAlive
<1>6. CASE LinkDown(c)
  BY <1>6, AliveStays DEF LinkDown, LifeInv
<1>. QED
  BY <1>1, <1>2, <1>3, <1>4, <1>5, <1>6 DEF EnvStep, ConnStep

LEMMA DeliverAlive ==
    ASSUME TypeOK, LifeInv, NEW t \in Task, DeliverStep(t)
    PROVE  LifeInv'
<1>. DEFINE Busy == {"devices", "deliver", "delivering"}
<1>1. CASE \/ ListDevices(t) \/ BeginDeliver(t)
           \/ \E d \in todo[t] : DeliverTo(t, d)
  <2>1. /\ pc[t] \in Busy /\ UNCHANGED <<clients, writer, shut>>
        /\ pc' = pc \/ \E l \in Busy : pc' = [pc EXCEPT ![t] = l]
    BY <1>1 DEF ListDevices, BeginDeliver, DeliverTo, Goto
  <2>2. \A u \in Task : pc'[u] = pc[u] \/ (pc[u] \in Busy /\ pc'[u] \in Busy)
    BY <2>1 DEF TypeOK
  <2>. SUFFICES ASSUME NEW d \in Conn PROVE Alive(d)'
    BY DEF LifeInv
  <2>3. /\ pc'[Main(d)] = pc[Main(d)] \/ (pc[Main(d)] \in Busy /\ pc'[Main(d)] \in Busy)
        /\ pc'[Leave(d)] = pc[Leave(d)] \/ (pc[Leave(d)] \in Busy /\ pc'[Leave(d)] \in Busy)
    BY <2>2, TaskFacts
  <2>. QED
    BY <2>1, <2>3 DEF LifeInv, Alive
<1>2. CASE EndDeliver(t)
  <2>. SUFFICES ASSUME NEW d \in Conn PROVE Alive(d)'
    BY DEF LifeInv
  <2>1. PICK c \in Conn :
          /\ pc[t] = "delivering" /\ UNCHANGED clients
          /\ \/ /\ t = Main(c) /\ shut' = shut
                /\ pc' = [pc EXCEPT ![t] = "read"]
                /\ writer' = [writer EXCEPT ![c] = IF @ = "off" THEN "run" ELSE @]
             \/ /\ t = Leave(c) /\ shut' = shut \cup {c} /\ writer' = writer
                /\ pc' = [pc EXCEPT ![t] = "done"]
    BY <1>2, TaskFacts DEF EndDeliver, Goto
  <2>2. Alive(d) /\ Alive(c)
    BY DEF LifeInv
  <2>3. CASE d # c
    <3>1. Main(d) \in Task \ {t} /\ Leave(d) \in Task \ {t}
      BY <2>1, <2>3, TaskFacts DEF Main, Leave
    <3>2. pc'[Main(d)] = pc[Main(d)] /\ pc'[Leave(d)] = pc[Leave(d)]
      BY <2>1, <3>1 DEF TypeOK
    <3>3. writer'[d] = writer[d] /\ (d \in shut => d \in shut')
      BY <2>1, <2>3 DEF TypeOK
    <3>. QED
      BY <2>1, <2>2, <3>2, <3>3, AliveStays
  <2>4. CASE d = c /\ t = Main(c)
    <3>1. Main(c) \in Task /\ Leave(c) \in Task /\ Main(c) # Leave(c)
      BY TaskFacts
    <3>2. /\ UNCHANGED <<clients, shut>>
          /\ pc' = [pc EXCEPT ![Main(c)] = "read"]
          /\ writer' = [writer EXCEPT ![c] = IF @ = "off" THEN "run" ELSE @]
      BY <2>1, <2>4, <3>1
    <3>3. /\ pc[Main(c)] = "delivering" /\ pc'[Main(c)] = "read"
          /\ pc'[Leave(c)] = pc[Leave(c)]
      BY <2>1, <2>4, <3>1, <3>2 DEF TypeOK
    <3>4. writer'[c] # "off" /\ (writer'[c] = "done" => writer[c] = "done")
      BY <3>2 DEF TypeOK
    <3>. QED
      BY <2>2, <2>4, <3>2, <3>3, <3>4 DEF Alive
  <2>5. CASE d = c /\ t = Leave(c)
    <3>1. Main(c) \in Task /\ Leave(c) \in Task /\ Main(c) # Leave(c)
      BY TaskFacts
    <3>2. UNCHANGED <<clients, writer>> /\ c \in shut' /\ pc' = [pc EXCEPT ![Leave(c)] = "done"]
      BY <2>1, <2>5, <3>1
    <3>3. pc'[Main(c)] = pc[Main(c)]
      BY <3>1, <3>2 DEF TypeOK
    <3>. QED
      BY <2>2, <2>5, <3>2, <3>3 DEF Alive
  <2>. QED
    BY <2>1, <2>3, <2>4, <2>5
<1>. QED
  BY <1>1, <1>2 DEF DeliverStep

LEMMA SlowAlive ==
    ASSUME TypeOK, LifeInv, NEW s \in slow, SlowStep(s)
    PROVE  LifeInv'
<1>1. CASE Retry(s) \/ Expire(s) \/ StillThere(s)
  <2>1. UNCHANGED <<clients, pc, writer, shut>>
    BY <1>1 DEF Retry, Expire, StillThere
  <2>. QED
    BY <2>1, AliveStays DEF LifeInv
<1>2. CASE Disconnect(s)
  <2>1. Remove(s.conn) /\ pc' = AfterRemove(s.conn, pc) /\ UNCHANGED writer
    BY <1>2 DEF Disconnect
  <2>2. s.conn \in Conn /\ pc \in [Task -> Places]
    BY DEF TypeOK
  <2>. QED
    BY <2>1, <2>2, RemoveAlive
<1>. QED
  BY <1>1, <1>2 DEF SlowStep

LEMMA WriteAlive ==
    ASSUME TypeOK, LifeInv, NEW c \in Conn, WriteStep(c)
    PROVE  LifeInv'
<1>1. CASE WriteFrame(c) \/ WriteLost(c)
  <2>1. UNCHANGED <<clients, pc, writer, shut>>
    BY <1>1 DEF WriteFrame, WriteLost
  <2>. QED
    BY <2>1, AliveStays DEF LifeInv
<1>2. CASE WriteFails(c) \/ WriteClose(c)
  <2>. SUFFICES ASSUME NEW d \in Conn PROVE Alive(d)'
    BY DEF LifeInv
  <2>1. /\ writer[c] = "run" /\ writer' = [writer EXCEPT ![c] = "done"]
        /\ shut' = shut \cup {c} /\ UNCHANGED <<clients, pc>>
    BY <1>2 DEF WriteFails, WriteClose, WriterEnds
  <2>2. CASE d # c
    <3>1. writer'[d] = writer[d]
      BY <2>1, <2>2 DEF TypeOK
    <3>. QED
      BY <2>1, <3>1, AliveStays DEF LifeInv
  <2>3. CASE d = c
    <3>1. writer'[c] = "done" /\ c \in shut'
      BY <2>1 DEF TypeOK
    <3>. QED
      BY <2>1, <2>3, <3>1 DEF LifeInv, Alive
  <2>. QED
    BY <2>2, <2>3
<1>. QED
  BY <1>1, <1>2 DEF WriteStep

\* Why nothing is left behind.
LEMMA AliveRests ==
    ASSUME TypeOK, LockInv, LifeInv, Resting, NEW c \in Conn
    PROVE  Whole(c) \/ Gone(c)
<1>1. /\ pc[Main(c)] \in {"idle", "read", "done"}
      /\ pc[Leave(c)] \notin {"devices", "deliver", "delivering"}
      /\ writer[c] \in {"off", "run", "done"} /\ Alive(c)
  BY TaskFacts DEF Resting, LifeInv, TypeOK
<1>2. CASE c \in clients
  <2>1. pc[Main(c)] = "read"
    BY <1>1, <1>2 DEF LockInv, Alive
  <2>2. link[c] = "up" /\ c \notin shut
    BY <2>1 DEF Resting
  <2>3. writer[c] = "run"
    BY <1>1, <2>1, <2>2 DEF Alive
  <2>4. queue[c] = <<>>
    BY <2>3 DEF Resting
  <2>. QED
    BY <1>2, <2>1, <2>2, <2>3, <2>4 DEF Whole
<1>3. CASE c \notin clients
  <2>1. pc[Main(c)] # "idle" => c \in shut
    BY <1>1, <1>3 DEF Alive
  <2>2. pc[Main(c)] \in {"idle", "done"}
    BY <1>1, <2>1 DEF Resting
  <2>3. writer[c] # "run"
    BY <1>1, <2>1 DEF Resting, Alive
  <2>4. \A s \in slow : s.conn # c
    BY <1>3 DEF Resting
  <2>. QED
    BY <1>1, <1>3, <2>2, <2>3, <2>4 DEF Gone
<1>. QED
  BY <1>2, <1>3

\* When every goroutine waits, each connection is a whole member or wholly gone: with
\* whatever failed first, the socket, the link, the writer or the retries of
\* deliverSlow, the departure has been carried through (Unregister, ReadPump, WritePump).
THEOREM NothingHalfDead == Spec => []NoneHalfDead
<1>1. Init => LifeInv
  BY TaskFacts DEF Init, LifeInv, Alive
<1>2. TypeOK /\ LifeInv /\ [Next]_vars => LifeInv'
  <2>. SUFFICES ASSUME TypeOK, LifeInv, [Next]_vars PROVE LifeInv'
    OBVIOUS
  <2>1. ASSUME NEW c \in Conn, EnvStep(c) \/ ConnStep(c) PROVE LifeInv'
    BY <2>1, ConnAlive
  <2>2. ASSUME NEW c \in Conn, WriteStep(c) PROVE LifeInv'
    BY <2>2, WriteAlive
  <2>3. ASSUME NEW t \in Task, DeliverStep(t) PROVE LifeInv'
    BY <2>3, DeliverAlive
  <2>4. ASSUME NEW s \in slow, SlowStep(s) PROVE LifeInv'
    BY <2>4, SlowAlive
  <2>5. CASE Tick \/ UNCHANGED vars
    <3>1. UNCHANGED <<clients, pc, writer, shut>>
      BY <2>5 DEF Tick
    <3>. QED
      BY <3>1, AliveStays DEF LifeInv
  <2>. QED
    BY <2>1, <2>2, <2>3, <2>4, <2>5 DEF Next, Work
<1>3. TypeOK /\ LockInv /\ LifeInv => NoneHalfDead
  BY AliveRests DEF NoneHalfDead
<1>. QED
  BY <1>1, <1>2, <1>3, TypeCorrect, PanicFree, PTL DEF Spec
=============================================================================
