---------------------------- MODULE HubDeliveryProofs ----------------------------
(***************************************************************************)
(* What the clients of Hub know of who is online, for every value of the   *)
(* constants: whoever changes the membership still has its device list to  *)
(* make and to bring to everyone, so the true list is always on its way.   *)
(***************************************************************************)
EXTENDS HubProofs

USE DEF vars, hubVars, chanVars, taskVars, connVars, rest, Places

---------------------------------------------------------------------------
(* The true device list arrives *)

\* The frame tells who is online now.
Tells(f) == f.kind = "presence" /\ f.users = OnlineDevices

\* Task t has yet to list the devices, or has listed them as they are and has still
\* to come to c.
Announces(t) == pc[t] \in {"welcome", "cutoff", "snapshot", "history", "devices"}
Brings(t, c) == (pc[t] = "deliver" \/ c \in todo[t]) /\ Tells(body[t])

\* Client c has been sent the list that is true, or something leads to it.
Informed(c) ==
    \/ OnlineDevices \in view[c].rosters
    \/ \E i \in DOMAIN queue[c] : Tells(queue[c][i])
    \/ \E s \in slow : s.conn = c /\ Tells(s.frame)
    \/ \E t \in Task : Announces(t) \/ Brings(t, c)

Arriving == \A c \in Conn : Healthy(c) => Informed(c)

\* What was queued for c stays there.
Queued(c) == \A i \in DOMAIN queue[c] : i \in DOMAIN queue'[c] /\ queue'[c][i] = queue[c][i]

LEMMA SendQueued ==
    ASSUME TypeOK, NEW c \in Conn, NEW f \in Frame, Send(c, f), NEW d \in Conn
    PROVE  Queued(d)
<1>1. CASE queue' = queue
  BY <1>1 DEF Queued
<1>2. CASE queue' = [queue EXCEPT ![c] = Append(@, f)]
  <2>1. queue[d] \in Seq(Frame) /\ queue'[d] = IF d = c THEN Append(queue[c], f) ELSE queue[d]
    BY <1>2 DEF TypeOK
  <2>2. CASE d # c
    BY <2>1, <2>2 DEF Queued
  <2>3. CASE d = c
    BY <2>1, <2>3, AppendProperties DEF Queued
  <2>. QED
    BY <2>2, <2>3
<1>. QED
  BY <1>1, <1>2 DEF Send

\* A send to a member whose queue has room puts the frame at its end.
LEMMA SendLast ==
    ASSUME TypeOK, NEW c \in Conn, NEW f \in Frame, Send(c, f), c \notin closed, ~Full(c)
    PROVE  /\ queue'[c] = Append(queue[c], f)
           /\ Len(queue[c]) + 1 \in DOMAIN queue'[c]
           /\ queue'[c][Len(queue[c]) + 1] = f
           /\ \A d \in Conn \ {c} : queue'[d] = queue[d]
<1>1. queue[c] \in Seq(Frame) /\ queue' = [queue EXCEPT ![c] = Append(@, f)]
  BY DEF Send, TypeOK
<1>2. queue'[c] = Append(queue[c], f) /\ \A d \in Conn \ {c} : queue'[d] = queue[d]
  BY <1>1 DEF TypeOK
<1>. QED
  BY <1>1, <1>2, AppendProperties

\* What task t leads to, it still leads to.
LeadsOn(t) ==
    \/ Announces(t)'
    \/ \A c \in clients : Brings(t, c)'
    \/ ~Announces(t) /\ \A c \in clients : Brings(t, c) => Brings(t, c)'

\* Steps that lose nothing: no membership changes, nothing is taken away, and a task
\* that announces or brings the list goes on doing so.
LEMMA InformedStays ==
    ASSUME Arriving, UNCHANGED clients, shut \subseteq shut', slow \subseteq slow',
           \A c \in Conn : /\ link'[c] = "up" => link[c] = "up"
                           /\ Queued(c) /\ view[c].rosters \subseteq view'[c].rosters,
           \A t \in Task : LeadsOn(t)
    PROVE  Arriving'
<1>. SUFFICES ASSUME NEW c \in Conn, Healthy(c)' PROVE Informed(c)'
  BY DEF Arriving
<1>1. Healthy(c) /\ OnlineDevices' = OnlineDevices
  BY DEF Healthy, OnlineDevices
<1>2. \A f : Tells(f)' <=> f.kind = "presence" /\ f.users = OnlineDevices
  BY <1>1 DEF Tells
<1>3. Informed(c)
  BY <1>1 DEF Arriving
<1>4. CASE OnlineDevices \in view[c].rosters
  BY <1>1, <1>4 DEF Informed
<1>5. ASSUME NEW i \in DOMAIN queue[c], Tells(queue[c][i]) PROVE Informed(c)'
  <2>1. i \in DOMAIN queue'[c] /\ queue'[c][i] = queue[c][i]
    BY DEF Queued
  <2>. QED
    BY <1>1, <1>5, <2>1 DEF Informed, Tells
<1>6. ASSUME NEW s \in slow, s.conn = c, Tells(s.frame) PROVE Informed(c)'
  BY <1>1, <1>6 DEF Informed, Tells
<1>7. ASSUME NEW t \in Task, Announces(t) \/ Brings(t, c) PROVE Informed(c)'
  <2>1. c \in clients
    BY <1>1 DEF Healthy
  <2>2. Announces(t)' \/ Brings(t, c)'
    BY <1>7, <2>1 DEF LeadsOn
  <2>. QED
    BY <2>2 DEF Informed
<1>. QED
  BY <1>3, <1>4, <1>5, <1>6, <1>7 DEF Informed

\* A task that will list the devices is enough for everyone.
LEMMA AnnouncedArrives ==
    ASSUME NEW t \in Task, Announces(t)'
    PROVE  Arriving'
BY DEF Arriving, Informed

LEMMA ConnArrives ==
    ASSUME SafeInv, Arriving, NEW c \in Conn, EnvStep(c) \/ ConnStep(c)
    PROVE  Arriving'
<1>. USE TaskFacts DEF SafeInv
<1>1. CASE Register(c) \/ RegisterStep(c)
  <2>1. Announces(Main(c))'
    BY <1>1 DEF Announces, Register, RegisterStep, SendWelcome, ReadCutoff, Snapshot,
                SendHistory, Goto, TypeOK
  <2>. QED
    BY <2>1, AnnouncedArrives
<1>2. CASE ReadMessage(c) \/ Store(c) \/ ReadFails(c) \/ ProtocolError(c)
  <2>1. /\ pc[Main(c)] \in {"read", "store"}
        /\ UNCHANGED <<clients, link, shut, slow, queue, view, todo>>
        /\ \A t \in Task \ {Main(c)} : pc'[t] = pc[t] /\ body'[t] = body[t]
    BY <1>2 DEF ReadMessage, Store, ReadFails, ProtocolError, Goto, Hold, TypeOK
  <2>2. ~Announces(Main(c)) /\ \A d \in clients : ~Brings(Main(c), d)
    BY <2>1 DEF Announces, Brings, LockInv
  <2>3. \A t \in Task : LeadsOn(t)
    BY <2>1, <2>2 DEF LeadsOn, Announces, Brings, Tells, OnlineDevices
  <2>4. \A d \in Conn : /\ link'[d] = "up" => link[d] = "up"
                        /\ Queued(d) /\ view[d].rosters \subseteq view'[d].rosters
    BY <2>1 DEF Queued
  <2>. QED
    BY <2>1, <2>3, <2>4, InformedStays
<1>3. CASE ReadPumpExit(c) /\ c \in clients
  <2>1. Announces(Leave(c))'
    BY <1>3 DEF Announces, ReadPumpExit, AfterRemove, TypeOK
  <2>. QED
    BY <2>1, AnnouncedArrives
<1>4. CASE ReadPumpExit(c) /\ c \notin clients
  <2>1. /\ UNCHANGED <<clients, link, slow, queue, view, todo, body>> /\ shut \subseteq shut'
        /\ pc[Main(c)] = "unregister"
        /\ \A t \in Task \ {Main(c)} : pc'[t] = pc[t]
    BY <1>4 DEF ReadPumpExit, Remove, AfterRemove, TypeOK
  <2>2. ~Announces(Main(c)) /\ \A d \in clients : ~Brings(Main(c), d)
    BY <2>1 DEF Announces, Brings, LockInv
  <2>3. \A t \in Task : LeadsOn(t)
    BY <2>1, <2>2 DEF LeadsOn, Announces, Brings, Tells, OnlineDevices
  <2>4. \A d \in Conn : /\ link'[d] = "up" => link[d] = "up"
                        /\ Queued(d) /\ view[d].rosters \subseteq view'[d].rosters
    BY <2>1 DEF Queued
  <2>. QED
    BY <2>1, <2>3, <2>4, InformedStays
<1>5. CASE LinkDown(c)
  <2>1. /\ UNCHANGED <<clients, shut, slow, queue, view, todo, body, pc>>
        /\ \A d \in Conn : link'[d] = "up" => link[d] = "up"
    BY <1>5 DEF LinkDown, TypeOK
  <2>2. \A t \in Task : LeadsOn(t)
    BY <2>1 DEF LeadsOn, Announces, Brings, Tells, OnlineDevices
  <2>3. \A d \in Conn : /\ link'[d] = "up" => link[d] = "up"
                        /\ Queued(d) /\ view[d].rosters \subseteq view'[d].rosters
    BY <2>1 DEF Queued
  <2>. QED
    BY <2>1, <2>2, <2>3, InformedStays
<1>. QED
  BY <1>1, <1>2, <1>3, <1>4, <1>5 DEF EnvStep, ConnStep

LEMMA DeliverArrives ==
    ASSUME SafeInv, Arriving, NEW t \in Task, DeliverStep(t)
    PROVE  Arriving'
<1>. USE TaskFacts DEF SafeInv
<1>1. /\ UNCHANGED <<clients, link, view>> /\ shut \subseteq shut' /\ slow \subseteq slow'
      /\ \A d \in Conn : /\ link'[d] = "up" => link[d] = "up"
                         /\ view[d].rosters \subseteq view'[d].rosters
      /\ OnlineDevices' = OnlineDevices
  BY DEF DeliverStep, ListDevices, BeginDeliver, DeliverTo, EndDeliver, OnlineDevices
<1>2. ASSUME NEW u \in Task, pc'[u] = pc[u], body'[u] = body[u], todo'[u] = todo[u]
      PROVE  LeadsOn(u)
  BY <1>1, <1>2 DEF LeadsOn, Announces, Brings, Tells
<1>3. CASE ListDevices(t)
  <2>1. /\ pc'[t] = "deliver" /\ body'[t] = PresenceFrame(t, OnlineDevices) /\ UNCHANGED queue
        /\ \A u \in Task \ {t} : pc'[u] = pc[u] /\ body'[u] = body[u] /\ todo'[u] = todo[u]
    BY <1>3 DEF ListDevices, Goto, Hold, TypeOK
  <2>2. LeadsOn(t)
    BY <1>1, <2>1 DEF LeadsOn, Brings, Tells, PresenceFrame
  <2>3. \A d \in Conn : Queued(d)
    BY <2>1 DEF Queued
  <2>4. \A u \in Task : LeadsOn(u)
    BY <1>2, <2>1, <2>2
  <2>. QED
    BY <1>1, <2>1, <2>3, <2>4, InformedStays
<1>4. CASE BeginDeliver(t)
  <2>1. /\ pc[t] = "deliver" /\ body' = body /\ UNCHANGED queue
        /\ todo'[t] = Audience(body[t])
        /\ \A u \in Task \ {t} : pc'[u] = pc[u] /\ body'[u] = body[u] /\ todo'[u] = todo[u]
    BY <1>4 DEF BeginDeliver, Goto, TypeOK
  <2>2. LeadsOn(t)
    BY <1>1, <2>1 DEF LeadsOn, Announces, Brings, Tells, Audience
  <2>3. \A d \in Conn : Queued(d)
    BY <2>1 DEF Queued
  <2>4. \A u \in Task : LeadsOn(u)
    BY <1>2, <2>1, <2>2
  <2>. QED
    BY <1>1, <2>1, <2>3, <2>4, InformedStays
<1>5. ASSUME NEW c \in todo[t], DeliverTo(t, c) PROVE Arriving'
  <2>1. /\ c \in clients /\ c \in Conn /\ c \notin closed /\ pc[t] = "delivering"
        /\ body[t] \in Frame /\ UNCHANGED <<pc, body>>
        /\ todo'[t] = todo[t] \ {c} /\ \A u \in Task \ {t} : todo'[u] = todo[u]
    BY <1>5 DEF DeliverTo, TypeOK, LockInv
  <2>2. \A d \in Conn : Queued(d)
    BY <1>5, <2>1, SendQueued DEF DeliverTo, Queued
  <2>3. CASE ~Tells(body[t])
    <3>1. LeadsOn(t)
      BY <2>1, <2>3 DEF LeadsOn, Announces, Brings
    <3>2. \A u \in Task : LeadsOn(u)
      BY <1>2, <2>1, <3>1
    <3>. QED
      BY <1>1, <2>1, <2>2, <3>2, InformedStays
  <2>4. CASE Tells(body[t])
    <3>1. Informed(c)'
      <4>1. CASE ~Full(c) /\ Send(c, body[t])
        BY <1>1, <2>1, <2>4, <4>1, SendLast DEF Informed, Tells
      <4>2. CASE slow' = slow \cup {Slow(c, body[t], "retry")}
        <5>1. Slow(c, body[t], "retry").conn = c /\ Slow(c, body[t], "retry").frame = body[t]
          BY DEF Slow
        <5>. QED
          BY <1>1, <2>4, <4>2, <5>1 DEF Informed, Tells
      <4>. QED
        BY <1>5, <2>1, <4>1, <4>2 DEF DeliverTo
    <3>2. ASSUME NEW d \in Conn \ {c}, Healthy(d)' PROVE Informed(d)'
      <4>1. Healthy(d) /\ Informed(d)
        BY <1>1, <3>2 DEF Healthy, Arriving
      <4>2. CASE OnlineDevices \in view[d].rosters
        BY <1>1, <4>2 DEF Informed
      <4>3. ASSUME NEW i \in DOMAIN queue[d], Tells(queue[d][i]) PROVE Informed(d)'
        <5>1. i \in DOMAIN queue'[d] /\ queue'[d][i] = queue[d][i]
          BY <2>2 DEF Queued
        <5>. QED
          BY <1>1, <4>3, <5>1 DEF Informed, Tells
      <4>4. ASSUME NEW s \in slow, s.conn = d, Tells(s.frame) PROVE Informed(d)'
        BY <1>1, <4>4 DEF Informed, Tells
      <4>5. ASSUME NEW u \in Task, Announces(u) \/ Brings(u, d) PROVE Informed(d)'
        <5>1. Announces(u)' \/ Brings(u, d)'
          BY <1>1, <2>1, <3>2, <4>5 DEF Announces, Brings, Tells
        <5>. QED
          BY <5>1 DEF Informed
      <4>. QED
        BY <4>1, <4>2, <4>3, <4>4, <4>5 DEF Informed
    <3>. QED
      BY <3>1, <3>2 DEF Arriving
  <2>. QED
    BY <2>3, <2>4
<1>6. CASE EndDeliver(t)
  <2>1. /\ pc[t] = "delivering" /\ todo[t] = {} /\ UNCHANGED queue
        /\ \A u \in Task \ {t} : pc'[u] = pc[u] /\ body'[u] = body[u] /\ todo'[u] = todo[u]
    BY <1>6 DEF EndDeliver, Goto, Hold, TypeOK
  <2>2. LeadsOn(t)
    BY <2>1 DEF LeadsOn, Announces, Brings
  <2>3. \A d \in Conn : Queued(d)
    BY <2>1 DEF Queued
  <2>4. \A u \in Task : LeadsOn(u)
    BY <1>2, <2>1, <2>2
  <2>. QED
    BY <1>1, <2>1, <2>3, <2>4, InformedStays
<1>. QED
  BY <1>3, <1>4, <1>5, <1>6 DEF DeliverStep

LEMMA SlowArrives ==
    ASSUME SafeInv, Arriving, NEW s \in slow, SlowStep(s)
    PROVE  Arriving'
<1>. USE TaskFacts DEF SafeInv
<1>0. /\ UNCHANGED <<link, view, body, todo>> /\ shut \subseteq shut'
      /\ s.conn \in Conn /\ s.frame \in Frame
  BY DEF SlowStep, Retry, Expire, StillThere, Disconnect, Remove, TypeOK
<1>1. ASSUME Disconnect(s), s.conn \in clients PROVE Arriving'
  <2>1. Announces(Leave(s.conn))'
    BY <1>0, <1>1 DEF Announces, Disconnect, AfterRemove, TypeOK
  <2>. QED
    BY <1>0, <2>1, AnnouncedArrives
<1>2. ASSUME UNCHANGED <<clients, pc>>, \A d \in Conn : Queued(d),
             s.conn \notin clients \/ (Tells(s.frame) => Informed(s.conn)'),
             \A q \in slow \ {s} : q \in slow'
      PROVE  Arriving'
  <2>. SUFFICES ASSUME NEW d \in Conn, Healthy(d)' PROVE Informed(d)'
    BY DEF Arriving
  <2>1. Healthy(d) /\ Informed(d) /\ OnlineDevices' = OnlineDevices /\ d \in clients
    BY <1>0, <1>2 DEF Healthy, Arriving, OnlineDevices
  <2>2. CASE OnlineDevices \in view[d].rosters
    BY <1>0, <2>1, <2>2 DEF Informed
  <2>3. ASSUME NEW i \in DOMAIN queue[d], Tells(queue[d][i]) PROVE Informed(d)'
    <3>1. i \in DOMAIN queue'[d] /\ queue'[d][i] = queue[d][i]
      BY <1>2 DEF Queued
    <3>. QED
      BY <2>1, <2>3, <3>1 DEF Informed, Tells
  <2>4. ASSUME NEW q \in slow, q.conn = d, Tells(q.frame) PROVE Informed(d)'
    <3>1. CASE q = s
      BY <1>2, <2>1, <2>4, <3>1
    <3>2. CASE q # s
      BY <1>2, <2>1, <2>4, <3>2 DEF Informed, Tells
    <3>. QED
      BY <3>1, <3>2
  <2>5. ASSUME NEW t \in Task, Announces(t) \/ Brings(t, d) PROVE Informed(d)'
    <3>1. Announces(t)' \/ Brings(t, d)'
      BY <1>0, <1>2, <2>1, <2>5 DEF Announces, Brings, Tells
    <3>. QED
      BY <3>1 DEF Informed
  <2>. QED
    BY <2>1, <2>2, <2>3, <2>4, <2>5 DEF Informed
<1>3. CASE Retry(s)
  <2>1. UNCHANGED <<clients, pc>> /\ slow' = slow \ {s}
    BY <1>3 DEF Retry
  <2>2. \A d \in Conn : Queued(d)
    BY <1>0, <1>3, SendQueued DEF Retry, Queued
  <2>3. ASSUME s.conn \in clients, Tells(s.frame) PROVE Informed(s.conn)'
    <3>1. OnlineDevices' = OnlineDevices
      BY <2>1 DEF OnlineDevices
    <3>2. s.conn \notin closed /\ ~Full(s.conn) /\ Send(s.conn, s.frame)
      BY <1>3, <2>3 DEF Retry, LockInv
    <3>. QED
      BY <1>0, <2>3, <3>1, <3>2, SendLast DEF Informed, Tells
  <2>. QED
    BY <1>2, <2>1, <2>2, <2>3
<1>4. CASE Expire(s) \/ StillThere(s)
  <2>1. /\ UNCHANGED <<clients, pc, queue>>
        /\ \/ s.conn \notin clients /\ slow' = slow \ {s}
           \/ \E l \in {"check", "unregister"} : Move(s, l)
    BY <1>4 DEF Expire, StillThere
  <2>2. \A d \in Conn : Queued(d)
    BY <2>1 DEF Queued
  <2>3. ASSUME NEW l, Move(s, l), Tells(s.frame) PROVE Informed(s.conn)'
    <3>1. [s EXCEPT !.at = l] \in slow'
      BY <2>3 DEF Move
    <3>2. [s EXCEPT !.at = l].conn = s.conn /\ [s EXCEPT !.at = l].frame = s.frame
      BY DEF TypeOK
    <3>3. OnlineDevices' = OnlineDevices
      BY <2>1 DEF OnlineDevices
    <3>. QED
      BY <2>3, <3>1, <3>2, <3>3 DEF Informed, Tells
  <2>4. \A q \in slow \ {s} : q \in slow'
    BY <2>1 DEF Move
  <2>. QED
    BY <1>2, <2>1, <2>2, <2>3, <2>4
<1>5. CASE Disconnect(s) /\ s.conn \notin clients
  <2>1. UNCHANGED <<clients, pc, queue>> /\ slow' = slow \ {s}
    BY <1>5 DEF Disconnect, Remove, AfterRemove
  <2>2. \A d \in Conn : Queued(d)
    BY <2>1 DEF Queued
  <2>. QED
    BY <1>2, <1>5, <2>1, <2>2
<1>. QED
  BY <1>1, <1>3, <1>4, <1>5 DEF SlowStep

LEMMA WriteArrives ==
    ASSUME SafeInv, Arriving, NEW c \in Conn, WriteStep(c)
    PROVE  Arriving'
<1>. USE DEF SafeInv
<1>1. /\ UNCHANGED <<clients, link, slow, pc, body, todo>> /\ shut \subseteq shut'
      /\ OnlineDevices' = OnlineDevices
  BY DEF WriteStep, WriteFrame, WriteLost, WriteFails, WriteClose, WriterEnds, OnlineDevices
<1>2. \A t \in Task : LeadsOn(t)
  BY <1>1 DEF LeadsOn, Announces, Brings, Tells
<1>3. CASE WriteFails(c) \/ WriteClose(c)
  <2>1. \A d \in Conn : /\ link'[d] = "up" => link[d] = "up"
                        /\ Queued(d) /\ view[d].rosters \subseteq view'[d].rosters
    BY <1>1, <1>3 DEF WriteFails, WriteClose, WriterEnds, Queued
  <2>. QED
    BY <1>1, <1>2, <2>1, InformedStays
<1>4. CASE WriteFrame(c) \/ WriteLost(c)
  <2>1. /\ queue[c] \in Seq(Frame) /\ queue[c] # <<>> /\ queue'[c] = Tail(queue[c])
        /\ \A d \in Conn \ {c} : queue'[d] = queue[d] /\ view'[d] = view[d]
    BY <1>4 DEF WriteFrame, WriteLost, TypeOK
  <2>. SUFFICES ASSUME NEW d \in Conn, Healthy(d)' PROVE Informed(d)'
    BY DEF Arriving
  <2>2. Healthy(d) /\ Informed(d)
    BY <1>1 DEF Healthy, Arriving
  <2>3. CASE d # c
    BY <1>1, <2>1, <2>2, <2>3 DEF Informed, Announces, Brings, Tells
  <2>4. CASE d = c
    <3>. DEFINE f == Head(queue[c])
    <3>1. view'[c] = Received(view[c], f)
      <4>1. WriteFrame(c)
        BY <1>4, <2>2, <2>4 DEF WriteLost, Healthy
      <4>. QED
        BY <4>1 DEF WriteFrame, TypeOK
    <3>2. /\ view[c].rosters \subseteq view'[c].rosters
          /\ queue[c][1].kind = "presence" => queue[c][1].users \in view'[c].rosters
      <4>1. f = queue[c][1] /\ f \in Frame
        BY <2>1, HeadTailProperties
      <4>2. view[c] \in View
        BY DEF TypeOK
      <4>. HIDE DEF f
      <4>3. CASE f.kind = "welcome"
        BY <3>1, <4>1, <4>3 DEF Received
      <4>4. CASE f.kind = "history"
        BY <3>1, <4>1, <4>2, <4>4 DEF Received, View
      <4>5. CASE f.kind = "presence"
        <5>1. view'[c] = [view[c] EXCEPT !.users = f.users, !.rosters = @ \cup {f.users}]
          BY <3>1, <4>5 DEF Received
        <5>2. view'[c].rosters = view[c].rosters \cup {f.users}
          BY <4>2, <5>1 DEF View
        <5>. QED
          BY <4>1, <5>2
      <4>6. CASE f.kind = "message"
        BY <3>1, <4>1, <4>2, <4>6 DEF Received, View
      <4>. QED
        BY <4>1, <4>3, <4>4, <4>5, <4>6 DEF Frame, WelcomeFrame
    <3>3. ASSUME NEW i \in DOMAIN queue[c], Tells(queue[c][i]) PROVE Informed(c)'
      <4>1. CASE i = 1
        BY <1>1, <3>2, <3>3, <4>1 DEF Informed, Tells, OnlineDevices
      <4>2. CASE i # 1
        <5>1. i - 1 \in DOMAIN queue'[c] /\ queue'[c][i - 1] = queue[c][i]
          BY <2>1, <4>2, HeadTailProperties
        <5>. QED
          BY <1>1, <3>3, <5>1 DEF Informed, Tells
      <4>. QED
        BY <4>1, <4>2
    <3>4. CASE OnlineDevices \in view[c].rosters
      BY <1>1, <2>4, <3>2, <3>4 DEF Informed, OnlineDevices
    <3>5. CASE \/ \E s \in slow : s.conn = c /\ Tells(s.frame)
               \/ \E t \in Task : Announces(t) \/ Brings(t, c)
      BY <1>1, <2>4, <3>5 DEF Informed, Announces, Brings, Tells, OnlineDevices
    <3>. QED
      BY <2>2, <2>4, <3>3, <3>4, <3>5 DEF Informed
  <2>. QED
    BY <2>3, <2>4
<1>. QED
  BY <1>3, <1>4 DEF WriteStep

LEMMA ArrivingNext == SafeInv /\ Arriving /\ [Next]_vars => Arriving'
<1>. SUFFICES ASSUME SafeInv, Arriving, Tick \/ UNCHANGED vars PROVE Arriving'
  BY ConnArrives, DeliverArrives, SlowArrives, WriteArrives DEF Next, Work
<1>1. UNCHANGED <<clients, link, shut, slow, queue, view, todo, body, pc>>
  BY DEF Tick
<1>2. \A t \in Task : LeadsOn(t)
  BY <1>1 DEF LeadsOn, Announces, Brings, Tells, OnlineDevices
<1>3. \A d \in Conn : /\ link'[d] = "up" => link[d] = "up"
                      /\ Queued(d) /\ view[d].rosters \subseteq view'[d].rosters
  BY <1>1 DEF Queued
<1>. QED
  BY <1>1, <1>2, <1>3, InformedStays

\* When the hub is quiet, every healthy client has been sent the device list that is
\* true now: whoever changes h.clients still has its list to make, after the change, and
\* a list on its way is not lost (Register, Unregister, broadcastPresence, deliverSlow).
THEOREM TrueListArrives == Spec => []AccurateArrived
<1>1. Init => Arriving
  BY DEF Init, Arriving, Healthy
<1>2. SafeInv /\ Arriving => AccurateArrived
  <2>. SUFFICES ASSUME SafeInv, Arriving, Quiet, NEW c \in Conn, Healthy(c)
                PROVE  OnlineDevices \in view[c].rosters
    BY DEF AccurateArrived
  <2>1. Informed(c) /\ queue[c] = <<>> /\ slow = {}
    BY DEF Arriving, Quiet, Healthy
  <2>2. \A t \in Task : ~Announces(t) /\ ~Brings(t, c)
    BY DEF SafeInv, LockInv, Quiet, Announces, Brings
  <2>. QED
    BY <2>1, <2>2 DEF Informed
<1>3. Spec => []SafeInv
  BY TypeCorrect, PanicFree, PTL DEF SafeInv
<1>. QED
  BY <1>1, <1>2, <1>3, ArrivingNext, PTL DEF Spec
=============================================================================
