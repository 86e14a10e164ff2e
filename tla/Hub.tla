-------------------------------- MODULE Hub --------------------------------
(***************************************************************************)
(* The message hub of LanRoom: internal/hub/hub.go, entered from           *)
(* handleWebSocket in internal/server/server.go.                           *)
(*                                                                         *)
(* A connection c has two long-lived goroutines, the read side (Main(c):   *)
(* the HTTP handler that runs Register and then becomes ReadPump) and the  *)
(* write side (writer[c]: WritePump).  Unregister(c) may run in ReadPump   *)
(* or in a deliverSlow goroutine; whoever removes c broadcasts the         *)
(* presence, and that broadcast is the task Leave(c).  deliver spawns one  *)
(* deliverSlow goroutine (an element of slow) for each full queue.         *)
(*                                                                         *)
(* h.mu is a readers-writer lock.  A section under Lock, and a section     *)
(* under RLock that touches one channel, is one step.  deliver holds RLock *)
(* while it visits its clients, so it is a begin, one step per client and  *)
(* an end; between those steps other readers run and writers do not        *)
(* (NoReader).                                                             *)
(*                                                                         *)
(* history is a set: no property tells the order of its slice apart.       *)
(***************************************************************************)
EXTENDS Naturals, Sequences, FiniteSets

CONSTANTS
    Conn,           \* WebSocket connections; one that ends never comes back
    Device,         \* device IDs, connected or not (uuid derived from the key)
    DeviceOf,       \* the device of each connection (tabs share one)
    Bad,            \* a recipient that does not parse as a UUID
    RawLists,       \* recipient lists a client may send (incoming.To)
    SendBuffer,     \* capacity of a client's send channel
    MaxRecipients,  \* most recipients of a directed message
    HistoryTTL,     \* seconds a message is kept
    SendQuota,      \* bound: messages each connection sends
    Flaky,          \* bound: connections whose client or link may fail
    MaxClock        \* bound: the last second of the clock

ASSUME DeviceOfAssumption == DeviceOf \in [Conn -> Device]
ASSUME BadAssumption == Bad \notin Device
ASSUME RawListsAssumption == RawLists \subseteq Seq(Device \cup {Bad})
ASSUME NumberAssumption ==
    /\ SendBuffer \in Nat \ {0}
    /\ MaxRecipients \in Nat \ {0}
    /\ HistoryTTL \in Nat
    /\ MaxClock \in Nat
    /\ SendQuota \in [Conn -> Nat]
    /\ Flaky \subseteq Conn

VARIABLES
    clients,   \* h.clients
    known,     \* the keys of h.known
    history,   \* h.history
    closed,    \* connections whose send channel has been closed
    queue,     \* the contents of each send channel
    now,       \* the clock, in seconds
    pc,        \* where each task stands
    body,      \* what a task holds across steps: a cutoff or an encoded frame
    todo,      \* the clients a deliver in progress has still to visit
    slow,      \* the deliverSlow goroutines
    writer,    \* WritePump of each connection: off, run, done
    shut,      \* connections on which the server has called conn.Close
    link,      \* whether the network path of a connection still works
    panicked,  \* a send on, or a close of, a closed channel has happened
    sent,      \* how many messages each connection has sent (bound)
    chat,      \* ghost: every message accepted, and who was there to see it
    view       \* what the page or app at the other end has received

hubVars  == <<clients, known, history, closed>>
chanVars == <<queue, panicked>>
taskVars == <<pc, body, todo>>
connVars == <<writer, shut, link>>
rest     == <<now, sent, chat, view>>
vars     == <<hubVars, chanVars, taskVars, slow, connVars, rest>>

---------------------------------------------------------------------------
(* Tasks and frames *)

Main(c)  == <<c, "conn">>
Leave(c) == <<c, "leave">>
Task     == Conn \X {"conn", "leave"}
ConnOf(t) == t[1]

Places == {"idle", "welcome", "cutoff", "snapshot", "history", "devices",
           "deliver", "delivering", "read", "store", "unregister", "done"}

\* asked is a ghost field: the devices the sending client named, every device
\* when it named none.  The hub never reads it.  <<from, n>> tells messages apart.
Message == [from: Conn, n: Nat, to: SUBSET Device, named: SUBSET Device,
            ts: Nat, asked: SUBSET Device]

WelcomeFrame    == [kind |-> "welcome"]
HistoryFrame(S) == [kind |-> "history", msgs |-> S]
PresenceFrame(t, S) == [kind |-> "presence", task |-> t, users |-> S]
MessageFrame(m) == [kind |-> "message", msg |-> m]

Frame == {WelcomeFrame}
           \cup [kind: {"history"}, msgs: SUBSET Message]
           \cup [kind: {"presence"}, task: Task, users: SUBSET Device]
           \cup [kind: {"message"}, msg: Message]

Nothing   == [kind |-> "nothing"]
Cutoff(t) == [kind |-> "cutoff", at |-> t]
Body == Frame \cup {Nothing} \cup [kind: {"cutoff"}, at: Nat]

---------------------------------------------------------------------------
(* Pure helpers of the hub *)

\* Mutant: the sender's devices do not see a directed message.
VisibleToTargetsOnly(m, d) == m.to = {} \/ d \in m.to

\* ChatMessage.visibleTo
VisibleTo(m, d) == m.to = {} \/ d = DeviceOf[m.from] \/ d \in m.to

\* Mutant: the comparison with the cutoff is strict.
FreshStrict(m, at) == m.ts + HistoryTTL > at

\* m.Timestamp >= cutoff, where cutoff is at - historyTTL
Fresh(m, at) == m.ts + HistoryTTL >= at

\* Mutant: a list that holds only invalid entries is treated as no list.
AcceptableAlways(raw, self) == TRUE

\* The recipients sanitizeRecipients keeps: the first MaxRecipients distinct,
\* well-formed IDs other than the sender's own.
Recipients(raw, self) ==
    LET firsts == {i \in DOMAIN raw : /\ raw[i] \in Device \ {self}
                                      /\ \A j \in 1..(i-1) : raw[j] # raw[i]}
    IN  {raw[i] : i \in {k \in firsts :
            Cardinality({j \in firsts : j < k}) < MaxRecipients}}

\* The second result of sanitizeRecipients
Acceptable(raw, self) == raw = <<>> \/ Recipients(raw, self) # {}

Elements(s) == {s[i] : i \in DOMAIN s}
Intended(raw) == IF raw = <<>> THEN Device ELSE Elements(raw) \cap Device

OnlineDevices == {DeviceOf[c] : c \in clients}

\* Mutant: nobody filters a message.
AudienceAll(f) == clients

\* The clients deliver sends f to: its filter, applied to h.clients.
Audience(f) ==
    {c \in clients : f.kind = "message" => VisibleTo(f.msg, DeviceOf[c])}

---------------------------------------------------------------------------
(* Locks and channels *)

\* Mutant: a writer does not wait for the readers of h.mu.
NoReaderIgnored == TRUE

\* A writer of h.mu can run: no deliver holds the read lock.
NoReader == \A t \in Task : pc[t] # "delivering"

Full(c) == Len(queue[c]) >= SendBuffer

\* c.send <- f in a select with a default: dropped when the channel is full,
\* a panic when it is closed.
Send(c, f) ==
    /\ panicked' = (panicked \/ c \in closed)
    /\ queue' = IF c \in closed \/ Full(c)
                THEN queue
                ELSE [queue EXCEPT ![c] = Append(@, f)]

\* Mutant: enqueueJSON does not look the client up first.
EnqueueUnchecked(c, f) == Send(c, f)

\* Client.enqueueJSON
EnqueueJSON(c, f) ==
    IF c \in clients THEN Send(c, f) ELSE UNCHANGED chanVars

Goto(t, l) == pc' = [pc EXCEPT ![t] = l]
Hold(t, b) == body' = [body EXCEPT ![t] = b]

---------------------------------------------------------------------------
(* What the client at the other end does with a frame: app.js onmessage.   *)
(* "history" replaces what is on screen; replayed and log together are the *)
(* screen.  rosters is a ghost: every device list this client was sent.    *)

NewView == [users |-> {}, rosters |-> {}, replayed |-> {},
            log |-> <<>>]

View == [users: SUBSET Device, rosters: SUBSET SUBSET Device,
         replayed: SUBSET Message, log: Seq(Message)]

Received(v, f) ==
    CASE f.kind = "welcome"  -> v
      [] f.kind = "history"  -> [v EXCEPT !.replayed = f.msgs, !.log = <<>>]
      [] f.kind = "presence" -> [v EXCEPT !.users = f.users,
                                          !.rosters = @ \cup {f.users}]
      [] f.kind = "message"  -> [v EXCEPT !.log = Append(@, f.msg)]

---------------------------------------------------------------------------
Init ==
    /\ clients = {} /\ known = {} /\ history = {} /\ closed = {}
    /\ queue = [c \in Conn |-> <<>>]
    /\ now = 0
    /\ pc = [t \in Task |-> "idle"]
    /\ body = [t \in Task |-> Nothing]
    /\ todo = [t \in Task |-> {}]
    /\ slow = {}
    /\ writer = [c \in Conn |-> "off"]
    /\ shut = {}
    /\ link = [c \in Conn |-> "up"]
    /\ panicked = FALSE
    /\ sent = [c \in Conn |-> 0]
    /\ chat = {}
    /\ view = [c \in Conn |-> NewView]

---------------------------------------------------------------------------
(* Register, run by handleWebSocket before the two pumps start *)

\* Mutant: the device is not remembered.
RegisterForgets(c) ==
    /\ pc[Main(c)] = "idle"
    /\ NoReader
    /\ clients' = clients \cup {c}
    /\ Goto(Main(c), "welcome")
    /\ UNCHANGED <<known, history, closed, chanVars, body, todo, slow, connVars, rest>>

\* The section under Lock.
Register(c) ==
    /\ pc[Main(c)] = "idle"
    /\ NoReader
    /\ clients' = clients \cup {c}
    /\ known' = known \cup {DeviceOf[c]}
    /\ Goto(Main(c), "welcome")
    /\ UNCHANGED <<history, closed, chanVars, body, todo, slow, connVars, rest>>

SendWelcome(c) ==
    /\ pc[Main(c)] = "welcome"
    /\ EnqueueJSON(c, WelcomeFrame)
    /\ Goto(Main(c), "cutoff")
    /\ UNCHANGED <<hubVars, body, todo, slow, connVars, rest>>

\* sendHistory computes its cutoff before it takes the read lock.
ReadCutoff(c) ==
    /\ pc[Main(c)] = "cutoff"
    /\ Hold(Main(c), Cutoff(now))
    /\ Goto(Main(c), "snapshot")
    /\ UNCHANGED <<hubVars, chanVars, todo, slow, connVars, rest>>

\* The loop of sendHistory under RLock; nothing is sent when it finds nothing.
Snapshot(c) ==
    LET found == {m \in history : /\ Fresh(m, body[Main(c)].at)
                                  /\ VisibleTo(m, DeviceOf[c])}
    IN  /\ pc[Main(c)] = "snapshot"
        /\ IF found = {}
           THEN Hold(Main(c), Nothing) /\ Goto(Main(c), "devices")
           ELSE Hold(Main(c), HistoryFrame(found)) /\ Goto(Main(c), "history")
        /\ UNCHANGED <<hubVars, chanVars, todo, slow, connVars, rest>>

\* The enqueueJSON that ends sendHistory, after RUnlock.
SendHistory(c) ==
    /\ pc[Main(c)] = "history"
    /\ EnqueueJSON(c, body[Main(c)])
    /\ Hold(Main(c), Nothing)
    /\ Goto(Main(c), "devices")
    /\ UNCHANGED <<hubVars, todo, slow, connVars, rest>>

---------------------------------------------------------------------------
(* broadcastPresence and deliver, for either kind of task *)

\* devices() under RLock; the frame is encoded and kept.
ListDevices(t) ==
    /\ pc[t] = "devices"
    /\ Hold(t, PresenceFrame(t, OnlineDevices))
    /\ Goto(t, "deliver")
    /\ UNCHANGED <<hubVars, chanVars, todo, slow, connVars, rest>>

BeginDeliver(t) ==
    /\ pc[t] = "deliver"
    /\ todo' = [todo EXCEPT ![t] = Audience(body[t])]
    /\ Goto(t, "delivering")
    /\ UNCHANGED <<hubVars, chanVars, body, slow, connVars, rest>>

Slow(c, f, l) == [conn |-> c, frame |-> f, at |-> l]

\* Mutant: a full queue loses the frame.
DeliverOrDrop(t, c) ==
    /\ pc[t] = "delivering"
    /\ c \in todo[t]
    /\ Send(c, body[t])
    /\ todo' = [todo EXCEPT ![t] = @ \ {c}]
    /\ UNCHANGED <<hubVars, pc, body, slow, connVars, rest>>

\* Mutant: every frame goes through a goroutine of its own.
DeliverDetached(t, c) ==
    /\ pc[t] = "delivering"
    /\ c \in todo[t]
    /\ slow' = slow \cup {Slow(c, body[t], "retry")}
    /\ todo' = [todo EXCEPT ![t] = @ \ {c}]
    /\ UNCHANGED <<hubVars, chanVars, pc, body, connVars, rest>>

\* One iteration of deliver's loop.  A full queue starts a deliverSlow.
DeliverTo(t, c) ==
    /\ pc[t] = "delivering"
    /\ c \in todo[t]
    /\ \/ /\ c \in closed \/ ~Full(c)
          /\ Send(c, body[t])
          /\ slow' = slow
       \/ /\ c \notin closed /\ Full(c)
          /\ slow' = slow \cup {Slow(c, body[t], "retry")}
          /\ UNCHANGED chanVars
    /\ todo' = [todo EXCEPT ![t] = @ \ {c}]
    /\ UNCHANGED <<hubVars, pc, body, connVars, rest>>

\* RUnlock, and where the caller of deliver goes next: a connection's handler
\* starts the pumps (after Register) or reads again (after SendMessage); the
\* caller of Unregister closes the connection.
EndDeliver(t) ==
    LET c == ConnOf(t)
    IN  /\ pc[t] = "delivering"
        /\ todo[t] = {}
        /\ Hold(t, Nothing)
        /\ \/ /\ t = Main(c)
              /\ Goto(t, "read")
              /\ writer' = [writer EXCEPT ![c] = IF @ = "off" THEN "run" ELSE @]
              /\ shut' = shut
           \/ /\ t = Leave(c)
              /\ Goto(t, "done")
              /\ shut' = shut \cup {c}
              /\ writer' = writer
        /\ UNCHANGED <<hubVars, chanVars, todo, slow, link, rest>>

---------------------------------------------------------------------------
(* ReadPump and SendMessage *)

\* A chat message is read, its recipients cleaned and named.  Frames that are
\* not acceptable messages change nothing and are not modelled.  What the
\* socket had received before it closed can still be read after.
ReadMessage(c) ==
    /\ pc[Main(c)] = "read"
    /\ sent[c] < SendQuota[c]
    /\ \E raw \in RawLists :
         LET to == Recipients(raw, DeviceOf[c])
             m  == [from |-> c, n |-> sent[c], to |-> to,
                    named |-> to \cap known, ts |-> now,
                    asked |-> Intended(raw)]
         IN  /\ Acceptable(raw, DeviceOf[c])
             /\ Hold(Main(c), MessageFrame(m))
    /\ sent' = [sent EXCEPT ![c] = @ + 1]
    /\ Goto(Main(c), "store")
    /\ UNCHANGED <<hubVars, chanVars, todo, slow, connVars, now, chat, view>>

\* Connections whose history frame, if there is one, has been sent already.
Settled == {c \in clients :
              pc[Main(c)] \notin {"welcome", "cutoff", "snapshot", "history"}}

\* addToHistory, under Lock: prune, then append.
Store(c) ==
    LET m == body[Main(c)].msg
    IN  /\ pc[Main(c)] = "store"
        /\ NoReader
        /\ history' = {h \in history : Fresh(h, now)} \cup {m}
        /\ chat' = chat \cup
              {[msg |-> m, present |-> clients, settled |-> Settled]}
        /\ Goto(Main(c), "deliver")
        /\ UNCHANGED <<clients, known, closed, chanVars, body, todo, slow,
                       connVars, now, sent, view>>

\* ReadMessage of the socket fails: the connection is closed, or its path is
\* dead and the pong deadline passes.
ReadFails(c) ==
    /\ pc[Main(c)] = "read"
    /\ c \in shut \/ link[c] = "down"
    /\ Goto(Main(c), "unregister")
    /\ UNCHANGED <<hubVars, chanVars, body, todo, slow, connVars, rest>>

\* The client breaks the protocol (a frame over MaxMessageSize) on a live link.
ProtocolError(c) ==
    /\ c \in Flaky /\ pc[Main(c)] = "read"
    /\ link[c] = "up" /\ c \notin shut
    /\ Goto(Main(c), "unregister")
    /\ UNCHANGED <<hubVars, chanVars, body, todo, slow, connVars, rest>>

---------------------------------------------------------------------------
(* Unregister, from ReadPump or from deliverSlow *)

\* The section under Lock.  A caller that finds c gone closes the connection
\* at once; the one that removes c broadcasts first (task Leave(c)).
Remove(c) ==
    /\ NoReader
    /\ \/ /\ c \in clients
          /\ clients' = clients \ {c}
          /\ closed' = closed \cup {c}
          /\ panicked' = (panicked \/ c \in closed)
          /\ shut' = shut
       \/ /\ c \notin clients
          /\ shut' = shut \cup {c}
          /\ UNCHANGED <<clients, closed, panicked>>

\* Mutant: a leaving client is not announced.
AfterRemoveSilent(c, l) == l

AfterRemove(c, l) == IF c \in clients THEN [l EXCEPT ![Leave(c)] = "devices"]
                                      ELSE l

\* Mutant: the end of ReadPump closes the connection and does not unregister.
ReadPumpOnlyCloses(c) ==
    /\ pc[Main(c)] = "unregister"
    /\ Goto(Main(c), "done")
    /\ shut' = shut \cup {c}
    /\ UNCHANGED <<hubVars, chanVars, body, todo, slow, writer, link, rest>>

ReadPumpExit(c) ==
    /\ pc[Main(c)] = "unregister"
    /\ Remove(c)
    /\ pc' = AfterRemove(c, [pc EXCEPT ![Main(c)] = "done"])
    /\ UNCHANGED <<known, history, queue, body, todo, slow, writer, link, rest>>

---------------------------------------------------------------------------
(* deliverSlow *)

Move(s, l) == slow' = (slow \ {s}) \cup {[s EXCEPT !.at = l]}

\* Mutant: one attempt, then the frame is forgotten.
RetryOnce(s) ==
    /\ s.at = "retry"
    /\ IF s.conn \in clients THEN Send(s.conn, s.frame) ELSE UNCHANGED chanVars
    /\ slow' = slow \ {s}
    /\ UNCHANGED <<hubVars, taskVars, connVars, rest>>

\* One pass of the retry loop: give up on a client that has gone, send if the
\* queue has room, otherwise sleep (no step).
Retry(s) ==
    /\ s.at = "retry"
    /\ \/ /\ s.conn \notin clients
          /\ UNCHANGED chanVars
       \/ /\ s.conn \in clients
          /\ s.conn \in closed \/ ~Full(s.conn)
          /\ Send(s.conn, s.frame)
    /\ slow' = slow \ {s}
    /\ UNCHANGED <<hubVars, taskVars, connVars, rest>>

\* The retry window ends.
Expire(s) ==
    /\ s.conn \in Flaky /\ s.at = "retry"
    /\ Move(s, "check")
    /\ UNCHANGED <<hubVars, chanVars, taskVars, connVars, rest>>

\* stillThere, under RLock.
StillThere(s) ==
    /\ s.at = "check"
    /\ \/ s.conn \in clients /\ Move(s, "unregister")
       \/ s.conn \notin clients /\ slow' = slow \ {s}
    /\ UNCHANGED <<hubVars, chanVars, taskVars, connVars, rest>>

Disconnect(s) ==
    /\ s.at = "unregister"
    /\ Remove(s.conn)
    /\ pc' = AfterRemove(s.conn, pc)
    /\ slow' = slow \ {s}
    /\ UNCHANGED <<known, history, queue, body, todo, writer, link, rest>>

---------------------------------------------------------------------------
(* WritePump, and the network path to the client *)

\* Nothing is written once the server has closed the connection.
WriteFrame(c) ==
    /\ writer[c] = "run" /\ queue[c] # <<>>
    /\ link[c] = "up" /\ c \notin shut
    /\ queue' = [queue EXCEPT ![c] = Tail(@)]
    /\ view' = [view EXCEPT ![c] = Received(@, Head(queue[c]))]
    /\ UNCHANGED <<hubVars, panicked, taskVars, slow, connVars, now, sent, chat>>

\* The write succeeds locally, the frame never arrives.
WriteLost(c) ==
    /\ writer[c] = "run" /\ queue[c] # <<>>
    /\ link[c] = "down" /\ c \notin shut
    /\ queue' = [queue EXCEPT ![c] = Tail(@)]
    /\ UNCHANGED <<hubVars, panicked, taskVars, slow, connVars, rest>>

WriterEnds(c) ==
    /\ writer' = [writer EXCEPT ![c] = "done"]
    /\ shut' = shut \cup {c}
    /\ UNCHANGED <<hubVars, chanVars, taskVars, slow, link, rest>>

\* A frame or a ping cannot be written before its deadline.
WriteFails(c) ==
    /\ writer[c] = "run"
    /\ link[c] = "down" \/ c \in shut
    /\ WriterEnds(c)

\* The channel is closed and drained: a close frame, then the end.
WriteClose(c) ==
    /\ writer[c] = "run" /\ queue[c] = <<>> /\ c \in closed
    /\ WriterEnds(c)

\* The client leaves, sleeps or loses the network.
LinkDown(c) ==
    /\ c \in Flaky /\ pc[Main(c)] # "idle" /\ link[c] = "up"
    /\ link' = [link EXCEPT ![c] = "down"]
    /\ UNCHANGED <<hubVars, chanVars, taskVars, slow, writer, shut, rest>>

Tick ==
    /\ now < MaxClock
    /\ now' = now + 1
    /\ UNCHANGED <<hubVars, chanVars, taskVars, slow, connVars, sent, chat, view>>

---------------------------------------------------------------------------
RegisterStep(c) == \/ SendWelcome(c)
                   \/ ReadCutoff(c)
                   \/ Snapshot(c)
                   \/ SendHistory(c)

DeliverStep(t) == \/ ListDevices(t)
                  \/ BeginDeliver(t)
                  \/ \E c \in todo[t] : DeliverTo(t, c)
                  \/ EndDeliver(t)

SlowStep(s) == Retry(s) \/ Expire(s) \/ StillThere(s) \/ Disconnect(s)

WriteStep(c) == \/ WriteFrame(c)
                \/ WriteLost(c)
                \/ WriteFails(c)
                \/ WriteClose(c)

\* What goroutines do by themselves, once they have something to do.
ConnStep(c) == \/ RegisterStep(c)
               \/ Store(c)
               \/ ReadFails(c)
               \/ ReadPumpExit(c)

\* What clients, networks and the clock may do, and need never do.
EnvStep(c) == \/ Register(c)
              \/ ReadMessage(c)
              \/ ProtocolError(c)
              \/ LinkDown(c)

Work == \/ \E c \in Conn : ConnStep(c) \/ WriteStep(c)
        \/ \E t \in Task : DeliverStep(t)
        \/ \E s \in slow : SlowStep(s)

Next == \/ \E c \in Conn : EnvStep(c)
        \/ Work
        \/ Tick

\* Weak fairness of the goroutines: the Go scheduler runs each of them, a
\* waiting Lock is not overtaken forever, and deadlines (pong, write, retry
\* window) expire.  Nothing is assumed of clients and networks, except that a
\* live link with a running WritePump takes the frames it is given.
Fairness ==
    /\ \A c \in Conn : /\ WF_vars(ConnStep(c))
                       /\ WF_vars(WriteStep(c))
                       /\ WF_vars(\E s \in slow : s.conn = c /\ SlowStep(s))
    /\ \A t \in Task : WF_vars(DeliverStep(t))

Spec == Init /\ [][Next]_vars
FairSpec == Spec /\ Fairness

---------------------------------------------------------------------------
(* Properties *)

\* Every variable has its type, a task holds the frame its next step needs, and
\* a device that is online can be named (known; Register, SendMessage).
TypeOK ==
    /\ clients \subseteq Conn
    /\ known \subseteq Device /\ OnlineDevices \subseteq known
    /\ history \subseteq Message
    /\ closed \subseteq Conn
    /\ queue \in [Conn -> Seq(Frame)]
    /\ now \in Nat
    /\ pc \in [Task -> Places]
    /\ body \in [Task -> Body]
    /\ todo \in [Task -> SUBSET Conn]
    /\ slow \subseteq [conn: Conn, frame: Frame,
                       at: {"retry", "check", "unregister"}]
    /\ writer \in [Conn -> {"off", "run", "done"}]
    /\ shut \subseteq Conn
    /\ link \in [Conn -> {"up", "down"}]
    /\ panicked \in BOOLEAN
    /\ sent \in [Conn -> Nat]
    /\ chat \subseteq [msg: Message, present: SUBSET Conn, settled: SUBSET Conn]
    /\ view \in [Conn -> View]
    /\ \A t \in Task :
          /\ pc[t] \in {"deliver", "delivering", "store", "history"} => body[t] \in Frame
          /\ pc[t] = "snapshot" => body[t].kind = "cutoff"
          /\ pc[t] = "store" => body[t].kind = "message"

\* No goroutine ever sends on a send channel that Unregister has closed, nor
\* closes one twice, either of which would end the whole server process: what
\* the comments on enqueueJSON and deliverSlow promise of holding RLock.
NoPanic == ~panicked

\* Why there is no panic: a delivery in progress visits members only, because no
\* member leaves while it holds the lock, and no member's channel is closed (a
\* connection that has left never registers again).
LockInv ==
    /\ clients \cap closed = {}
    /\ \A c \in clients \cup closed : pc[Main(c)] # "idle"
    /\ \A t \in Task : /\ todo[t] \subseteq clients
                       /\ pc[t] # "delivering" => todo[t] = {}

\* What could still put m on the screen of c, or has: its log, its queue, the
\* deliverSlow goroutines and a delivery that has not come to c yet.
Copies(c, m) ==
    LET f == MessageFrame(m)
    IN    Cardinality({i \in DOMAIN view[c].log : view[c].log[i] = m})
        + Cardinality({i \in DOMAIN queue[c] : queue[c][i] = f})
        + Cardinality({s \in slow : s.conn = c /\ s.frame = f})
        + Cardinality({t \in Task : /\ body[t] = f
                                    /\ \/ pc[t] = "deliver"
                                       \/ pc[t] = "delivering" /\ c \in todo[t]})

Addressed(c, m) == m.to = {} \/ DeviceOf[c] \in m.to \cup {DeviceOf[m.from]}

Healthy(c) == c \in clients /\ link[c] = "up" /\ c \notin shut

\* A message is neither lost nor doubled for a client that had its history when
\* the message was stored and is still connected: at every moment there is
\* exactly one copy of it, shown, queued, waiting in deliverSlow or about to be
\* delivered (deliver, deliverSlow, WritePump).
Conserved ==
    \A e \in chat : \A c \in e.settled :
        Healthy(c) /\ Addressed(c, e.msg) => Copies(c, e.msg) = 1

\* Only the devices the sender named, and the sender's own, are ever sent a
\* directed message, by any path: live, retried or in a history frame.  A list
\* whose entries are all invalid must not become a broadcast (ReadPump).
Carried(f) == CASE f.kind = "message" -> {f.msg}
                [] f.kind = "history" -> f.msgs
                [] OTHER -> {}

MayShow(c, f) ==
    \A m \in Carried(f) : DeviceOf[c] \in m.asked \cup {DeviceOf[m.from]}

IntentPrivacy ==
    /\ \A c \in Conn : \A i \in DOMAIN queue[c] : MayShow(c, queue[c][i])
    /\ \A s \in slow : MayShow(s.conn, s.frame)

\* Why privacy holds: a message's recipients are among those its sender named,
\* wherever the message is kept, and each frame on its way to a client is for it.
Sound(m) == \A c \in Conn : VisibleTo(m, DeviceOf[c]) => MayShow(c, MessageFrame(m))

PrivacyInv ==
    /\ \A m \in history : Sound(m)
    /\ \A t \in Task :
          /\ body[t].kind = "message" => Sound(body[t].msg)
          /\ pc[t] \in {"deliver", "delivering"} => body[t].kind \in {"presence", "message"}
          /\ \A c \in todo[t] : MayShow(c, body[t])
    /\ \A c \in Conn : pc[Main(c)] = "history" => MayShow(c, body[Main(c)])
    /\ IntentPrivacy

\* A client's screen lists the messages of one sender in the order they were
\* sent: each ReadPump finishes a delivery before it reads again.  True while no
\* queue overflows, so it is checked where the channel has room for everything.
SenderOrder ==
    \A c \in Conn : LET log == view[c].log IN
        \A i, j \in DOMAIN log :
            i < j /\ log[i].from = log[j].from => log[i].n < log[j].n

Quiet == /\ \A t \in Task : pc[t] \in {"idle", "read", "done"}
         /\ slow = {}
         /\ \A c \in clients : queue[c] = <<>>

\* Who joins after a message was stored finds it in the history it is sent, as
\* long as the retention has not passed: no pruning removes it early, no later
\* store overwrites it (addToHistory, sendHistory).
LateJoinerSeesFresh ==
    Quiet => \A e \in chat, c \in Conn :
        /\ Healthy(c) /\ c \notin e.present
        /\ Addressed(c, e.msg)
        /\ e.msg.ts + HistoryTTL >= now
        => e.msg \in view[c].replayed

\* When the hub is quiet, every connected client has been sent the device list
\* that is true now: the last change of membership takes its snapshot after the
\* change and reaches everyone.  (It need not be the last list the client got:
\* PresenceAccurate.)
AccurateArrived ==
    Quiet => \A c \in Conn : Healthy(c) => OnlineDevices \in view[c].rosters

\* A message stored when a client was settled ends up on that client's screen,
\* unless the client stops being a healthy member: a full queue delays it or
\* costs the connection, never just the message (deliver, deliverSlow).
Shown(c, d, k) == \E i \in DOMAIN view[c].log :
                     view[c].log[i].from = d /\ view[c].log[i].n = k

Owed(c, d, k) == \E e \in chat : /\ e.msg.from = d /\ e.msg.n = k
                                 /\ c \in e.settled
                                 /\ Addressed(c, e.msg)

EventuallyShown ==
    \A c, d \in Conn : \A k \in 0..(SendQuota[d] - 1) :
        Owed(c, d, k) ~> Shown(c, d, k) \/ ~Healthy(c)

\* A connection is either whole or wholly gone.
Whole(c) == /\ c \in clients /\ pc[Main(c)] = "read" /\ writer[c] = "run"
            /\ link[c] = "up" /\ c \notin shut /\ queue[c] = <<>>

Gone(c) == /\ c \notin clients /\ pc[Main(c)] \in {"idle", "done"}
           /\ writer[c] \in {"off", "done"} /\ \A s \in slow : s.conn # c

\* Every goroutine waits: handlers for a message or a registration, writers for
\* a frame, retries for room in the channel of a member.
Resting ==
    /\ \A t \in Task : pc[t] \in {"idle", "read", "done"}
    /\ \A c \in Conn : pc[Main(c)] = "read" => link[c] = "up" /\ c \notin shut
    /\ \A c \in Conn : writer[c] = "run" => /\ link[c] = "up" /\ c \notin shut
                                            /\ queue[c] = <<>> /\ c \notin closed
    /\ \A s \in slow : /\ s.at = "retry" /\ Full(s.conn)
                        /\ s.conn \in clients \ closed

\* While all wait, no connection is half dead: one whose link or socket has
\* failed, or that deliverSlow gave up on, has left h.clients, both its pumps have
\* ended and nothing retries for it (Unregister, ReadPump, WritePump, deliverSlow,
\* whichever notices first).
NoneHalfDead == Resting => \A c \in Conn : Whole(c) \/ Gone(c)

\* And all wait exactly when no goroutine has anything left to do: whatever is left
\* of a failed connection is taken away by a step that can be taken.
NothingLeftBehind == (~ENABLED Work <=> Resting) /\ NoneHalfDead

\* docs/usage.md: online devices see each other in the list.  The list a healthy
\* client is left with should be the true one.
PresenceAccurate ==
    Quiet => \A c \in Conn : Healthy(c) => view[c].users = OnlineDevices

OnScreen(c) == view[c].replayed \cup Elements(view[c].log)

\* docs/usage.md: a message is sent to every device and the others see it at
\* once.  Every client that was connected when it was stored should show it.
EveryMemberShows ==
    Quiet => \A e \in chat : \A c \in e.present :
        Healthy(c) /\ Addressed(c, e.msg)
          => e.msg \in OnScreen(c)
=============================================================================
