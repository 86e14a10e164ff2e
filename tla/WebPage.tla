------------------------------ MODULE WebPage ------------------------------
(***************************************************************************)
(* A page of the web client (web/static/app.js): how it gets into the room *)
(* and stays there, and which devices it lets the user choose.             *)
(*                                                                         *)
(* The page runs one handler at a time, from one await to the next.  Its   *)
(* handlers share ws, the reconnect timer and the screen; the awaits       *)
(* between them are the fetches of loadConnectionInfo and submitPIN.  The  *)
(* server is what the page can tell of it: up or down, and whether it      *)
(* takes the page's session.                                               *)
(***************************************************************************)
EXTENDS Naturals

CONSTANTS
    MaxSock,     \* bound: WebSockets of the page that may still report something
    MaxAsk,      \* bound: timer callbacks that wait for loadConnectionInfo
    Me, Peers,   \* device ids: this browser, the others
    Rosters,     \* bound: the lists of devices that the server sends
    Nobody,      \* null, for device ids
    MaxStrays,   \* bound: timers that nothing refers to
    PinRequired, \* the room has a PIN
    MaxUpsets    \* bound: what goes wrong, or is done to the page from outside

ASSUME PageAssumption ==
    /\ Me \notin Peers /\ Nobody \notin Peers \cup {Me}
    /\ Rosters \subseteq SUBSET (Peers \cup {Me}) /\ PinRequired \in BOOLEAN
    /\ MaxSock \in Nat /\ MaxAsk \in Nat /\ MaxStrays \in Nat /\ MaxUpsets \in Nat

Sock == 1..MaxSock
Ask == 1..MaxAsk
None == 0        \* null, for sockets

\* Slots hold sockets and calls; the first that is free is taken.
IsFirst(x, Free) == x \in Free /\ \A y \in Free : x <= y

VARIABLES
    inChat,   \* isInChat(); chatName is set exactly then
    ws,       \* the socket of the page, or None
    net,      \* what has become of each socket
    shown,    \* setConnected: the page says it is connected and lets the user send
    timer,    \* the timer of reconnectTimer runs
    strays,   \* timers that run and that reconnectTimer has forgotten
    ask,      \* callbacks of the timer that wait for loadConnectionInfo
    joining,  \* the join button is disabled until submitPIN returns
    pinRow,   \* the PIN is asked for
    boot,     \* how far the page has come since it was loaded
    auto,     \* it goes into the chat by itself when loaded: ?auto=1 and a stored name
    up,       \* the server runs
    session,  \* the server takes the page's session, or asks for none
    devices,  \* deviceId and the list of devices
    upsets,   \* how much has gone wrong
    raced,    \* history: what an await has delayed has gone on though it was overtaken
    muted,    \* history: a dead socket has reported over the open one
    greeted   \* history: the page has had a welcome

sockVars == <<ws, net, raced, muted>>
timerVars == <<timer, strays>>
formVars == <<joining, pinRow, boot, auto>>
hubVars == <<up, session, upsets>>
listVars == <<devices, greeted>>
vars == <<inChat, sockVars, shown, timerVars, ask, formVars, hubVars, listVars>>

\* lost: closed, onclose not yet called; silent: the network is gone and the
\* browser has not noticed; aborted: closed by the page before it was open.
Live == {"connecting", "open", "lost", "silent"}

Fate == Live \cup {"free", "aborted"}

Idle == [at |-> "idle", late |-> FALSE]
Call == [at : {"idle", "sent", "in", "pin"}, late : BOOLEAN]

List == [id : {Nobody, Me}, sig : (SUBSET (Peers \cup {Me})) \cup {{Nobody}},
         rows : SUBSET (Peers \cup {Me}), mine : {Nobody, Me}, early : BOOLEAN]

\* sig is devicesSignature, of Nobody once cleared; rows what the list shows, mine the
\* row shown as this device, early: drawn before the first welcome (history).
Init ==
    /\ inChat = FALSE /\ ws = None /\ shown = FALSE
    /\ net = [s \in Sock |-> "free"]
    /\ timer = FALSE /\ strays = 0 /\ ask = [a \in Ask |-> Idle]
    /\ joining = FALSE /\ pinRow = FALSE
    /\ boot \in {"auth", "ask"} /\ auto \in BOOLEAN
    /\ up = TRUE /\ session \in {TRUE, ~PinRequired} /\ upsets = 0
    /\ devices = [id |-> Nobody, sig |-> {Nobody}, rows |-> {}, mine |-> Nobody, early |-> FALSE]
    /\ raced = FALSE /\ muted = FALSE /\ greeted = FALSE

---------------------------------------------------------------------------
(* The socket *)

SetConnected(online) == shown' = online

Upset == upsets < MaxUpsets /\ upsets' = upsets + 1

IsOpen == ws # None /\ net[ws] \in {"open", "silent"}

\* Mutant: the old socket is dropped, not closed.
LeftOpen == net

\* What connect and leaveChat do to ws: onclose = null, then close().  Closing
\* before the handshake has ended is reported to onerror, which is still set.
Closed ==
    [s \in Sock |-> IF s # ws THEN net[s]
                    ELSE IF net[s] = "connecting" THEN "aborted" ELSE "free"]

\* Every callback that waits is overtaken by what happens now.
Overtaken(A) == [a \in Ask |-> IF A[a] = Idle THEN Idle ELSE [A[a] EXCEPT !.late = TRUE]]

\* connect; A are the callbacks that go on waiting.
Connect(A) ==
    LET left == Closed IN
    \E s \in Sock :
       /\ IsFirst(s, {t \in Sock : left[t] = "free"})
       /\ ws' = s
       /\ net' = [left EXCEPT ![s] = "connecting"]
       /\ muted' = FALSE
       /\ ask' = Overtaken(A)

\* ws.onopen: clears the timer that reconnectTimer names.
Opened(s) ==
    /\ net[s] = "connecting" /\ up /\ session
    /\ net' = [net EXCEPT ![s] = "open"]
    /\ SetConnected(TRUE) /\ timer' = FALSE /\ muted' = FALSE
    /\ UNCHANGED <<inChat, ws, raced, strays, ask, formVars, hubVars, listVars>>

\* Mutant: onclose leaves ws set.
KeptSocket == ws

\* ws = null in onclose.
NoSocket == None

\* ws.onclose: starts the timer and forgets one that may still run.
OnClose(s) ==
    /\ ws' = NoSocket
    /\ net' = [net EXCEPT ![s] = "free"]
    /\ muted' = FALSE /\ SetConnected(FALSE) /\ UNCHANGED raced
    /\ IF inChat
       THEN /\ timer' = TRUE
            /\ strays' = IF timer THEN strays + 1 ELSE strays
            /\ strays' <= MaxStrays
       ELSE UNCHANGED timerVars
    /\ UNCHANGED <<inChat, ask, formVars, listVars>>

\* The handshake fails: no server, no session (401), or the network.
Refused(s) ==
    /\ net[s] = "connecting"
    /\ IF up /\ session
       THEN Upset
       ELSE UNCHANGED upsets
    /\ OnClose(s) /\ UNCHANGED <<up, session>>

\* The browser reports the end of an open socket.
Lost(s) == net[s] = "lost" /\ OnClose(s) /\ UNCHANGED hubVars

\* ws.onerror of a socket that was closed before it was open.  No order is
\* promised between the events of two sockets.
AbortReported(s) ==
    /\ net[s] = "aborted"
    /\ net' = [net EXCEPT ![s] = "free"]
    /\ SetConnected(FALSE) /\ muted' = IsOpen
    /\ UNCHANGED <<inChat, ws, raced, timerVars, ask, formVars, hubVars, listVars>>

---------------------------------------------------------------------------
(* Into the chat and out of it *)

\* enterChat.  The timer is left alone, so a page that is in the chat already (the
\* user has been faster than the initialisation) may be overtaken by its own timer.
EnterChat(A) == inChat' = TRUE /\ SetConnected(FALSE) /\ Connect(A) /\ raced' = (raced \/ inChat)

\* Mutant: the device id goes too, and comes back with the next welcome.
ForgetsId == [devices EXCEPT !.sig = {Nobody}, !.id = Nobody]

\* Of the list, leaveChat clears devicesSignature.
ForgetsList == [devices EXCEPT !.sig = {Nobody}]

\* Mutant: the timer is left to run.
LeaveTimer == timer

\* clearTimeout in leaveChat and reconnectIfStale
NoTimer == FALSE

\* leaveChat; what the page shows of the connection is left as it is.
LeaveChat(A) ==
    /\ inChat' = FALSE /\ ws' = None /\ net' = Closed
    /\ timer' = NoTimer /\ muted' = FALSE
    /\ devices' = ForgetsList
    /\ ask' = Overtaken(A)
    /\ UNCHANGED <<shown, strays, greeted>>

UserLeaves == inChat /\ LeaveChat(ask) /\ UNCHANGED <<raced, formVars, hubVars>>

\* The join button: with the PIN row shown it waits for submitPIN first.
UserJoins ==
    /\ ~inChat /\ ~joining
    /\ IF pinRow
       THEN joining' = TRUE /\ UNCHANGED <<inChat, shown, sockVars, ask>>
       ELSE EnterChat(ask) /\ UNCHANGED joining
    /\ UNCHANGED <<timerVars, pinRow, boot, auto, hubVars, listVars>>

\* submitPIN: whether the PIN was right, and the session it brings.
PinTaken == up /\ session' = TRUE
PinRefused == UNCHANGED session

JoinGoesOn ==
    /\ joining /\ joining' = FALSE
    /\ \/ /\ PinTaken /\ pinRow' = FALSE
          /\ EnterChat(ask)
       \/ PinRefused /\ UNCHANGED <<inChat, shown, sockVars, ask, pinRow>>
    /\ UNCHANGED <<timerVars, boot, auto, up, upsets, listVars>>

\* /api/info as the page takes it: whether it must ask for the PIN.  A request
\* that fails counts as no.
InfoSays(answer) ==
    \/ answer = (IF up /\ ~session THEN "pin" ELSE "in") /\ UNCHANGED upsets
    \/ answer = "in" /\ up /\ ~session /\ Upset

\* consumePINFromHash
BootAuth ==
    /\ boot = "auth" /\ boot' = "ask"
    /\ PinTaken \/ PinRefused
    /\ UNCHANGED <<inChat, sockVars, shown, timerVars, ask, joining, pinRow, auto, up, upsets, listVars>>

BootAsks ==
    /\ boot = "ask" /\ \E answer \in {"in", "pin"} : InfoSays(answer) /\ boot' = answer
    /\ UNCHANGED <<inChat, sockVars, shown, timerVars, ask, joining, pinRow, auto, up, session, listVars>>

\* The end of the initialisation, whatever the user has done meanwhile.
BootEnds ==
    /\ boot \in {"in", "pin"} /\ boot' = "done"
    /\ pinRow' = (boot = "pin") /\ auto' = FALSE
    /\ IF auto /\ boot = "in"
       THEN EnterChat(ask)
       ELSE UNCHANGED <<inChat, shown, sockVars, ask>>
    /\ UNCHANGED <<timerVars, joining, hubVars, listVars>>

---------------------------------------------------------------------------
(* Reconnecting *)

\* The callback of a timer; late will say that it has been overtaken.
Fires(a) ==
    /\ IsFirst(a, {b \in Ask : ask[b] = Idle})
    /\ ask' = IF inChat THEN [ask EXCEPT ![a] = [at |-> "sent", late |-> FALSE]] ELSE ask
    /\ UNCHANGED <<inChat, sockVars, shown, formVars, hubVars, listVars>>

TimerFires(a) == timer /\ timer' = FALSE /\ UNCHANGED strays /\ Fires(a)
StrayFires(a) == strays > 0 /\ strays' = strays - 1 /\ UNCHANGED timer /\ Fires(a)

InfoArrives(a) ==
    /\ ask[a].at = "sent"
    /\ \E answer \in {"in", "pin"} : InfoSays(answer) /\ ask' = [ask EXCEPT ![a].at = answer]
    /\ UNCHANGED <<inChat, sockVars, shown, timerVars, formVars, up, session, listVars>>

\* Mutant: the callback connects only if it could ask.
GoesOnIfAsked(a) ==
    LET A == [ask EXCEPT ![a] = Idle] IN
    /\ raced' = (raced \/ ask[a].late)
    /\ \/ /\ ask[a].at = "pin" /\ LeaveChat(A) /\ pinRow' = TRUE
          /\ UNCHANGED <<joining, boot, auto, hubVars>>
       \/ /\ ask[a].at = "in"
          /\ IF up THEN Connect(A) ELSE ask' = A /\ UNCHANGED <<ws, net, muted>>
          /\ UNCHANGED <<inChat, shown, timerVars, formVars, hubVars, listVars>>

\* The callback after its await.  Nothing is looked at again.
GoesOn(a) ==
    LET A == [ask EXCEPT ![a] = Idle] IN
    /\ raced' = (raced \/ ask[a].late)
    /\ \/ /\ ask[a].at = "pin" /\ LeaveChat(A) /\ pinRow' = TRUE
          /\ UNCHANGED <<joining, boot, auto, hubVars>>
       \/ /\ ask[a].at = "in" /\ Connect(A)
          /\ UNCHANGED <<inChat, shown, timerVars, formVars, hubVars, listVars>>

\* reconnectIfStale: the page is shown again.  Each time is counted as an upset,
\* since it starts a handshake over and may do so again and again.
ComesToFront ==
    /\ inChat /\ ~IsOpen /\ Upset
    /\ timer' = NoTimer
    /\ Connect(ask)
    /\ UNCHANGED <<inChat, raced, shown, strays, formVars, up, session, listVars>>

---------------------------------------------------------------------------
(* Frames that make the list of devices *)

Selectable == devices.rows \ {devices.mine}

\* renderDevices: the same list again is not drawn again.
Presence(users) ==
    /\ ws # None /\ net[ws] = "open"
    /\ users # devices.sig
    /\ devices' = [devices EXCEPT !.sig = users, !.rows = users, !.mine = devices.id,
                                  !.early = ~greeted]
    /\ UNCHANGED <<inChat, sockVars, shown, timerVars, ask, formVars, hubVars, greeted>>

Welcome ==
    /\ ws # None /\ net[ws] = "open"
    /\ devices' = [devices EXCEPT !.id = Me] /\ greeted' = TRUE
    /\ UNCHANGED <<inChat, sockVars, shown, timerVars, ask, formVars, hubVars>>

---------------------------------------------------------------------------
(* The server and the network *)

\* end is "lost" for a connection that is closed, "silent" for one that is cut.
Drops(s, end) ==
    /\ net[s] = "open" /\ Upset
    /\ net' = [net EXCEPT ![s] = end]
    /\ UNCHANGED <<inChat, ws, raced, muted, shown, timerVars, ask, formVars, up, session, listVars>>

Noticed(s) ==
    /\ net[s] = "silent"
    /\ net' = [net EXCEPT ![s] = "lost"]
    /\ UNCHANGED <<inChat, ws, raced, muted, shown, timerVars, ask, formVars, hubVars, listVars>>

\* The process ends; the sessions of the PIN go with it.
HubStops ==
    /\ up /\ Upset /\ up' = FALSE
    /\ session' = ~PinRequired
    /\ net' = [s \in Sock |-> IF net[s] = "open" THEN "lost" ELSE net[s]]
    /\ UNCHANGED <<inChat, ws, raced, muted, shown, timerVars, ask, formVars, listVars>>

HubStarts ==
    /\ ~up /\ up' = TRUE
    /\ UNCHANGED <<inChat, sockVars, shown, timerVars, ask, formVars, session, upsets, listVars>>

SessionExpires ==
    /\ session /\ PinRequired /\ Upset /\ session' = FALSE
    /\ UNCHANGED <<inChat, sockVars, shown, timerVars, ask, formVars, up, listVars>>

---------------------------------------------------------------------------
SocketEvent == \E s \in Sock : Opened(s) \/ Refused(s) \/ Lost(s) \/ AbortReported(s)
TimerEvent == \E a \in Ask : TimerFires(a) \/ StrayFires(a)
FetchEnds == \E a \in Ask : InfoArrives(a) \/ GoesOn(a)
Frame == Welcome \/ \E users \in Rosters : Presence(users)
User == UserJoins \/ UserLeaves \/ ComesToFront
Loading == BootAuth \/ BootAsks \/ BootEnds
Outside == \/ HubStops \/ SessionExpires
           \/ \E s \in Sock : Noticed(s) \/ \E end \in {"lost", "silent"} : Drops(s, end)

Next == SocketEvent \/ TimerEvent \/ FetchEnds \/ Frame \/ User \/ Loading
        \/ JoinGoesOn \/ Outside \/ HubStarts

\* What the browser does by itself, and a server that is started again.
Fairness ==
    /\ \A s \in Sock : WF_vars(Opened(s) \/ Refused(s)) /\ WF_vars(Lost(s))
                       /\ WF_vars(AbortReported(s))
    /\ \A a \in Ask : WF_vars(InfoArrives(a)) /\ WF_vars(GoesOn(a))
    /\ WF_vars(TimerEvent) /\ WF_vars(HubStarts)

Spec == Init /\ [][Next]_vars /\ Fairness

---------------------------------------------------------------------------
(* Properties *)

\* The variables have their types, and ws, when there is one, is a socket that
\* has neither ended nor been given up.
TypeOK ==
    /\ inChat \in BOOLEAN
    /\ ws \in Sock \cup {None}
    /\ net \in [Sock -> Fate]
    /\ shown \in BOOLEAN /\ timer \in BOOLEAN /\ strays \in 0..MaxStrays
    /\ ask \in [Ask -> Call]
    /\ joining \in BOOLEAN /\ pinRow \in BOOLEAN /\ auto \in BOOLEAN
    /\ boot \in {"auth", "ask", "in", "pin", "done"}
    /\ up \in BOOLEAN /\ session \in BOOLEAN /\ upsets \in 0..MaxUpsets
    /\ devices \in List
    /\ raced \in BOOLEAN /\ muted \in BOOLEAN /\ greeted \in BOOLEAN
    /\ ws # None => net[ws] \in Live

\* The page has one connection at most, it is ws, and the page is in the chat.
\* Not so once what waited in an await has gone on late (raced): the callback of
\* the timer connects without looking whether the user has left.
OneLiveSocket ==
    \A s \in Sock : net[s] \in Live => s = ws /\ (inChat \/ raced)

\* The page closes a connection that works only because the user leaves; not so
\* once something has gone on late (raced).
KeptOrLeft ==
    ws # None /\ net[ws] = "open" /\ net'[ws] \notin {"open", "lost", "silent"}
    => UserLeaves \/ raced'
NoSelfKick == [][KeptOrLeft]_vars

\* A page in the chat comes back by itself: at any time it will yet take its
\* connection for open and let the user send, or be out of the chat.  It may not let
\* the user send when the failure of a handshake it gave up is reported over the
\* open connection.
BackOnline == []<>(~inChat \/ (IsOpen /\ (shown \/ muted)))

\* The device of the page is none of those the user can choose as the other end
\* of a private chat; a list drawn before the page knew its id may show it.
SelfIsNoPeer == Me \in Selectable => devices.early

=============================================================================
