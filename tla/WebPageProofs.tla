--------------------------- MODULE WebPageProofs ---------------------------
(***************************************************************************)
(* Theorems about WebPage, for every value of its constants.               *)
(***************************************************************************)
EXTENDS WebPage, TLAPS

USE PageAssumption
USE DEF vars, sockVars, timerVars, formVars, hubVars, listVars

---------------------------------------------------------------------------
(* Types *)

LEMMA FateFacts ==
    /\ Live \subseteq Fate /\ "free" \in Fate /\ "aborted" \in Fate
    /\ "free" \notin Live /\ "aborted" \notin Live
    /\ "connecting" \in Live /\ "open" \in Live /\ "lost" \in Live /\ "silent" \in Live
    /\ Sock \subseteq Nat /\ None \notin Sock /\ Idle \in Call
BY DEF Live, Fate, Sock, None, Idle, Call

\* What is overtaken is a call like before, and late if it waits.
LEMMA OvertakenType ==
    ASSUME NEW A \in [Ask -> Call]
    PROVE  /\ Overtaken(A) \in [Ask -> Call]
           /\ \A a \in Ask : Overtaken(A)[a].at # "idle" => Overtaken(A)[a].late
<1>. SUFFICES ASSUME NEW a \in Ask
              PROVE  /\ Overtaken(A)[a] \in Call
                     /\ Overtaken(A)[a].at # "idle" => Overtaken(A)[a].late
  BY DEF Overtaken
<1>1. A[a] \in Call /\ Overtaken(A)[a] = IF A[a] = Idle THEN Idle ELSE [A[a] EXCEPT !.late = TRUE]
  BY DEF Overtaken
<1>2. CASE A[a] = Idle
  BY <1>1, <1>2 DEF Idle, Call
<1>3. CASE A[a] # Idle
  BY <1>1, <1>3 DEF Call
<1>. QED
  BY <1>2, <1>3

\* The socket of the page is given up, the others are left alone.
LEMMA ClosedType ==
    ASSUME TypeOK
    PROVE  /\ Closed \in [Sock -> Fate]
           /\ \A s \in Sock : Closed[s] \in Live => s # ws /\ net[s] = Closed[s]
BY FateFacts DEF TypeOK, Closed

LEMMA ConnectType ==
    ASSUME TypeOK, NEW A \in [Ask -> Call], Connect(A)
    PROVE  /\ ws' \in Sock /\ net' \in [Sock -> Fate] /\ net'[ws'] = "connecting"
           /\ net' = [Closed EXCEPT ![ws'] = "connecting"]
           /\ muted' = FALSE /\ ask' = Overtaken(A) /\ ask' \in [Ask -> Call]
<1>1. PICK s \in Sock : /\ ws' = s /\ net' = [Closed EXCEPT ![s] = "connecting"]
                        /\ muted' = FALSE /\ ask' = Overtaken(A)
  BY DEF Connect
<1>2. net' \in [Sock -> Fate] /\ net'[s] = "connecting"
  BY <1>1, ClosedType, FateFacts
<1>. QED
  BY <1>1, <1>2, OvertakenType

LEMMA TypeInit == Init => TypeOK
<1>. SUFFICES ASSUME Init PROVE TypeOK
  OBVIOUS
<1>1. devices \in List
  <2>1. /\ devices = [id |-> Nobody, sig |-> {Nobody}, rows |-> {}, mine |-> Nobody,
                      early |-> FALSE]
        /\ {} \in SUBSET (Peers \cup {Me})
    BY DEF Init
  <2>. QED
    BY <2>1 DEF List
<1>2. session \in BOOLEAN
  BY DEF Init
<1>3. net \in [Sock -> Fate] /\ ask \in [Ask -> Call]
  BY FateFacts DEF Init
<1>4. /\ inChat \in BOOLEAN /\ shown \in BOOLEAN /\ timer \in BOOLEAN /\ joining \in BOOLEAN
      /\ pinRow \in BOOLEAN /\ auto \in BOOLEAN /\ up \in BOOLEAN
      /\ raced \in BOOLEAN /\ muted \in BOOLEAN /\ greeted \in BOOLEAN
  BY DEF Init
<1>5. /\ ws = None /\ strays \in 0..MaxStrays /\ upsets \in 0..MaxUpsets
      /\ boot \in {"auth", "ask", "in", "pin", "done"}
  BY DEF Init
<1>. QED
  BY <1>1, <1>2, <1>3, <1>4, <1>5 DEF TypeOK

\* The parts of TypeOK, by the variables the actions leave alone together.
SocketTyped == /\ inChat \in BOOLEAN /\ shown \in BOOLEAN
               /\ ws \in Sock \cup {None} /\ net \in [Sock -> Fate]
               /\ raced \in BOOLEAN /\ muted \in BOOLEAN
               /\ ws # None => net[ws] \in Live
TimerTyped == timer \in BOOLEAN /\ strays \in 0..MaxStrays
CallTyped == ask \in [Ask -> Call]
FormTyped == /\ joining \in BOOLEAN /\ pinRow \in BOOLEAN /\ auto \in BOOLEAN
             /\ boot \in {"auth", "ask", "in", "pin", "done"}
HubTyped == up \in BOOLEAN /\ session \in BOOLEAN /\ upsets \in 0..MaxUpsets
ListTyped == devices \in List /\ greeted \in BOOLEAN

LEMMA Parts ==
    ASSUME TypeOK
    PROVE  SocketTyped /\ TimerTyped /\ CallTyped /\ FormTyped /\ HubTyped /\ ListTyped
BY DEF TypeOK, SocketTyped, TimerTyped, CallTyped, FormTyped, HubTyped, ListTyped

LEMMA PartsNext ==
    ASSUME SocketTyped', TimerTyped', CallTyped', FormTyped', HubTyped', ListTyped'
    PROVE  TypeOK'
BY DEF TypeOK, SocketTyped, TimerTyped, CallTyped, FormTyped, HubTyped, ListTyped

\* What is left alone keeps its type.
LEMMA Framed ==
    ASSUME TypeOK
    PROVE  /\ UNCHANGED <<inChat, shown, sockVars>> => SocketTyped'
           /\ UNCHANGED timerVars => TimerTyped'
           /\ UNCHANGED ask => CallTyped'
           /\ UNCHANGED formVars => FormTyped'
           /\ UNCHANGED hubVars => HubTyped'
           /\ UNCHANGED listVars => ListTyped'
<1>1. UNCHANGED <<inChat, shown, sockVars>> => SocketTyped'
  BY Parts DEF SocketTyped
<1>2. UNCHANGED timerVars => TimerTyped'
  BY Parts DEF TimerTyped
<1>3. UNCHANGED ask => CallTyped'
  BY Parts DEF CallTyped
<1>4. UNCHANGED formVars => FormTyped'
  BY Parts DEF FormTyped
<1>5. UNCHANGED hubVars => HubTyped'
  BY Parts DEF HubTyped
<1>6. UNCHANGED listVars => ListTyped'
  BY Parts DEF ListTyped
<1>. QED
  BY <1>1, <1>2, <1>3, <1>4, <1>5, <1>6

LEMMA UpsetType ==
    ASSUME TypeOK, Upset
    PROVE  upsets' \in 0..MaxUpsets
<1>1. upsets \in 0..MaxUpsets /\ MaxUpsets \in Nat /\ upsets < MaxUpsets /\ upsets' = upsets + 1
  BY Parts DEF HubTyped, Upset
<1>. QED
  BY <1>1

\* Without more than an upset the server is what it was.
LEMMA HubType ==
    ASSUME TypeOK, up' = up, session' = session, Upset \/ upsets' = upsets
    PROVE  HubTyped'
<1>1. upsets' \in 0..MaxUpsets
  BY Parts, UpsetType DEF HubTyped
<1>. QED
  BY <1>1, Parts DEF HubTyped

\* A socket ends: onclose.
LEMMA OnCloseType ==
    ASSUME TypeOK, NEW s \in Sock, OnClose(s)
    PROVE  /\ ws' = None /\ net' = [net EXCEPT ![s] = "free"] /\ net' \in [Sock -> Fate]
           /\ shown' = FALSE /\ muted' = FALSE /\ raced' = raced
           /\ timer' \in BOOLEAN /\ strays' \in 0..MaxStrays
           /\ ~inChat => timer' = timer /\ strays' = strays
           /\ ~timer => strays' = strays
           /\ timer' => inChat \/ timer
           /\ UNCHANGED <<inChat, ask, formVars, listVars>>
<1>1. /\ ws' = None /\ net' = [net EXCEPT ![s] = "free"]
      /\ shown' = FALSE /\ muted' = FALSE /\ raced' = raced
      /\ UNCHANGED <<inChat, ask, formVars, listVars>>
  BY DEF OnClose, NoSocket, SetConnected
<1>2. net' \in [Sock -> Fate]
  <2>1. net \in [Sock -> Fate]
    BY Parts DEF SocketTyped
  <2>. QED
    BY <1>1, <2>1, FateFacts
<1>3. timer \in BOOLEAN /\ strays \in 0..MaxStrays
  BY Parts DEF TimerTyped
<1>4. CASE inChat
  <2>1. /\ timer' = TRUE /\ strays' = (IF timer THEN strays + 1 ELSE strays)
        /\ strays' <= MaxStrays
    BY <1>4 DEF OnClose
  <2>2. strays' \in 0..MaxStrays
    <3>1. CASE timer
      BY <1>3, <2>1, <3>1
    <3>2. CASE ~timer
      BY <1>3, <2>1, <3>2
    <3>. QED
      BY <3>1, <3>2
  <2>3. timer' \in BOOLEAN /\ (~timer => strays' = strays)
    BY <2>1
  <2>. QED
    BY <1>1, <1>2, <1>4, <2>2, <2>3
<1>5. CASE ~inChat
  <2>1. timer' = timer /\ strays' = strays
    BY <1>5 DEF OnClose
  <2>2. timer' \in BOOLEAN /\ strays' \in 0..MaxStrays
    BY <1>3, <2>1
  <2>3. timer' => inChat \/ timer
    BY <2>1
  <2>. QED
    BY <1>1, <1>2, <2>1, <2>2, <2>3
<1>. QED
  BY <1>4, <1>5

LEMMA OnCloseParts ==
    ASSUME TypeOK, NEW s \in Sock, OnClose(s)
    PROVE  SocketTyped' /\ TimerTyped' /\ CallTyped' /\ FormTyped' /\ ListTyped'
<1>1. /\ ws' = None /\ net' \in [Sock -> Fate] /\ shown' = FALSE /\ muted' = FALSE
      /\ raced' = raced /\ inChat' = inChat
      /\ timer' \in BOOLEAN /\ strays' \in 0..MaxStrays
      /\ UNCHANGED <<ask, formVars, listVars>>
  BY OnCloseType
<1>2. SocketTyped'
  <2>1. inChat \in BOOLEAN /\ raced \in BOOLEAN
    BY Parts DEF SocketTyped
  <2>. QED
    BY <1>1, <2>1 DEF SocketTyped
<1>3. TimerTyped'
  BY <1>1 DEF TimerTyped
<1>. QED
  BY <1>1, <1>2, <1>3, Framed

LEMMA SocketTypes ==
    ASSUME TypeOK, NEW s \in Sock, Opened(s) \/ Refused(s) \/ Lost(s) \/ AbortReported(s)
    PROVE  TypeOK'
<1>0. /\ inChat \in BOOLEAN /\ shown \in BOOLEAN
      /\ ws \in Sock \cup {None} /\ net \in [Sock -> Fate]
      /\ raced \in BOOLEAN /\ muted \in BOOLEAN
      /\ ws # None => net[ws] \in Live
  BY Parts DEF SocketTyped
<1>1. CASE Opened(s)
  <2>1. /\ net' = [net EXCEPT ![s] = "open"] /\ shown' = TRUE /\ timer' = FALSE
        /\ muted' = FALSE
        /\ UNCHANGED <<inChat, ws, raced, strays, ask, formVars, hubVars, listVars>>
    BY <1>1 DEF Opened, SetConnected
  <2>2. net' \in [Sock -> Fate] /\ (ws' # None => net'[ws'] \in Live)
    BY <1>0, <2>1, FateFacts
  <2>3. SocketTyped'
    BY <1>0, <2>1, <2>2 DEF SocketTyped
  <2>4. TimerTyped'
    <3>1. strays \in 0..MaxStrays
      BY Parts DEF TimerTyped
    <3>. QED
      BY <2>1, <3>1 DEF TimerTyped
  <2>. QED
    BY <2>1, <2>3, <2>4, Framed, PartsNext
<1>2. CASE Refused(s)
  <2>1. HubTyped'
    BY <1>2, HubType DEF Refused
  <2>2. OnClose(s)
    BY <1>2 DEF Refused
  <2>. QED
    BY <2>1, <2>2, OnCloseParts, PartsNext
<1>3. CASE Lost(s)
  BY <1>3, OnCloseParts, Framed, PartsNext DEF Lost
<1>4. CASE AbortReported(s)
  <2>1. /\ net[s] = "aborted" /\ net' = [net EXCEPT ![s] = "free"] /\ shown' = FALSE
        /\ UNCHANGED <<inChat, ws, raced, timerVars, ask, formVars, hubVars, listVars>>
    BY <1>4 DEF AbortReported, SetConnected
  <2>2. muted' \in BOOLEAN
    BY <1>4 DEF AbortReported, IsOpen
  <2>3. net' \in [Sock -> Fate]
    BY <1>0, <2>1, FateFacts
  <2>4. ws' # None => net'[ws'] \in Live
    BY <1>0, <2>1, FateFacts
  <2>5. SocketTyped'
    BY <1>0, <2>1, <2>2, <2>3, <2>4 DEF SocketTyped
  <2>. QED
    BY <2>1, <2>5, Framed, PartsNext
<1>. QED
  BY <1>1, <1>2, <1>3, <1>4

\* There is a socket, and it connects.
LEMMA ConnectParts ==
    ASSUME TypeOK, NEW A \in [Ask -> Call], Connect(A),
           inChat' \in BOOLEAN, shown' \in BOOLEAN, raced' \in BOOLEAN
    PROVE  SocketTyped' /\ CallTyped'
<1>1. /\ ws' \in Sock /\ net' \in [Sock -> Fate] /\ net'[ws'] = "connecting"
      /\ muted' = FALSE /\ ask' \in [Ask -> Call]
  BY ConnectType
<1>2. net'[ws'] \in Live
  BY <1>1, FateFacts
<1>. QED
  BY <1>1, <1>2 DEF SocketTyped, CallTyped

LEMMA EnterParts ==
    ASSUME TypeOK, EnterChat(ask)
    PROVE  SocketTyped' /\ CallTyped'
<1>1. ask \in [Ask -> Call] /\ raced \in BOOLEAN /\ inChat \in BOOLEAN
  BY Parts DEF CallTyped, SocketTyped
<1>2. Connect(ask) /\ inChat' = TRUE /\ shown' = FALSE /\ raced' = (raced \/ inChat)
  BY DEF EnterChat, SetConnected
<1>3. inChat' \in BOOLEAN /\ shown' \in BOOLEAN /\ raced' \in BOOLEAN
  BY <1>2
<1>. QED
  BY <1>1, <1>2, <1>3, ConnectParts

LEMMA LeaveType ==
    ASSUME TypeOK, NEW A \in [Ask -> Call], LeaveChat(A)
    PROVE  /\ inChat' = FALSE /\ ws' = None /\ net' = Closed /\ net' \in [Sock -> Fate]
           /\ timer' = FALSE /\ muted' = FALSE /\ devices' \in List /\ devices'.id = devices.id
           /\ devices' = ForgetsList
           /\ ask' = Overtaken(A) /\ ask' \in [Ask -> Call]
           /\ UNCHANGED <<shown, strays, greeted>>
<1>1. devices' \in List /\ devices'.id = devices.id
  <2>1. devices \in List /\ devices' = [devices EXCEPT !.sig = {Nobody}]
    BY Parts DEF LeaveChat, ForgetsList, ListTyped
  <2>. QED
    BY <2>1 DEF List
<1>2. /\ inChat' = FALSE /\ ws' = None /\ net' = Closed /\ timer' = FALSE /\ muted' = FALSE
      /\ devices' = ForgetsList /\ ask' = Overtaken(A) /\ UNCHANGED <<shown, strays, greeted>>
  BY DEF LeaveChat, NoTimer
<1>. QED
  BY <1>1, <1>2, ClosedType, OvertakenType

LEMMA LeaveParts ==
    ASSUME TypeOK, NEW A \in [Ask -> Call], LeaveChat(A), raced' \in BOOLEAN
    PROVE  SocketTyped' /\ TimerTyped' /\ CallTyped' /\ ListTyped'
<1>1. /\ inChat' = FALSE /\ ws' = None /\ net' \in [Sock -> Fate] /\ timer' = FALSE
      /\ muted' = FALSE /\ devices' \in List /\ ask' \in [Ask -> Call]
      /\ shown' = shown /\ strays' = strays /\ greeted' = greeted
  BY LeaveType
<1>2. shown \in BOOLEAN /\ strays \in 0..MaxStrays /\ greeted \in BOOLEAN
  BY Parts DEF SocketTyped, TimerTyped, ListTyped
<1>3. SocketTyped'
  BY <1>1, <1>2 DEF SocketTyped
<1>. QED
  BY <1>1, <1>2, <1>3 DEF TimerTyped, CallTyped, ListTyped

\* The form: joining, pinRow, auto, boot.
LEMMA FormTypes ==
    ASSUME TypeOK, UserJoins \/ UserLeaves \/ JoinGoesOn \/ Loading
    PROVE  TypeOK'
<1>0. /\ joining \in BOOLEAN /\ pinRow \in BOOLEAN /\ auto \in BOOLEAN
      /\ boot \in {"auth", "ask", "in", "pin", "done"}
      /\ up \in BOOLEAN /\ session \in BOOLEAN /\ upsets \in 0..MaxUpsets
  BY Parts DEF FormTyped, HubTyped
<1>1. CASE UserJoins
  <2>1. UNCHANGED <<timerVars, pinRow, boot, auto, hubVars, listVars>>
    BY <1>1 DEF UserJoins
  <2>2. CASE pinRow
    <3>1. joining' = TRUE /\ UNCHANGED <<inChat, shown, sockVars, ask>>
      BY <1>1, <2>2 DEF UserJoins
    <3>2. FormTyped'
      BY <1>0, <2>1, <3>1 DEF FormTyped
    <3>. QED
      BY <2>1, <3>1, <3>2, Framed, PartsNext
  <2>3. CASE ~pinRow
    <3>1. EnterChat(ask) /\ joining' = joining
      BY <1>1, <2>3 DEF UserJoins
    <3>2. SocketTyped' /\ CallTyped'
      BY <3>1, EnterParts
    <3>. QED
      BY <2>1, <3>1, <3>2, Framed, PartsNext
  <2>. QED
    BY <2>2, <2>3
<1>2. CASE UserLeaves
  <2>1. LeaveChat(ask) /\ raced' = raced /\ UNCHANGED <<formVars, hubVars>>
    BY <1>2 DEF UserLeaves
  <2>2. ask \in [Ask -> Call] /\ raced' \in BOOLEAN
    BY <2>1, Parts DEF CallTyped, SocketTyped
  <2>. QED
    BY <2>1, <2>2, LeaveParts, Framed, PartsNext
<1>3. CASE JoinGoesOn
  <2>1. /\ joining' = FALSE /\ UNCHANGED <<timerVars, boot, auto, up, upsets, listVars>>
        /\ session' = TRUE \/ session' = session
        /\ \/ pinRow' = FALSE /\ EnterChat(ask)
           \/ UNCHANGED <<inChat, shown, sockVars, ask, pinRow>>
    BY <1>3 DEF JoinGoesOn, PinTaken, PinRefused
  <2>2. session' \in BOOLEAN
    BY <1>0, <2>1
  <2>3. HubTyped'
    BY <1>0, <2>1, <2>2 DEF HubTyped
  <2>4. pinRow' \in BOOLEAN
    BY <1>0, <2>1
  <2>5. FormTyped'
    BY <1>0, <2>1, <2>4 DEF FormTyped
  <2>6. SocketTyped' /\ CallTyped'
    BY <2>1, EnterParts, Framed
  <2>. QED
    BY <2>1, <2>3, <2>5, <2>6, Framed, PartsNext
<1>4. CASE BootAuth
  <2>1. /\ boot' = "ask"
        /\ UNCHANGED <<inChat, sockVars, shown, timerVars, ask, joining, pinRow, auto, up,
                       upsets, listVars>>
    BY <1>4 DEF BootAuth
  <2>0. session' = TRUE \/ session' = session
    BY <1>4 DEF BootAuth, PinTaken, PinRefused
  <2>2. session' \in BOOLEAN /\ boot' \in {"auth", "ask", "in", "pin", "done"}
    BY <1>0, <2>0, <2>1
  <2>3. HubTyped'
    BY <1>0, <2>1, <2>2 DEF HubTyped
  <2>4. FormTyped'
    BY <1>0, <2>1, <2>2 DEF FormTyped
  <2>. QED
    BY <2>1, <2>3, <2>4, Framed, PartsNext
<1>5. CASE BootAsks
  <2>1. PICK answer \in {"in", "pin"} : InfoSays(answer) /\ boot' = answer
    BY <1>5 DEF BootAsks
  <2>2. UNCHANGED <<inChat, sockVars, shown, timerVars, ask, joining, pinRow, auto, up,
                    session, listVars>>
    BY <1>5 DEF BootAsks
  <2>3. HubTyped'
    <3>1. Upset \/ upsets' = upsets
      BY <2>1 DEF InfoSays
    <3>. QED
      BY <2>2, <3>1, HubType
  <2>4. FormTyped'
    BY <1>0, <2>1, <2>2 DEF FormTyped
  <2>. QED
    BY <2>2, <2>3, <2>4, Framed, PartsNext
<1>6. CASE BootEnds
  <2>1. /\ boot' = "done" /\ pinRow' = (boot = "pin") /\ auto' = FALSE
        /\ EnterChat(ask) \/ UNCHANGED <<inChat, shown, sockVars, ask>>
        /\ UNCHANGED <<timerVars, joining, hubVars, listVars>>
    BY <1>6 DEF BootEnds
  <2>2. pinRow' \in BOOLEAN
    BY <2>1
  <2>3. FormTyped'
    BY <1>0, <2>1, <2>2 DEF FormTyped
  <2>4. SocketTyped' /\ CallTyped'
    BY <2>1, EnterParts, Framed
  <2>. QED
    BY <2>1, <2>3, <2>4, Framed, PartsNext
<1>. QED
  BY <1>1, <1>2, <1>3, <1>4, <1>5, <1>6 DEF Loading

LEMMA TimerTypes ==
    ASSUME TypeOK, NEW a \in Ask, TimerFires(a) \/ StrayFires(a)
    PROVE  TypeOK'
<1>1. TimerTyped'
  <2>1. timer \in BOOLEAN /\ strays \in 0..MaxStrays /\ MaxStrays \in Nat
    BY Parts DEF TimerTyped
  <2>2. CASE TimerFires(a)
    <3>1. timer' = FALSE /\ strays' = strays
      BY <2>2 DEF TimerFires
    <3>. QED
      BY <2>1, <3>1 DEF TimerTyped
  <2>3. CASE StrayFires(a)
    <3>1. timer' = timer /\ strays' = strays - 1 /\ strays > 0
      BY <2>3 DEF StrayFires
    <3>2. strays' \in 0..MaxStrays
      BY <2>1, <3>1
    <3>. QED
      BY <2>1, <3>1, <3>2 DEF TimerTyped
  <2>. QED
    BY <2>2, <2>3
<1>2. Fires(a)
  BY DEF TimerFires, StrayFires
<1>3. CallTyped'
  <2>1. [at |-> "sent", late |-> FALSE] \in Call
    BY DEF Call
  <2>2. ask \in [Ask -> Call]
    BY Parts DEF CallTyped
  <2>3. ask' = IF inChat THEN [ask EXCEPT ![a] = [at |-> "sent", late |-> FALSE]] ELSE ask
    BY <1>2 DEF Fires
  <2>. QED
    BY <2>1, <2>2, <2>3 DEF CallTyped
<1>4. UNCHANGED <<inChat, sockVars, shown, formVars, hubVars, listVars>>
  BY <1>2 DEF Fires
<1>. QED
  BY <1>1, <1>3, <1>4, Framed, PartsNext

\* The callback that goes on waits no more; the others stay what they were.
LEMMA LeftCalls ==
    ASSUME TypeOK, NEW a \in Ask
    PROVE  /\ [ask EXCEPT ![a] = Idle] \in [Ask -> Call]
           /\ ask[a].late \in BOOLEAN /\ ask[a] \in Call
<1>1. ask \in [Ask -> Call]
  BY Parts DEF CallTyped
<1>2. [ask EXCEPT ![a] = Idle] \in [Ask -> Call] /\ ask[a] \in Call
  BY <1>1, FateFacts
<1>. QED
  BY <1>2 DEF Call

LEMMA FetchTypes ==
    ASSUME TypeOK, NEW a \in Ask, InfoArrives(a) \/ GoesOn(a)
    PROVE  TypeOK'
<1>1. CASE InfoArrives(a)
  <2>1. PICK answer \in {"in", "pin"} : InfoSays(answer) /\ ask' = [ask EXCEPT ![a].at = answer]
    BY <1>1 DEF InfoArrives
  <2>2. UNCHANGED <<inChat, sockVars, shown, timerVars, formVars, up, session, listVars>>
    BY <1>1 DEF InfoArrives
  <2>3. HubTyped'
    <3>1. Upset \/ upsets' = upsets
      BY <2>1 DEF InfoSays
    <3>. QED
      BY <2>2, <3>1, HubType
  <2>4. CallTyped'
    <3>1. ask \in [Ask -> Call]
      BY Parts DEF CallTyped
    <3>2. [ask[a] EXCEPT !.at = answer] \in Call
      BY LeftCalls DEF Call
    <3>3. ask' = [ask EXCEPT ![a] = [ask[a] EXCEPT !.at = answer]]
      BY <2>1, <3>1
    <3>. QED
      BY <3>1, <3>2, <3>3 DEF CallTyped
  <2>. QED
    BY <2>2, <2>3, <2>4, Framed, PartsNext
<1>2. CASE GoesOn(a)
  <2>. DEFINE A == [ask EXCEPT ![a] = Idle]
  <2>1. A \in [Ask -> Call] /\ raced' \in BOOLEAN
    <3>1. raced' = (raced \/ ask[a].late)
      BY <1>2 DEF GoesOn
    <3>2. raced' \in BOOLEAN
      BY <3>1
    <3>. QED
      BY <3>2, LeftCalls
  <2>2. CASE LeaveChat(A) /\ pinRow' = TRUE /\ UNCHANGED <<joining, boot, auto, hubVars>>
    <3>. HIDE DEF A
    <3>1. SocketTyped' /\ TimerTyped' /\ CallTyped' /\ ListTyped'
      BY <2>1, <2>2, LeaveParts
    <3>2. FormTyped'
      <4>1. FormTyped
        BY Parts
      <4>. QED
        BY <2>2, <4>1 DEF FormTyped
    <3>3. HubTyped'
      BY <2>2, Framed
    <3>. QED
      BY <3>1, <3>2, <3>3, PartsNext
  <2>3. CASE /\ Connect(A)
             /\ UNCHANGED <<inChat, shown, timerVars, formVars, hubVars, listVars>>
    <3>. HIDE DEF A
    <3>1. inChat' \in BOOLEAN /\ shown' \in BOOLEAN
      BY <2>3, Parts DEF SocketTyped
    <3>2. SocketTyped' /\ CallTyped'
      BY <2>1, <2>3, <3>1, ConnectParts
    <3>. QED
      BY <2>3, <3>2, Framed, PartsNext
  <2>. QED
    BY <1>2, <2>2, <2>3 DEF GoesOn
<1>. QED
  BY <1>1, <1>2

LEMMA FrontType ==
    ASSUME TypeOK, ComesToFront
    PROVE  TypeOK'
<1>1. /\ Connect(ask) /\ timer' = FALSE /\ Upset
      /\ UNCHANGED <<inChat, raced, shown, strays, formVars, up, session, listVars>>
  BY DEF ComesToFront, NoTimer
<1>2. /\ ask \in [Ask -> Call] /\ inChat \in BOOLEAN /\ shown \in BOOLEAN /\ raced \in BOOLEAN
      /\ strays \in 0..MaxStrays
  BY Parts DEF CallTyped, SocketTyped, TimerTyped
<1>3. SocketTyped' /\ CallTyped'
  BY <1>1, <1>2, ConnectParts
<1>4. TimerTyped'
  BY <1>1, <1>2 DEF TimerTyped
<1>5. HubTyped'
  BY <1>1, HubType
<1>. QED
  BY <1>1, <1>3, <1>4, <1>5, Framed, PartsNext

LEMMA FrameTypes ==
    ASSUME TypeOK, Frame
    PROVE  TypeOK'
<1>0. devices \in List /\ greeted \in BOOLEAN
  BY Parts DEF ListTyped
<1>1. CASE Welcome
  <2>1. /\ devices' = [devices EXCEPT !.id = Me] /\ greeted' = TRUE
        /\ UNCHANGED <<inChat, sockVars, shown, timerVars, ask, formVars, hubVars>>
    BY <1>1 DEF Welcome
  <2>2. devices' \in List
    BY <1>0, <2>1 DEF List
  <2>3. ListTyped'
    BY <2>1, <2>2 DEF ListTyped
  <2>. QED
    BY <2>1, <2>3, Framed, PartsNext
<1>2. ASSUME NEW users \in Rosters, Presence(users) PROVE TypeOK'
  <2>1. /\ devices' = [devices EXCEPT !.sig = users, !.rows = users, !.mine = devices.id,
                                      !.early = ~greeted]
        /\ greeted' = greeted
        /\ UNCHANGED <<inChat, sockVars, shown, timerVars, ask, formVars, hubVars>>
    BY <1>2 DEF Presence
  <2>2. devices' \in List
    <3>1. users \in SUBSET (Peers \cup {Me}) /\ (~greeted) \in BOOLEAN
      OBVIOUS
    <3>2. devices.id \in {Nobody, Me}
      BY <1>0 DEF List
    <3>. QED
      BY <1>0, <2>1, <3>1, <3>2 DEF List
  <2>3. ListTyped'
    BY <1>0, <2>1, <2>2 DEF ListTyped
  <2>. QED
    BY <2>1, <2>3, Framed, PartsNext
<1>. QED
  BY <1>1, <1>2 DEF Frame

LEMMA OutsideTypes ==
    ASSUME TypeOK, Outside \/ HubStarts
    PROVE  TypeOK'
<1>0. /\ inChat \in BOOLEAN /\ shown \in BOOLEAN
      /\ ws \in Sock \cup {None} /\ net \in [Sock -> Fate]
      /\ raced \in BOOLEAN /\ muted \in BOOLEAN
      /\ ws # None => net[ws] \in Live
      /\ up \in BOOLEAN /\ session \in BOOLEAN /\ upsets \in 0..MaxUpsets
  BY Parts DEF SocketTyped, HubTyped
\* Only the fate of sockets changes.
<1>1. ASSUME net' \in [Sock -> Fate], \A s \in Sock : net[s] \in Live => net'[s] \in Live,
             UNCHANGED <<inChat, ws, raced, muted, shown>>
      PROVE  SocketTyped'
  BY <1>0, <1>1 DEF SocketTyped
<1>2. CASE HubStops
  <2>1. /\ Upset /\ up' = FALSE /\ session' = ~PinRequired
        /\ net' = [s \in Sock |-> IF net[s] = "open" THEN "lost" ELSE net[s]]
        /\ UNCHANGED <<inChat, ws, raced, muted, shown, timerVars, ask, formVars, listVars>>
    BY <1>2 DEF HubStops
  <2>2. net' \in [Sock -> Fate] /\ \A s \in Sock : net[s] \in Live => net'[s] \in Live
    BY <1>0, <2>1, FateFacts
  <2>3. SocketTyped'
    BY <1>1, <2>1, <2>2
  <2>4. HubTyped'
    <3>1. upsets' \in 0..MaxUpsets
      BY <2>1, UpsetType
    <3>2. session' \in BOOLEAN
      BY <2>1
    <3>. QED
      BY <2>1, <3>1, <3>2 DEF HubTyped
  <2>. QED
    BY <2>1, <2>3, <2>4, Framed, PartsNext
<1>3. CASE SessionExpires
  <2>1. /\ session' = FALSE /\ Upset
        /\ UNCHANGED <<inChat, sockVars, shown, timerVars, ask, formVars, up, listVars>>
    BY <1>3 DEF SessionExpires
  <2>2. HubTyped'
    <3>1. upsets' \in 0..MaxUpsets
      BY <2>1, UpsetType
    <3>2. session' \in BOOLEAN
      BY <2>1, Zenon
    <3>. QED
      BY <1>0, <2>1, <3>1, <3>2 DEF HubTyped
  <2>. QED
    BY <2>1, <2>2, Framed, PartsNext
<1>4. ASSUME NEW s \in Sock, Noticed(s) PROVE TypeOK'
  <2>1. /\ net' = [net EXCEPT ![s] = "lost"]
        /\ UNCHANGED <<inChat, ws, raced, muted, shown, timerVars, ask, formVars, hubVars, listVars>>
    BY <1>4 DEF Noticed
  <2>2. net' \in [Sock -> Fate] /\ \A t \in Sock : net[t] \in Live => net'[t] \in Live
    BY <1>0, <2>1, FateFacts
  <2>3. SocketTyped'
    BY <1>1, <2>1, <2>2
  <2>. QED
    BY <2>1, <2>3, Framed, PartsNext
<1>5. ASSUME NEW s \in Sock, NEW end \in {"lost", "silent"}, Drops(s, end) PROVE TypeOK'
  <2>1. /\ Upset /\ net' = [net EXCEPT ![s] = end]
        /\ UNCHANGED <<inChat, ws, raced, muted, shown, timerVars, ask, formVars, up, session,
                       listVars>>
    BY <1>5 DEF Drops
  <2>2. end \in Live /\ end \in Fate
    BY FateFacts
  <2>3. net' \in [Sock -> Fate] /\ \A t \in Sock : net[t] \in Live => net'[t] \in Live
    BY <1>0, <2>1, <2>2
  <2>4. SocketTyped'
    BY <1>1, <2>1, <2>3
  <2>5. HubTyped'
    BY <2>1, HubType
  <2>. QED
    BY <2>1, <2>4, <2>5, Framed, PartsNext
<1>6. CASE HubStarts
  <2>1. /\ up' = TRUE
        /\ UNCHANGED <<inChat, sockVars, shown, timerVars, ask, formVars, session, upsets, listVars>>
    BY <1>6 DEF HubStarts
  <2>2. HubTyped'
    BY <1>0, <2>1 DEF HubTyped
  <2>. QED
    BY <2>1, <2>2, Framed, PartsNext
<1>. QED
  BY <1>2, <1>3, <1>4, <1>5, <1>6 DEF Outside

LEMMA TypeNext == TypeOK /\ [Next]_vars => TypeOK'
<1>. SUFFICES ASSUME TypeOK, [Next]_vars PROVE TypeOK'
  OBVIOUS
<1>1. CASE SocketEvent
  BY <1>1, SocketTypes DEF SocketEvent
<1>2. CASE TimerEvent
  BY <1>2, TimerTypes DEF TimerEvent
<1>3. CASE FetchEnds
  BY <1>3, FetchTypes DEF FetchEnds
<1>4. CASE User
  BY <1>4, FormTypes, FrontType DEF User
<1>5. CASE Loading \/ JoinGoesOn
  BY <1>5, FormTypes
<1>6. CASE Frame
  BY <1>6, FrameTypes
<1>7. CASE Outside \/ HubStarts
  BY <1>7, OutsideTypes
<1>8. CASE UNCHANGED vars
  BY <1>8 DEF TypeOK
<1>. QED
  BY <1>1, <1>2, <1>3, <1>4, <1>5, <1>6, <1>7, <1>8 DEF Next

\* Type correctness: ws is a socket in use whenever there is one.
THEOREM TypeCorrect == Spec => []TypeOK
BY TypeInit, TypeNext, PTL DEF Spec

---------------------------------------------------------------------------
(* One connection *)

\* A callback of the timer waits for loadConnectionInfo, and nothing has
\* happened meanwhile that makes it come too late.
Waits(a) == ask[a].at # "idle" /\ ~ask[a].late

\* As long as nothing has gone on late, no timer is forgotten, and a timer, or a
\* callback that is not overtaken, is there only while the page has no socket.
Calm ==
    ~raced =>
      /\ strays = 0
      /\ timer => inChat /\ ws = None
      /\ \A a \in Ask : Waits(a) => inChat /\ ws = None /\ ~timer

IInv == TypeOK /\ OneLiveSocket /\ Calm

\* What is overtaken does not wait.
LEMMA NoneWaits ==
    ASSUME NEW A \in [Ask -> Call], ask' = Overtaken(A)
    PROVE  \A a \in Ask : ~Waits(a)'
BY OvertakenType DEF Waits

\* With one live socket, closing ws leaves none.
LEMMA ClosedIsDead ==
    ASSUME TypeOK, OneLiveSocket
    PROVE  \A s \in Sock : Closed[s] \notin Live
BY ClosedType DEF OneLiveSocket

\* Connecting keeps one socket, if nobody has left in between.
LEMMA ConnectKeeps ==
    ASSUME TypeOK, OneLiveSocket, NEW A \in [Ask -> Call], Connect(A), inChat' \/ raced'
    PROVE  OneLiveSocket' /\ ws' # None /\ \A a \in Ask : ~Waits(a)'
<1>1. /\ ws' \in Sock /\ net' = [Closed EXCEPT ![ws'] = "connecting"]
      /\ ask' = Overtaken(A) /\ Closed \in [Sock -> Fate]
  BY ConnectType, ClosedType
<1>2. ASSUME NEW s \in Sock, s # ws' PROVE net'[s] \notin Live
  BY <1>1, <1>2, ClosedIsDead
<1>3. OneLiveSocket'
  BY <1>2 DEF OneLiveSocket
<1>. QED
  BY <1>1, <1>3, NoneWaits, FateFacts

LEMMA EnterKeeps ==
    ASSUME IInv, EnterChat(ask), UNCHANGED timerVars
    PROVE  OneLiveSocket' /\ Calm'
<1>1. /\ Connect(ask) /\ ask \in [Ask -> Call] /\ inChat' = TRUE
      /\ raced' = (raced \/ inChat)
  BY DEF EnterChat, IInv, TypeOK
<1>2. OneLiveSocket' /\ \A a \in Ask : ~Waits(a)'
  BY <1>1, ConnectKeeps DEF IInv
<1>3. ~raced' => ~raced /\ ~inChat
  BY <1>1
<1>4. Calm'
  BY <1>2, <1>3 DEF Calm, IInv
<1>. QED
  BY <1>2, <1>4

LEMMA LeaveKeeps ==
    ASSUME IInv, NEW A \in [Ask -> Call], LeaveChat(A), raced => raced'
    PROVE  OneLiveSocket' /\ Calm'
<1>1. /\ net' = Closed /\ timer' = FALSE /\ strays' = strays /\ ask' = Overtaken(A)
  BY LeaveType DEF IInv
<1>2. OneLiveSocket'
  BY <1>1, ClosedIsDead DEF OneLiveSocket, IInv
<1>3. \A a \in Ask : ~Waits(a)'
  BY <1>1, NoneWaits
<1>4. Calm'
  BY <1>1, <1>3 DEF Calm, IInv
<1>. QED
  BY <1>2, <1>4

\* A socket that ends is ws: no timer runs yet, and no callback waits.
LEMMA OnCloseKeeps ==
    ASSUME IInv, NEW s \in Sock, net[s] \in Live, OnClose(s)
    PROVE  OneLiveSocket' /\ Calm'
<1>1. s = ws /\ ws # None
  BY FateFacts DEF IInv, OneLiveSocket
<1>2. /\ ws' = None /\ net' = [net EXCEPT ![s] = "free"] /\ raced' = raced
      /\ ~timer => strays' = strays
      /\ timer' => inChat \/ timer
      /\ UNCHANGED <<inChat, ask>>
  BY OnCloseType DEF IInv
<1>3. OneLiveSocket'
  BY <1>1, <1>2, FateFacts DEF OneLiveSocket, IInv, TypeOK
<1>4. \A a \in Ask : Waits(a)' <=> Waits(a)
  BY <1>2 DEF Waits
<1>5. Calm'
  BY <1>1, <1>2, <1>4 DEF Calm, IInv
<1>. QED
  BY <1>3, <1>5

LEMMA SocketKeeps ==
    ASSUME IInv, NEW s \in Sock, Opened(s) \/ Refused(s) \/ Lost(s) \/ AbortReported(s)
    PROVE  OneLiveSocket' /\ Calm'
<1>1. CASE Opened(s)
  <2>1. /\ net[s] = "connecting" /\ net' = [net EXCEPT ![s] = "open"] /\ timer' = FALSE
        /\ UNCHANGED <<inChat, ws, raced, strays, ask>>
    BY <1>1 DEF Opened
  <2>2. OneLiveSocket'
    BY <2>1, FateFacts DEF OneLiveSocket, IInv, TypeOK
  <2>3. \A a \in Ask : Waits(a)' <=> Waits(a)
    BY <2>1 DEF Waits
  <2>4. Calm'
    BY <2>1, <2>3 DEF Calm, IInv
  <2>. QED
    BY <2>2, <2>4
<1>2. CASE Refused(s)
  BY <1>2, OnCloseKeeps, FateFacts DEF Refused
<1>3. CASE Lost(s)
  BY <1>3, OnCloseKeeps, FateFacts DEF Lost
<1>4. CASE AbortReported(s)
  <2>1. /\ net' = [net EXCEPT ![s] = "free"]
        /\ UNCHANGED <<inChat, ws, raced, timer, strays, ask>>
    BY <1>4 DEF AbortReported
  <2>2. OneLiveSocket'
    BY <2>1, FateFacts DEF OneLiveSocket, IInv, TypeOK
  <2>3. Calm'
    BY <2>1 DEF Calm, Waits, IInv
  <2>. QED
    BY <2>2, <2>3
<1>. QED
  BY <1>1, <1>2, <1>3, <1>4

\* A timer that fires is not one that was forgotten.
LEMMA TimerKeeps ==
    ASSUME IInv, NEW a \in Ask, TimerFires(a) \/ StrayFires(a)
    PROVE  OneLiveSocket' /\ Calm'
<1>1. /\ ask' = IF inChat THEN [ask EXCEPT ![a] = [at |-> "sent", late |-> FALSE]] ELSE ask
      /\ UNCHANGED <<inChat, ws, net, raced>>
  BY DEF TimerFires, StrayFires, Fires
<1>2. OneLiveSocket'
  BY <1>1 DEF OneLiveSocket, IInv
<1>3. CASE raced
  BY <1>1, <1>2, <1>3 DEF Calm
<1>4. CASE ~raced
  <2>1. strays = 0 /\ TimerFires(a)
    BY <1>4 DEF IInv, Calm, StrayFires
  <2>2. timer /\ timer' = FALSE /\ strays' = 0 /\ inChat /\ ws = None
    BY <1>4, <2>1 DEF IInv, Calm, TimerFires
  <2>. QED
    BY <1>1, <1>2, <2>2 DEF Calm
<1>. QED
  BY <1>3, <1>4

LEMMA FetchKeeps ==
    ASSUME IInv, NEW a \in Ask, InfoArrives(a) \/ GoesOn(a)
    PROVE  OneLiveSocket' /\ Calm'
<1>1. CASE InfoArrives(a)
  <2>1. PICK answer \in {"in", "pin"} : ask' = [ask EXCEPT ![a].at = answer]
    BY <1>1 DEF InfoArrives
  <2>2. ask[a].at # "idle" /\ UNCHANGED <<inChat, ws, net, raced, timer, strays>>
    BY <1>1 DEF InfoArrives
  <2>3. \A b \in Ask : Waits(b)' => Waits(b)
    <3>1. ASSUME NEW b \in Ask, b # a, Waits(b)' PROVE Waits(b)
      BY <2>1, <3>1 DEF Waits, IInv, TypeOK
    <3>2. ASSUME Waits(a)' PROVE Waits(a)
      <4>1. ask' = [ask EXCEPT ![a] = [ask[a] EXCEPT !.at = answer]]
        BY <2>1
      <4>2. ask[a] \in Call /\ ask'[a] = [ask[a] EXCEPT !.at = answer]
        BY <4>1 DEF IInv, TypeOK
      <4>3. ask'[a].late = ask[a].late
        BY <4>2 DEF Call
      <4>. QED
        BY <2>2, <3>2, <4>3 DEF Waits
    <3>. QED
      BY <3>1, <3>2
  <2>4. OneLiveSocket'
    BY <2>2 DEF OneLiveSocket, IInv
  <2>5. Calm'
    BY <2>2, <2>3 DEF Calm, IInv
  <2>. QED
    BY <2>4, <2>5
<1>2. CASE GoesOn(a)
  <2>. DEFINE A == [ask EXCEPT ![a] = Idle]
  <2>1. A \in [Ask -> Call] /\ ask[a].at # "idle" /\ raced' = (raced \/ ask[a].late)
    BY <1>2, LeftCalls DEF GoesOn, IInv
  <2>2. CASE LeaveChat(A)
    BY <2>1, <2>2, LeaveKeeps
  <2>3. CASE Connect(A) /\ UNCHANGED <<inChat, timerVars>>
    <3>1. ~raced' => inChat /\ ws = None /\ ~timer /\ strays = 0
      BY <2>1 DEF IInv, Calm, Waits
    <3>2. inChat' \/ raced'
      BY <2>3, <3>1
    <3>3. OneLiveSocket' /\ \A b \in Ask : ~Waits(b)'
      BY <2>1, <2>3, <3>2, ConnectKeeps DEF IInv
    <3>4. Calm'
      BY <2>3, <3>1, <3>3 DEF Calm
    <3>. QED
      BY <3>3, <3>4
  <2>. QED
    BY <1>2, <2>2, <2>3 DEF GoesOn
<1>. QED
  BY <1>1, <1>2

LEMMA FrontKeeps ==
    ASSUME IInv, ComesToFront
    PROVE  OneLiveSocket' /\ Calm'
<1>1. /\ Connect(ask) /\ ask \in [Ask -> Call] /\ inChat /\ timer' = FALSE
      /\ UNCHANGED <<inChat, raced, strays>>
  BY DEF ComesToFront, NoTimer, IInv, TypeOK
<1>2. OneLiveSocket' /\ \A a \in Ask : ~Waits(a)'
  BY <1>1, ConnectKeeps DEF IInv
<1>3. Calm'
  BY <1>1, <1>2 DEF Calm, IInv
<1>. QED
  BY <1>2, <1>3

LEMMA OutsideKeeps ==
    ASSUME IInv, Outside \/ HubStarts
    PROVE  OneLiveSocket' /\ Calm'
<1>1. UNCHANGED <<inChat, ws, raced, timer, strays, ask>>
  BY DEF Outside, HubStops, SessionExpires, Noticed, Drops, HubStarts
<1>2. \A s \in Sock : net'[s] \in Live => net[s] \in Live
  <2>1. CASE HubStops
    BY <2>1, FateFacts DEF HubStops, IInv, TypeOK
  <2>2. ASSUME NEW t \in Sock, Noticed(t)
        PROVE  \A s \in Sock : net'[s] \in Live => net[s] \in Live
    BY <2>2, FateFacts DEF Noticed, IInv, TypeOK
  <2>3. ASSUME NEW t \in Sock, NEW end \in {"lost", "silent"}, Drops(t, end)
        PROVE  \A s \in Sock : net'[s] \in Live => net[s] \in Live
    BY <2>3, FateFacts DEF Drops, IInv, TypeOK
  <2>4. CASE SessionExpires \/ HubStarts
    BY <2>4 DEF SessionExpires, HubStarts
  <2>. QED
    BY <2>1, <2>2, <2>3, <2>4 DEF Outside
<1>3. OneLiveSocket'
  BY <1>1, <1>2 DEF OneLiveSocket, IInv
<1>4. Calm'
  BY <1>1 DEF Calm, Waits, IInv
<1>. QED
  BY <1>3, <1>4

\* Steps that touch neither a socket nor a timer.
LEMMA IdleKeeps ==
    ASSUME IInv, UNCHANGED <<inChat, ws, net, raced, timer, strays, ask>>
    PROVE  OneLiveSocket' /\ Calm'
BY DEF OneLiveSocket, Calm, Waits, IInv

LEMMA FormKeeps ==
    ASSUME IInv, UserJoins \/ UserLeaves \/ JoinGoesOn \/ Loading
    PROVE  OneLiveSocket' /\ Calm'
<1>1. CASE UserJoins
  BY <1>1, EnterKeeps, IdleKeeps DEF UserJoins
<1>2. CASE UserLeaves
  <2>1. LeaveChat(ask) /\ raced' = raced /\ ask \in [Ask -> Call]
    BY <1>2 DEF UserLeaves, IInv, TypeOK
  <2>. QED
    BY <2>1, LeaveKeeps
<1>3. CASE JoinGoesOn
  BY <1>3, EnterKeeps, IdleKeeps DEF JoinGoesOn
<1>4. CASE BootAuth
  BY <1>4, IdleKeeps DEF BootAuth
<1>5. CASE BootAsks
  BY <1>5, IdleKeeps DEF BootAsks
<1>6. CASE BootEnds
  BY <1>6, EnterKeeps, IdleKeeps DEF BootEnds
<1>. QED
  BY <1>1, <1>2, <1>3, <1>4, <1>5, <1>6 DEF Loading

LEMMA InvInit == Init => IInv
<1>. SUFFICES ASSUME Init PROVE OneLiveSocket /\ Calm
  BY TypeInit DEF IInv
<1>1. OneLiveSocket
  BY FateFacts DEF Init, OneLiveSocket
<1>2. \A a \in Ask : ~Waits(a)
  BY DEF Init, Waits, Idle
<1>3. Calm
  BY <1>2 DEF Init, Calm
<1>. QED
  BY <1>1, <1>3

LEMMA InvNext == IInv /\ [Next]_vars => IInv'
<1>. SUFFICES ASSUME IInv, [Next]_vars PROVE OneLiveSocket' /\ Calm'
  BY TypeNext DEF IInv
<1>1. CASE SocketEvent
  BY <1>1, SocketKeeps DEF SocketEvent
<1>2. CASE TimerEvent
  BY <1>2, TimerKeeps DEF TimerEvent
<1>3. CASE FetchEnds
  BY <1>3, FetchKeeps DEF FetchEnds
<1>4. CASE User
  BY <1>4, FormKeeps, FrontKeeps DEF User
<1>5. CASE Loading \/ JoinGoesOn
  BY <1>5, FormKeeps
<1>6. CASE Frame
  BY <1>6, IdleKeeps DEF Frame, Welcome, Presence
<1>7. CASE Outside \/ HubStarts
  BY <1>7, OutsideKeeps
<1>8. CASE UNCHANGED vars
  BY <1>8, IdleKeeps
<1>. QED
  BY <1>1, <1>2, <1>3, <1>4, <1>5, <1>6, <1>7, <1>8 DEF Next

\* The page has one connection at most, and only in the chat, as long as no await
\* has gone on late: connect closes the old socket whoever calls it.
THEOREM OneConnection == Spec => []OneLiveSocket
<1>1. IInv => OneLiveSocket
  BY DEF IInv
<1>. QED
  BY <1>1, InvInit, InvNext, PTL DEF Spec

---------------------------------------------------------------------------
(* Nothing but the user closes a connection that works *)

\* Who is in the chat with an open socket and enters again is overtaken.
LEMMA EnterIsRaced ==
    ASSUME IInv, EnterChat(ask), ws # None, net[ws] = "open"
    PROVE  raced'
<1>1. ws \in Sock /\ raced' = (raced \/ inChat)
  BY DEF IInv, TypeOK, EnterChat
<1>2. inChat \/ raced
  BY <1>1, FateFacts DEF IInv, OneLiveSocket
<1>. QED
  BY <1>1, <1>2

LEMMA KeptStep == IInv /\ [Next]_vars => KeptOrLeft
<1>. SUFFICES ASSUME IInv, [Next]_vars, ws # None, net[ws] = "open",
                     net'[ws] \notin {"open", "lost", "silent"}
              PROVE  UserLeaves \/ raced'
  BY DEF KeptOrLeft
<1>0. ws \in Sock /\ net \in [Sock -> Fate] /\ net' # net
  BY DEF IInv, TypeOK
<1>1. ASSUME NEW s \in Sock, Opened(s) \/ Refused(s) \/ Lost(s) \/ AbortReported(s)
      PROVE  FALSE
  <2>1. CASE s = ws
    BY <1>1, <2>1 DEF Opened, Refused, Lost, AbortReported
  <2>2. CASE s # ws
    <3>1. net'[ws] = net[ws]
      BY <1>0, <1>1, <2>2 DEF Opened, Refused, Lost, AbortReported, OnClose
    <3>. QED
      BY <3>1
  <2>. QED
    BY <2>1, <2>2
<1>2. ASSUME NEW a \in Ask, TimerFires(a) \/ StrayFires(a) \/ InfoArrives(a) PROVE FALSE
  BY <1>0, <1>2 DEF TimerFires, StrayFires, Fires, InfoArrives
<1>3. ASSUME NEW a \in Ask, GoesOn(a) PROVE raced'
  <2>1. raced' = (raced \/ ask[a].late) /\ ask[a].at # "idle"
    BY <1>3 DEF GoesOn
  <2>2. ~raced /\ ~ask[a].late => ws = None
    BY <2>1 DEF IInv, Calm, Waits
  <2>. QED
    BY <2>1, <2>2
<1>4. CASE User
  <2>1. CASE UserJoins
    BY <1>0, <2>1, EnterIsRaced DEF UserJoins
  <2>2. CASE ComesToFront
    BY <2>2 DEF ComesToFront, IsOpen
  <2>. QED
    BY <1>4, <2>1, <2>2 DEF User
<1>5. CASE Loading
  BY <1>0, <1>5, EnterIsRaced DEF Loading, BootAuth, BootAsks, BootEnds
<1>6. CASE JoinGoesOn
  BY <1>0, <1>6, EnterIsRaced DEF JoinGoesOn
<1>7. CASE Frame
  BY <1>0, <1>7 DEF Frame, Welcome, Presence
<1>8. CASE Outside \/ HubStarts
  <2>1. CASE HubStops
    BY <1>0, <2>1 DEF HubStops
  <2>2. ASSUME NEW s \in Sock, Noticed(s) PROVE FALSE
    BY <1>0, <2>2 DEF Noticed
  <2>3. ASSUME NEW s \in Sock, NEW end \in {"lost", "silent"}, Drops(s, end) PROVE FALSE
    BY <1>0, <2>3 DEF Drops
  <2>4. CASE SessionExpires \/ HubStarts
    BY <1>0, <2>4 DEF SessionExpires, HubStarts
  <2>. QED
    BY <1>8, <2>1, <2>2, <2>3, <2>4 DEF Outside
<1>9. CASE UNCHANGED vars
  BY <1>0, <1>9
<1>. QED
  BY <1>1, <1>2, <1>3, <1>4, <1>5, <1>6, <1>7, <1>8, <1>9
     DEF Next, SocketEvent, TimerEvent, FetchEnds

\* An open connection is closed by the page only when the user leaves, unless an
\* await has gone on late: neither reconnectIfStale nor a timer does it.
THEOREM NeverKicked == Spec => NoSelfKick
BY InvInit, InvNext, KeptStep, PTL DEF Spec, NoSelfKick

---------------------------------------------------------------------------
(* The list of devices *)

\* The id that the first welcome has brought stays, and the list is drawn with it.
OwnRow == (greeted => devices.id = Me) /\ SelfIsNoPeer

LEMMA ListKeeps ==
    ASSUME OwnRow, UNCHANGED listVars
    PROVE  OwnRow'
BY DEF OwnRow, SelfIsNoPeer, Selectable

LEMMA LeaveKeepsList ==
    ASSUME TypeOK, OwnRow, NEW A \in [Ask -> Call], LeaveChat(A)
    PROVE  OwnRow'
<1>1. devices \in List /\ devices' = [devices EXCEPT !.sig = {Nobody}] /\ greeted' = greeted
  BY DEF LeaveChat, ForgetsList, TypeOK
<1>2. /\ devices'.id = devices.id /\ devices'.rows = devices.rows
      /\ devices'.mine = devices.mine /\ devices'.early = devices.early
  BY <1>1 DEF List
<1>. QED
  BY <1>1, <1>2 DEF OwnRow, SelfIsNoPeer, Selectable

LEMMA OwnRowNext ==
    ASSUME TypeOK, OwnRow, [Next]_vars
    PROVE  OwnRow'
<1>1. CASE Welcome
  <2>1. devices \in List /\ devices' = [devices EXCEPT !.id = Me]
    BY <1>1 DEF Welcome, TypeOK
  <2>2. /\ devices'.id = Me /\ devices'.rows = devices.rows
        /\ devices'.mine = devices.mine /\ devices'.early = devices.early
    BY <2>1 DEF List
  <2>. QED
    BY <2>2 DEF OwnRow, SelfIsNoPeer, Selectable
<1>2. ASSUME NEW users \in Rosters, Presence(users) PROVE OwnRow'
  <2>1. /\ devices \in List /\ greeted' = greeted
        /\ devices' = [devices EXCEPT !.sig = users, !.rows = users, !.mine = devices.id,
                                      !.early = ~greeted]
    BY <1>2 DEF Presence, TypeOK
  <2>2. /\ devices'.id = devices.id /\ devices'.rows = users
        /\ devices'.mine = devices.id /\ devices'.early = ~greeted
    BY <2>1 DEF List
  <2>. QED
    BY <2>1, <2>2 DEF OwnRow, SelfIsNoPeer, Selectable
<1>3. CASE UserLeaves
  <2>1. ask \in [Ask -> Call] /\ LeaveChat(ask)
    BY <1>3 DEF UserLeaves, TypeOK
  <2>. QED
    BY <2>1, LeaveKeepsList
<1>4. ASSUME NEW a \in Ask, GoesOn(a) PROVE OwnRow'
  <2>. DEFINE A == [ask EXCEPT ![a] = Idle]
  <2>1. A \in [Ask -> Call]
    BY LeftCalls
  <2>2. LeaveChat(A) \/ UNCHANGED listVars
    BY <1>4 DEF GoesOn
  <2>. QED
    BY <2>1, <2>2, LeaveKeepsList, ListKeeps
<1>5. CASE SocketEvent \/ TimerEvent
  BY <1>5, ListKeeps DEF SocketEvent, TimerEvent, Opened, Refused, Lost, AbortReported,
     OnClose, TimerFires, StrayFires, Fires
<1>6. ASSUME NEW a \in Ask, InfoArrives(a) PROVE OwnRow'
  BY <1>6, ListKeeps DEF InfoArrives
<1>7. CASE UserJoins \/ ComesToFront \/ Loading \/ JoinGoesOn
  BY <1>7, ListKeeps DEF UserJoins, ComesToFront, Loading, BootAuth, BootAsks, BootEnds, JoinGoesOn
<1>8. CASE Outside \/ HubStarts
  BY <1>8, ListKeeps DEF Outside, HubStops, SessionExpires, Noticed, Drops, HubStarts
<1>9. CASE UNCHANGED vars
  BY <1>9, ListKeeps
<1>. QED
  BY <1>1, <1>2, <1>3, <1>4, <1>5, <1>6, <1>7, <1>8, <1>9
     DEF Next, Frame, FetchEnds, User

\* renderDevices lets nobody choose the own device, once the page has been welcomed.
THEOREM OwnDevice == Spec => []SelfIsNoPeer
<1>1. Init => OwnRow
  BY DEF Init, OwnRow, SelfIsNoPeer, Selectable
<1>2. TypeOK /\ OwnRow /\ [Next]_vars => OwnRow'
  BY OwnRowNext
<1>3. OwnRow => SelfIsNoPeer
  BY DEF OwnRow
<1>. QED
  BY <1>1, <1>2, <1>3, TypeCorrect, PTL DEF Spec

=============================================================================
