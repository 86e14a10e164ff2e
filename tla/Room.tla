-------------------------------- MODULE Room --------------------------------
(***************************************************************************)
(* The connection of the mobile app: class Room of mobile/lib/room.dart    *)
(* with LanClient of client.dart.                                          *)
(*                                                                         *)
(* Dart runs one thing at a time, from one await to the next.  A call of   *)
(* an asynchronous function is an entry of call, and "at" is the await it  *)
(* stands at; a step takes it to its next one.  Awaits that wait for       *)
(* nothing outside the isolate (the cancel of a subscription) are no       *)
(* place to stop at.  What several functions do to the fields of Room is   *)
(* written as a function from one record of fields to the next.            *)
(*                                                                         *)
(* A timeout abandons what it waits for and does not stop it: a handshake  *)
(* that takes longer than connect waits may still open its WebSocket.      *)
(***************************************************************************)
EXTENDS Naturals, FiniteSets, Sequences

CONSTANTS
    Server,       \* server ids
    Manual,       \* those made up for a server without identity ("manual:...")
    Nobody,       \* null, for servers
    Slot,         \* bound: calls of asynchronous functions that run at once
    MaxAttempts,  \* bound: attempts to attach or search
    MaxSockets,   \* bound: WebSockets opened
    Ops           \* what the user, the phone and the network do

ASSUME RoomAssumption ==
    /\ Manual \subseteq Server /\ Nobody \notin Server
    /\ MaxAttempts \in Nat \ {0} /\ MaxSockets \in Nat
    /\ Ops \subseteq {"search", "choose", "attach", "manual", "rename", "login",
                      "network", "foreground", "transfer", "dispose"}

VARIABLES
    room,    \* the fields of Room, and the history field crossed
    call,    \* the calls in progress
    sock,    \* every WebSocket: the client it belongs to, whether it is open, and late
    listen,  \* subscriptions that have not ended: <<socket, token>>
    raced    \* history: manual or rename attached while another attempt went on

vars == <<room, call, sock, listen, raced>>

NoCall == [at |-> "none", by |-> "none", token |-> 0, server |-> Nobody,
           silent |-> FALSE, choose |-> FALSE, client |-> 0, ws |-> 0]

\* client is the token of the attempt that made it, 0 for null; sub is the
\* socket that _socket listens to; retry says that the timer of _schedule runs;
\* crossed, that a 401 of a transfer was handled in the middle of an attempt, and
\* no attach or search has begun since.
\* initialize ends by searching for the server that is stored as preferred.
Init ==
    /\ \E s \in Server \cup {Nobody} :
         room = [busy |-> TRUE, connected |-> FALSE, needsPin |-> FALSE,
                 generation |-> 1, selected |-> Nobody, preferred |-> s,
                 servers |-> {}, client |-> 0, sub |-> 0, retry |-> FALSE,
                 foreground |-> TRUE, service |-> FALSE, disposed |-> FALSE,
                 crossed |-> FALSE]
    /\ \E x \in Slot :
         call = [y \in Slot |-> IF y # x THEN NoCall
                                 ELSE [NoCall EXCEPT !.at = "discover", !.token = 1]]
    /\ sock = <<>>
    /\ listen = {}
    /\ raced = FALSE

---------------------------------------------------------------------------
(* Sockets *)

\* late: a WebSocket that opened in time is "no"; one whose handshake went on
\* when connect had stopped waiting "waits", and when it has opened "came".
NewSocket(c, open, late) == [client |-> c, open |-> open, late |-> late]

SocketsOf(c) == {w \in DOMAIN sock : sock[w].client = c /\ sock[w].late = "no"}

\* client.socket: the last one the client opened in time; 0 for null.
SocketOf(c) == IF SocketsOf(c) = {} THEN 0
               ELSE CHOOSE w \in SocketsOf(c) : \A v \in SocketsOf(c) : v <= w

Open(w) == w # 0 /\ sock[w].open

\* Mutant: the socket is left to the server.
KeepSocketOf(c) == sock

\* client?.close(), and client?.socket?.close().  The handshakes of a closed
\* client break off (LateOpens); what they have opened is not theirs to close.
CloseSocketOf(c) == IF SocketOf(c) = 0 THEN sock
                    ELSE [sock EXCEPT ![SocketOf(c)].open = FALSE]

\* Mutant: the subscription is kept.
CancelNothing(r, L) == L

\* _socket?.cancel()
Cancelled(r, L) == {l \in L : l[1] # r.sub}

---------------------------------------------------------------------------
(* Steps shared by the functions of Room.  r and L are the fields and the   *)
(* subscriptions as the caller leaves them, x the call that goes on.        *)

Finish(x) == call' = [call EXCEPT ![x] = NoCall]
Await(x, l) == call' = [call EXCEPT ![x].at = l]

\* Mutant: the timer is for the foreground only.
ScheduledInFront(r) == [r EXCEPT !.retry = r.foreground /\ ~r.disposed]

\* _schedule
Scheduled(r) == [r EXCEPT !.retry = ~r.disposed]

\* Mutant: connected is not reset.
BegunConnected(r) == [r EXCEPT !.retry = FALSE, !.generation = @ + 1, !.busy = TRUE,
                               !.needsPin = FALSE, !.crossed = FALSE]

\* How attach and search begin.
Begun(r) == [r EXCEPT !.retry = FALSE, !.generation = @ + 1, !.busy = TRUE,
                      !.connected = FALSE, !.needsPin = FALSE, !.crossed = FALSE]

\* Mutant: only login has a finally.
FreedByLogin(r, x) == [r EXCEPT !.busy = @ /\ call[x].by # "login"]

\* The finally of attach, search and login.
Freed(r, x) ==
    [r EXCEPT !.busy = @ /\ call[x].by # "login" /\ call[x].token # r.generation]

\* attach up to its first await; it goes on with the request to the server.
Attach(r, L, x, server, silent, by) ==
    /\ r.generation < MaxAttempts
    /\ room' = [Begun(r) EXCEPT !.selected = server, !.client = r.generation + 1]
    /\ listen' = Cancelled(r, L)
    /\ sock' = CloseSocketOf(r.client)
    /\ call' = [call EXCEPT ![x] =
         [NoCall EXCEPT !.at = "info", !.by = by, !.token = r.generation + 1,
                        !.server = server, !.silent = silent]]

\* search up to its first await; it goes on with the permission and the replies.
Search(r, L, x, choose) ==
    IF r.busy \/ r.disposed
    THEN room' = r /\ listen' = L /\ sock' = sock /\ Finish(x)
    ELSE /\ r.generation < MaxAttempts
         /\ room' = [Begun(r) EXCEPT !.client = 0,
                                    !.selected = IF choose THEN Nobody ELSE @]
         /\ listen' = Cancelled(r, L)
         /\ sock' = CloseSocketOf(r.client)
         /\ call' = [call EXCEPT ![x] =
              [NoCall EXCEPT !.at = "discover", !.token = r.generation + 1,
                             !.choose = choose]]

\* _recover after its attach has failed, or when there is nothing to attach to.
FallBack(r, L, x, server) ==
    IF r.disposed \/ r.busy \/ r.needsPin
    THEN room' = r /\ listen' = L /\ sock' = sock /\ Finish(x)
    ELSE IF r.foreground /\ server \notin Manual
    THEN Search(r, L, x, FALSE)
    ELSE room' = Scheduled(r) /\ listen' = L /\ sock' = sock /\ Finish(x)

Recover(r, L, x) ==
    IF r.busy \/ r.disposed
    THEN room' = r /\ listen' = L /\ sock' = sock /\ Finish(x)
    ELSE IF r.selected # Nobody
    THEN Attach(r, L, x, r.selected, TRUE, "recover")
    ELSE FallBack(r, L, x, Nobody)

\* attach and login end, and their caller goes on.
Return(r, x, ok) ==
    IF call[x].by = "recover" /\ ~ok
    THEN FallBack(Freed(r, x), listen, x, call[x].server)
    ELSE room' = Freed(r, x) /\ listen' = listen /\ sock' = sock /\ Finish(x)

Stale(x) == call[x].token # room.generation \/ room.disposed

\* The catch of attach and of login.
Throw(r, x) ==
    IF call[x].by = "login" \/ Stale(x)
    THEN Return(r, x, TRUE)
    ELSE Return(IF call[x].silent THEN r ELSE Scheduled(r), x, FALSE)

\* _open up to its first await: the closing of the client's socket, if it is
\* open, else the connecting.  Without a client nothing is left but the catch.
OpenSocket(r, x) ==
    IF r.client = 0
    THEN /\ room' = Freed(r, x)
         /\ listen' = Cancelled(r, listen) /\ sock' = sock /\ Finish(x)
    ELSE /\ room' = r
         /\ listen' = Cancelled(r, listen)
         /\ sock' = CloseSocketOf(r.client)
         /\ call' = [call EXCEPT
              ![x].at = IF Open(SocketOf(r.client)) THEN "close" ELSE "connect",
              ![x].token = r.generation,
              ![x].client = r.client]

---------------------------------------------------------------------------
(* attach *)

\* The two requests for the server's info and the read of the cookie.
InfoFails(x) == call[x].at = "info" /\ Throw(room, x)

InfoPin(x) ==
    /\ call[x].at = "info"
    /\ Return(IF Stale(x) THEN room ELSE [room EXCEPT !.needsPin = TRUE], x, TRUE)

InfoOpens(x) ==
    /\ call[x].at = "info"
    /\ IF Stale(x) THEN Return(room, x, TRUE) ELSE OpenSocket(room, x)

AttachStep(x) ==
    /\ InfoFails(x) \/ InfoPin(x) \/ InfoOpens(x)
    /\ UNCHANGED raced

---------------------------------------------------------------------------
(* _open, for attach and for login *)

Closed(x) ==
    /\ call[x].at = "close"
    /\ IF room.client = 0
       THEN Throw(room, x)
       ELSE /\ call' = [call EXCEPT ![x].at = "connect", ![x].client = room.client]
            /\ UNCHANGED <<room, sock, listen>>

\* The server refuses, or does not answer in time.
ConnectFails(x) == call[x].at \in {"connect", "hangs"} /\ Throw(room, x)

\* The handshake takes longer than connect waits, and goes on behind its back.
ConnectHangs(x) ==
    /\ call[x].at = "connect" /\ Len(sock) < MaxSockets
    /\ sock' = Append(sock, NewSocket(call[x].client, FALSE, "waits"))
    /\ call' = [call EXCEPT ![x].at = "hangs", ![x].ws = Len(sock) + 1]
    /\ UNCHANGED <<room, listen>>

\* Mutant: what happened while the socket was opened is not looked at.
OvertakenNever(x) == FALSE

\* The test after the connect.
Overtaken(x) == Stale(x)

\* _open returns at once: so does its caller.
ConnectsTooLate(x) ==
    /\ call[x].at = "connect" /\ Len(sock) < MaxSockets /\ Overtaken(x)
    /\ sock' = Append(sock, NewSocket(call[x].client, FALSE, "no"))
    /\ room' = Freed(room, x)
    /\ Finish(x)
    /\ UNCHANGED listen

Connects(x) ==
    /\ call[x].at = "connect" /\ Len(sock) < MaxSockets /\ ~Overtaken(x)
    /\ sock' = Append(sock, NewSocket(call[x].client, TRUE, "no"))
    /\ room' = [room EXCEPT !.preferred = room.selected]
    /\ call' = [call EXCEPT ![x].at = "save1", ![x].ws = Len(sock) + 1]
    /\ UNCHANGED listen

\* The write of the preferred server, before that of its address.
Saves(x) ==
    /\ call[x].at = "save1"
    /\ IF room.selected = Nobody
       THEN Throw(room, x)
       ELSE Await(x, "save2") /\ UNCHANGED <<room, sock, listen>>

\* A write to the store of the phone fails.
SaveFails(x) == call[x].at \in {"save1", "save2", "cookie"} /\ Throw(room, x)

Listens(x) ==
    /\ call[x].at = "save2"
    /\ IF room.selected = Nobody
       THEN Throw([room EXCEPT !.connected = TRUE], x)
       ELSE /\ room' = [Freed(room, x) EXCEPT
                 !.connected = TRUE, !.sub = call[x].ws, !.service = @ \/ room.foreground]
            /\ listen' = listen \cup {<<call[x].ws, call[x].token>>}
            /\ Finish(x)
            /\ UNCHANGED sock

OpenStep(x) ==
    /\ \/ Closed(x) \/ ConnectFails(x) \/ ConnectHangs(x)
       \/ ConnectsTooLate(x) \/ Connects(x)
       \/ Saves(x) \/ SaveFails(x) \/ Listens(x)
    /\ UNCHANGED raced

---------------------------------------------------------------------------
(* search *)

DiscoverFails(x) ==
    /\ call[x].at = "discover"
    /\ room' = Freed(Scheduled(room), x)
    /\ Finish(x)
    /\ UNCHANGED <<sock, listen>>

\* Mutant: every offer is taken.
Offered == Server

\* The servers that can prove to be what they offer.
Verified == Server \ Manual

\* Mutant: any server will do.
PreferredAny(F, preferred) == IF F = {} THEN Nobody ELSE CHOOSE s \in F : TRUE

\* Nobody for no match.
PreferredServer(F, preferred) ==
    IF preferred # Nobody THEN IF preferred \in F THEN preferred ELSE Nobody
    ELSE IF Cardinality(F) = 1 THEN CHOOSE s \in F : TRUE ELSE Nobody

\* F: those of them that answered.
Discovers(x, F) ==
    LET match == IF call[x].choose THEN Nobody ELSE PreferredServer(F, room.preferred)
        r     == [Freed(room, x) EXCEPT !.servers = F]
        more  == F = {} \/ (room.preferred # Nobody /\ ~call[x].choose)
    IN  /\ call[x].at = "discover"
        /\ IF Stale(x) THEN Finish(x) /\ UNCHANGED <<room, sock, listen>>
           ELSE IF match # Nobody THEN Attach(r, listen, x, match, FALSE, "search")
           ELSE /\ room' = IF more THEN Scheduled(r) ELSE r
                /\ Finish(x)
                /\ UNCHANGED <<sock, listen>>

SearchStep(x) ==
    /\ DiscoverFails(x) \/ \E F \in SUBSET Verified : Discovers(x, F)
    /\ UNCHANGED raced

---------------------------------------------------------------------------
(* login *)

LoginBegins(x) ==
    /\ "login" \in Ops /\ ~room.disposed
    /\ room.needsPin /\ ~room.busy /\ room.client # 0
    /\ room' = [room EXCEPT !.busy = TRUE]
    /\ call' = [call EXCEPT ![x] = [NoCall EXCEPT !.at = "login", !.by = "login",
                                                  !.token = room.generation]]
    /\ UNCHANGED <<sock, listen>>

LoginFails(x) == call[x].at = "login" /\ Throw(room, x)

LoginAnswers(x) ==
    /\ call[x].at = "login"
    /\ IF Stale(x) THEN Return(room, x, TRUE)
       ELSE Await(x, "cookie") /\ UNCHANGED <<room, sock, listen>>

\* The generation that _open is given is the one of now.
CookieSaved(x) ==
    /\ call[x].at = "cookie"
    /\ OpenSocket([room EXCEPT !.needsPin = FALSE], x)

LoginStep(x) ==
    /\ LoginFails(x) \/ LoginAnswers(x) \/ CookieSaved(x)
    /\ UNCHANGED raced

---------------------------------------------------------------------------
(* manual and rename: busy is tested before their await, not after it *)

ManualBegins(x) ==
    /\ "manual" \in Ops /\ ~room.busy /\ ~room.disposed
    /\ call' = [call EXCEPT ![x] = [NoCall EXCEPT !.at = "manual"]]
    /\ UNCHANGED <<room, sock, listen, raced>>

ManualFails(x) ==
    call[x].at = "manual" /\ Finish(x) /\ UNCHANGED <<room, sock, listen, raced>>

ManualAnswers(x, server) ==
    /\ call[x].at = "manual"
    /\ Attach(room, listen, x, server, FALSE, "manual")
    /\ raced' = (raced \/ room.busy)

RenameBegins(x) ==
    /\ "rename" \in Ops /\ ~room.busy /\ ~room.disposed
    /\ call' = [call EXCEPT ![x] = [NoCall EXCEPT !.at = "rename"]]
    /\ UNCHANGED <<room, sock, listen, raced>>

Renamed(x) ==
    /\ call[x].at = "rename"
    /\ IF room.selected = Nobody
       THEN Finish(x) /\ UNCHANGED <<room, sock, listen, raced>>
       ELSE /\ Attach(room, listen, x, room.selected, FALSE, "rename")
            /\ raced' = (raced \/ room.busy)

AskStep(x) ==
    \/ ManualFails(x) \/ Renamed(x)
    \/ \E server \in Server : ManualAnswers(x, server)

---------------------------------------------------------------------------
(* reconnect *)

Reconnect(r, x, probe) ==
    IF r.busy \/ r.needsPin \/ r.disposed
    THEN room' = r /\ UNCHANGED <<call, sock, listen>>
    ELSE IF r.connected /\ Open(SocketOf(r.client))
    THEN /\ room' = r
         /\ call' = IF probe THEN [call EXCEPT ![x] = [NoCall EXCEPT !.at = "probe"]]
                    ELSE call
         /\ UNCHANGED <<sock, listen>>
    ELSE Recover([r EXCEPT !.retry = FALSE], listen, x)

ProbeAnswers(x) ==
    call[x].at = "probe" /\ Finish(x) /\ UNCHANGED <<room, sock, listen>>

ProbeFails(x) ==
    /\ call[x].at = "probe"
    /\ IF room.busy \/ room.disposed
       THEN Finish(x) /\ UNCHANGED <<room, sock, listen>>
       ELSE Recover([room EXCEPT !.retry = FALSE], listen, x)

ProbeStep(x) == (ProbeAnswers(x) \/ ProbeFails(x)) /\ UNCHANGED raced

---------------------------------------------------------------------------
(* Calls that begin.  x is free. *)

\* The timer of _schedule.
RetryFires(x) ==
    LET r == [room EXCEPT !.retry = FALSE]
    IN  /\ room.retry
        /\ IF (r.foreground \/ r.service) /\ ~r.busy /\ ~r.needsPin /\ ~r.connected
           THEN Recover(r, listen, x)
           ELSE /\ room' = IF r.connected THEN r ELSE Scheduled(r)
                /\ UNCHANGED <<call, sock, listen>>

\* onDone of a subscription: _lost.
Lost(x, l) ==
    LET r == [room EXCEPT !.connected = FALSE]
        L == listen \ {l}
    IN  /\ ~sock[l[1]].open
        /\ IF l[2] # room.generation \/ room.disposed
           THEN listen' = L /\ UNCHANGED <<room, call, sock>>
           ELSE IF (r.foreground \/ r.service) /\ ~r.busy
           THEN Recover(r, L, x)
           ELSE room' = Scheduled(r) /\ listen' = L /\ UNCHANGED <<call, sock>>

\* The refresh button and the entry of the menu.
UserSearches(x) ==
    /\ ~room.busy /\ ~room.disposed
    /\ \E choose \in BOOLEAN :
         /\ (IF choose THEN "choose" ELSE "search") \in Ops
         /\ Search(room, listen, x, choose)

UserAttaches(x) ==
    /\ "attach" \in Ops /\ ~room.busy /\ ~room.connected /\ ~room.needsPin /\ ~room.disposed
    /\ \E server \in room.servers : Attach(room, listen, x, server, FALSE, "user")

NetworkChanges(x) ==
    /\ "network" \in Ops /\ ~room.disposed /\ (room.foreground \/ room.service)
    /\ Reconnect(room, x, TRUE)

ComesToFront(x) ==
    /\ "foreground" \in Ops /\ ~room.foreground /\ ~room.disposed
    /\ Reconnect([room EXCEPT !.foreground = TRUE], x, FALSE)

Transfers == {"upload", "download"}

\* resumeUpload and download, by what they may do to the connection: one of
\* each at a time (uploading, downloading).
TransferBegins(x, kind) ==
    /\ "transfer" \in Ops /\ room.connected /\ room.client # 0 /\ ~room.disposed
    /\ \A y \in Slot : call[y].at # kind
    /\ call' = [call EXCEPT ![x] = [NoCall EXCEPT !.at = kind]]
    /\ UNCHANGED <<room, sock, listen>>

Begin(x) ==
    /\ call[x].at = "none"
    /\ \/ /\ \/ RetryFires(x) \/ UserSearches(x) \/ UserAttaches(x) \/ LoginBegins(x)
             \/ NetworkChanges(x) \/ ComesToFront(x)
             \/ \E kind \in Transfers : TransferBegins(x, kind)
             \/ \E l \in listen : Lost(x, l)
          /\ UNCHANGED raced
       \/ ManualBegins(x) \/ RenameBegins(x)

---------------------------------------------------------------------------
(* Steps that no call makes or that end a transfer *)

TransferEnds(x) ==
    call[x].at \in Transfers /\ Finish(x) /\ UNCHANGED <<room, sock, listen, raced>>

\* _handleExpired, after a 401.  It does not ask which client the 401 was for,
\* nor what has begun since: a download looks for its file and deletes it first.
\* dispose calls an upload off, as cancelUpload does, but not a download.
Expires(x) ==
    /\ call[x].at = "download" \/ (call[x].at = "upload" /\ ~room.disposed)
    /\ room' = [room EXCEPT !.needsPin = TRUE, !.connected = FALSE,
                            !.crossed = @ \/ room.busy]
    /\ Finish(x)
    /\ UNCHANGED <<sock, listen, raced>>

GoesToBack ==
    /\ "foreground" \in Ops /\ room.foreground /\ ~room.disposed
    /\ room' = [room EXCEPT !.foreground = FALSE]
    /\ UNCHANGED <<call, sock, listen, raced>>

\* The WebSocket that connect did not wait for opens; nobody is told.
LateOpens(w) ==
    /\ sock[w].late = "waits" /\ \A x \in Slot : call[x].at = "hangs" => call[x].ws # w
    /\ sock[w].client = room.client /\ ~room.disposed
    /\ sock' = [sock EXCEPT ![w] = NewSocket(room.client, TRUE, "came")]
    /\ UNCHANGED <<room, call, listen, raced>>

SocketDrops(w) ==
    /\ sock[w].open
    /\ sock' = [sock EXCEPT ![w].open = FALSE]
    /\ UNCHANGED <<room, call, listen, raced>>

Dispose ==
    /\ "dispose" \in Ops /\ ~room.disposed
    /\ room.generation < MaxAttempts
    /\ room' = [room EXCEPT !.disposed = TRUE, !.generation = @ + 1, !.retry = FALSE]
    /\ listen' = Cancelled(room, listen)
    /\ sock' = CloseSocketOf(room.client)
    /\ UNCHANGED <<call, raced>>

Next ==
    \/ \E x \in Slot :
         \/ Begin(x) \/ AttachStep(x) \/ OpenStep(x) \/ SearchStep(x) \/ LoginStep(x)
         \/ AskStep(x) \/ ProbeStep(x) \/ TransferEnds(x) \/ Expires(x)
    \/ \E w \in DOMAIN sock : SocketDrops(w) \/ LateOpens(w)
    \/ GoesToBack \/ Dispose

Spec == Init /\ [][Next]_vars

---------------------------------------------------------------------------
(* Properties *)

Labels == {"none", "info", "close", "connect", "hangs", "save1", "save2", "discover",
           "login", "cookie", "manual", "rename", "probe"} \cup Transfers

\* The fields of Room and of a call keep their types, and what they point to
\* exists.
TypeOK ==
    /\ room \in [busy : BOOLEAN, connected : BOOLEAN, needsPin : BOOLEAN,
                 retry : BOOLEAN, foreground : BOOLEAN, service : BOOLEAN,
                 disposed : BOOLEAN, crossed : BOOLEAN, generation : 1..MaxAttempts,
                 client : 0..MaxAttempts, sub : 0..MaxSockets,
                 selected : Server \cup {Nobody}, preferred : Server \cup {Nobody},
                 servers : SUBSET (Server \ Manual)]
    /\ call \in [Slot -> [at : Labels, token : 0..MaxAttempts, client : 0..MaxAttempts,
                          by : {"none", "search", "recover", "user", "manual",
                                "rename", "login"},
                          server : Server \cup {Nobody}, silent : BOOLEAN,
                          choose : BOOLEAN, ws : 0..MaxSockets]]
    /\ sock \in Seq([client : 1..MaxAttempts, open : BOOLEAN,
                     late : {"no", "waits", "came"}])
    /\ listen \subseteq (DOMAIN sock) \X (1..MaxAttempts)
    /\ raced \in BOOLEAN

Attempting == {"info", "close", "connect", "hangs", "save1", "save2", "discover",
               "login", "cookie"}

\* Every button is dead and every automatic step gives up while busy is set
\* (the tests of busy all over room.dart), so whoever set it must still be there
\* to reset it: whatever attempts overtake each other, busy never stays behind.
BusyReleased ==
    room.busy /\ ~room.disposed =>
        \E x \in Slot : /\ call[x].at \in Attempting
                        /\ call[x].by = "login" \/ call[x].token = room.generation

\* What a subscription writes to devices and messages (room.dart:419-442) comes
\* from a socket of the client in use, made for the server that is selected.
FramesOfSelected ==
    \A l \in listen : l[2] = room.generation =>
        /\ sock[l[1]].client = room.client
        /\ ~room.disposed

Current == {l \in listen : l[2] = room.generation}

\* No message is shown twice: two subscriptions never write to the same list.
OneSubscription == raced \/ Cardinality(Current) <= 1

\* "connected" (the list of devices, the field for messages, the end of every
\* retry) means that there is a socket whose end will be noticed.  A 401 that is
\* handled in the middle of an attempt sets needsPin beside connected, and the
\* login it asks for cancels the subscription and leaves connected as it is; the
\* next attach or search puts that right.
ConnectedIsHeard ==
    room.connected /\ ~raced /\ ~room.crossed /\ ~room.disposed => Current # {}

\* Every open socket is the one that the client in use remembers, so that the
\* next attempt, or dispose, closes it: the phone never stays online, unseen, at
\* a server it has turned away from.  The one way to such a socket is the 8 s of
\* connect (client.dart:93): what opens after them is remembered by nobody.
NoOrphan ==
    ~raced => \A w \in DOMAIN sock : sock[w].open =>
        \/ w = SocketOf(room.client) /\ ~room.disposed
        \/ sock[w].late = "came" /\ \A l \in listen : l[1] # w

\* The app is connected, about to be, waits for the timer or for the user.
Covered ==
    \/ Current # {} \/ room.retry \/ room.needsPin \/ room.disposed
    \/ \E x \in Slot : call[x].at \in Attempting /\ call[x].token = room.generation
    \/ room.selected = Nobody \/ room.preferred = Nobody

\* mobile/README.md:66, 断线后先直接重连上次的服务器地址（退避 2s→30s）: the app does
\* not stop trying to come back.  Whatever a step ends (an attempt, a
\* subscription, the timer), something goes on that leads to the next attempt.
\* What does stop is a login whose connection fails, which starts no timer, and a
\* timer that finds connected left behind (ConnectedIsHeard).
KeepsTrying ==
    [][Covered => \/ Covered' \/ raced \/ (room.crossed /\ room.connected)
                  \/ \E x \in Slot : call[x].by = "login" /\ call'[x].at = "none"]_vars

\* The app never connects by itself to another server than the last one
\* (mobile/README.md, 找不到原服务器时不会自动连接其他服务器): what it attaches to
\* without being asked is the selected or the preferred server, if there is any.
NeverAnotherServer ==
    [][\A x \in Slot :
         /\ call'[x].at = "info" /\ call[x].at # "info"
         /\ call'[x].by \in {"search", "recover"}
         => room.preferred \in {Nobody, call'[x].server} \/ room.selected = call'[x].server]_vars

=============================================================================
