---------------------------- MODULE RoomProofs ----------------------------
(***************************************************************************)
(* The safety invariants of Room, for any servers, any number of calls at  *)
(* once, of attempts and of sockets.                                       *)
(*                                                                         *)
(* Calls overtake each other, and only some of them look whether they have *)
(* been overtaken.  Inv says what holds nevertheless.  Numbers and         *)
(* Standing hold of every call, late or not: nothing is newer than the     *)
(* generation, and a call that is of the present generation works for the  *)
(* client in use.  CalmInv holds until manual or rename attaches while     *)
(* another attempt goes on, or the room is disposed of: there is one       *)
(* attempt at most, it is of the present generation, and from the moment   *)
(* it begins to open a socket no other is open and none is listened to.    *)
(* Two things weaken it.  A socket that opens when connect has given it up *)
(* is open beside the one in use.  A 401 that is handled while an attempt  *)
(* goes on (crossed) leaves needsPin beside connected.                     *)
(***************************************************************************)
EXTENDS Room, SequenceTheorems, FiniteSetTheorems, TLAPS

USE DEF vars

Fields == [busy : BOOLEAN, connected : BOOLEAN, needsPin : BOOLEAN,
           retry : BOOLEAN, foreground : BOOLEAN, service : BOOLEAN,
           disposed : BOOLEAN, crossed : BOOLEAN, generation : 1..MaxAttempts,
           client : 0..MaxAttempts, sub : 0..MaxSockets,
           selected : Server \cup {Nobody}, preferred : Server \cup {Nobody},
           servers : SUBSET (Server \ Manual)]

Call == [at : Labels, token : 0..MaxAttempts, client : 0..MaxAttempts,
         by : {"none", "search", "recover", "user", "manual", "rename", "login"},
         server : Server \cup {Nobody}, silent : BOOLEAN, choose : BOOLEAN,
         ws : 0..MaxSockets]

Socket == [client : 1..MaxAttempts, open : BOOLEAN, late : {"no", "waits", "came"}]

Attempts(x)   == call[x].at \in Attempting
Opening(x)    == call[x].at \in {"close", "connect", "hangs", "save1", "save2"}
Connecting(x) == call[x].at \in {"close", "connect", "hangs"}
Now(x)        == call[x].token = room.generation

\* Tokens and clients are generations that have been.
Numbers ==
    /\ \A x \in Slot : call[x].token <= room.generation /\ call[x].client <= room.generation
    /\ \A l \in listen : l[2] <= room.generation
    /\ \A w \in DOMAIN sock : sock[w].client <= room.generation
    /\ room.client <= room.generation
    /\ Len(sock) <= MaxSockets

\* What a call of the present generation works for is what is in use.
Standing(x) ==
    /\ call[x].at = "discover" => call[x].by = "none"
    /\ call[x].at = "connect" => /\ call[x].client # 0
                                 /\ Now(x) => call[x].client = room.client
    /\ Opening(x) => call[x].token # 0 /\ (Now(x) => room.client # 0)
    /\ call[x].at \in {"save1", "save2"} =>
          /\ call[x].ws \in DOMAIN sock
          /\ sock[call[x].ws].late = "no"
          /\ Now(x) => sock[call[x].ws].client = room.client /\ ~room.disposed

\* What is listened to opened while connect was waiting for it.
InTime == \A l \in listen : sock[l[1]].late = "no"

\* The last socket of a client is there to be chosen.
Latest == \A c \in 0..MaxAttempts : SocketsOf(c) # {} =>
              \E w \in SocketsOf(c) : \A v \in SocketsOf(c) : v <= w

Selects == room.client # 0 => room.selected # Nobody

Calm == ~raced /\ ~room.disposed

\* No socket is open but those that opened too late.
AllShut == \A w \in DOMAIN sock : sock[w].open => sock[w].late = "came"

\* The app is not said to be connected, unless a 401 has crossed the attempt.
Unsaid == ~room.connected \/ room.crossed

CalmInv ==
    /\ \A x, y \in Slot : Attempts(x) /\ Attempts(y) => x = y
    /\ \A x \in Slot : Attempts(x) => room.busy /\ Now(x) /\ Unsaid
    /\ \A x \in Slot : Opening(x) => Current = {}
    /\ \A x \in Slot : Connecting(x) => AllShut
    /\ \A x \in Slot : Attempts(x) /\ room.needsPin =>
          call[x].at \in {"login", "cookie"} \/ room.crossed
    /\ \A l \in Current : l[1] = room.sub
    /\ \A l, k \in Current : l = k
    /\ room.needsPin => Unsaid
    /\ room.connected => Current # {} \/ room.crossed
    /\ \A w \in DOMAIN sock : sock[w].open => w = SocketOf(room.client) \/ sock[w].late = "came"

Inv == /\ Numbers /\ \A x \in Slot : Standing(x)
       /\ Latest /\ Selects /\ InTime
       /\ FramesOfSelected /\ BusyReleased
       /\ Calm => CalmInv
       /\ room.disposed /\ ~raced => AllShut

---------------------------------------------------------------------------
(* Records and sockets *)

LEMMA Types == TypeOK <=> /\ room \in Fields
                          /\ call \in [Slot -> Call]
                          /\ sock \in Seq(Socket)
                          /\ listen \subseteq (DOMAIN sock) \X (1..MaxAttempts)
                          /\ raced \in BOOLEAN
BY DEF TypeOK, Fields, Call, Socket

LEMMA TypesNext == TypeOK' <=> /\ room' \in Fields
                               /\ call' \in [Slot -> Call]
                               /\ sock' \in Seq(Socket)
                               /\ listen' \subseteq (DOMAIN sock') \X (1..MaxAttempts)
                               /\ raced' \in BOOLEAN
BY DEF TypeOK, Fields, Call, Socket

LEMMA NoCallFacts ==
    /\ NoCall \in Call /\ NoCall.at = "none" /\ NoCall.by = "none"
    /\ NoCall.token = 0 /\ NoCall.client = 0
BY RoomAssumption DEF NoCall, Call, Labels, Transfers

LEMMA BegunFacts ==
    ASSUME NEW r \in Fields
    PROVE  /\ Begun(r) = [r EXCEPT !.retry = FALSE, !.generation = @ + 1, !.busy = TRUE,
                                   !.connected = FALSE, !.needsPin = FALSE, !.crossed = FALSE]
           /\ Begun(r).generation = r.generation + 1 /\ Begun(r).busy = TRUE
           /\ Begun(r).connected = FALSE /\ Begun(r).needsPin = FALSE
           /\ Begun(r).disposed = r.disposed /\ Begun(r).sub = r.sub
           /\ Begun(r).client = r.client /\ Begun(r).selected = r.selected
           /\ r.generation < MaxAttempts => Begun(r) \in Fields
<1>1. Begun(r) = [r EXCEPT !.retry = FALSE, !.generation = @ + 1, !.busy = TRUE,
                           !.connected = FALSE, !.needsPin = FALSE, !.crossed = FALSE]
  BY DEF Begun
<1>2. r.generation \in Nat /\ r.generation + 1 # 0
  BY RoomAssumption DEF Fields
<1>3. r.generation < MaxAttempts => r.generation + 1 \in 1..MaxAttempts
  BY <1>2, RoomAssumption
<1>. DEFINE g == r.generation + 1
<1>4. Begun(r) = [r EXCEPT !.retry = FALSE, !.generation = g, !.busy = TRUE,
                           !.connected = FALSE, !.needsPin = FALSE, !.crossed = FALSE]
  BY <1>1 DEF Fields
<1>5. r.generation < MaxAttempts => g \in 1..MaxAttempts
  BY <1>3
<1>. HIDE DEF g
<1>6. /\ Begun(r).generation = g /\ Begun(r).busy = TRUE
      /\ Begun(r).connected = FALSE /\ Begun(r).needsPin = FALSE
      /\ Begun(r).disposed = r.disposed /\ Begun(r).sub = r.sub
      /\ Begun(r).client = r.client /\ Begun(r).selected = r.selected
  BY <1>4 DEF Fields
<1>7. r.generation < MaxAttempts => Begun(r) \in Fields
  BY <1>4, <1>5 DEF Fields
<1>. QED
  BY <1>1, <1>6, <1>7 DEF g

\* Closing a socket leaves it where it is.
LEMMA ShutFacts ==
    ASSUME TypeOK, NEW c
    PROVE  LET s == CloseSocketOf(c)
           IN  /\ s \in Seq(Socket) /\ DOMAIN s = DOMAIN sock /\ Len(s) = Len(sock)
               /\ \A w \in DOMAIN sock : /\ s[w].client = sock[w].client
                                         /\ s[w].late = sock[w].late
                                         /\ s[w].open => sock[w].open /\ w # SocketOf(c)
<1>. DEFINE s == CloseSocketOf(c)  v == SocketOf(c)
<1>1. sock \in Seq(Socket)
  BY Types
<1>2. /\ DOMAIN sock = 1..Len(sock) /\ Len(sock) \in Nat
      /\ \A w \in DOMAIN sock : sock[w] \in Socket /\ w # 0
  BY <1>1
<1>3. CASE v = 0
  BY <1>1, <1>2, <1>3 DEF CloseSocketOf
<1>4. CASE v # 0
  <2>. HIDE DEF v
  <2>1. s = [sock EXCEPT ![v].open = FALSE]
    BY <1>4 DEF CloseSocketOf, v
  <2>2. \A w \in DOMAIN sock : /\ w # v => s[w] = sock[w]
                               /\ w = v => s[w] = [sock[w] EXCEPT !.open = FALSE]
    BY <2>1
  <2>3. DOMAIN s = 1..Len(sock)
    BY <1>2, <2>1
  <2>4. \A w \in DOMAIN sock : /\ s[w] \in Socket /\ s[w].client = sock[w].client
                               /\ s[w].late = sock[w].late
                               /\ s[w].open => sock[w].open /\ w # v
    <3>. TAKE w \in DOMAIN sock
    <3>1. sock[w] \in Socket
      BY <1>2
    <3>2. CASE w = v
      <4>1. s[w] = [sock[w] EXCEPT !.open = FALSE]
        BY <2>2, <3>2
      <4>. QED
        BY <3>1, <4>1 DEF Socket
    <3>3. CASE w # v
      BY <2>2, <3>1, <3>3
    <3>. QED
      BY <3>2, <3>3
  <2>5. s \in Seq(Socket) /\ Len(s) = Len(sock)
    <3>. HIDE DEF s
    <3>1. s = [i \in 1..Len(sock) |-> s[i]]
      BY <2>1, <2>3 DEF s
    <3>. QED
      BY <1>2, <2>3, <2>4, <3>1
  <2>. QED
    BY <1>2, <2>3, <2>4, <2>5 DEF v
<1>. QED
  BY <1>3, <1>4

Last(S) == CHOOSE w \in S : \A v \in S : v <= w

LEMMA SocketsKept ==
    ASSUME DOMAIN sock' = DOMAIN sock,
           \A w \in DOMAIN sock : /\ sock'[w].client = sock[w].client
                                  /\ sock'[w].late = "no" <=> sock[w].late = "no"
    PROVE  /\ \A c : SocketsOf(c)' = SocketsOf(c) /\ SocketOf(c)' = SocketOf(c)
           /\ Latest => Latest'
<1>1. \A c : SocketsOf(c)' = SocketsOf(c)
  BY DEF SocketsOf
<1>2. \A c : SocketOf(c)' = SocketOf(c)
  <2>. TAKE c
  <2>1. SocketOf(c) = IF SocketsOf(c) = {} THEN 0 ELSE Last(SocketsOf(c))
    BY DEF SocketOf, Last
  <2>2. SocketOf(c)' = IF SocketsOf(c)' = {} THEN 0 ELSE Last(SocketsOf(c)')
    BY DEF SocketOf, Last
  <2>. QED
    BY <1>1, <2>1, <2>2
<1>3. Latest => Latest'
  BY <1>1 DEF Latest
<1>. QED
  BY <1>1, <1>2, <1>3

LEMMA NumberFacts ==
    ASSUME TypeOK
    PROVE  /\ room.generation \in Nat \ {0} /\ room.client \in Nat
           /\ MaxAttempts \in Nat /\ MaxSockets \in Nat
           /\ \A x \in Slot : call[x].token \in Nat /\ call[x].client \in Nat /\ call[x].ws \in Nat
           /\ DOMAIN sock = 1..Len(sock) /\ Len(sock) \in Nat
           /\ \A w \in DOMAIN sock : w \in Nat \ {0} /\ sock[w] \in Socket
                                     /\ sock[w].client \in Nat \ {0}
           /\ \A l \in listen : l[1] \in DOMAIN sock /\ l[2] \in Nat \ {0}
<1>1. MaxAttempts \in Nat /\ MaxSockets \in Nat
  BY RoomAssumption
<1>2. room.generation \in Nat \ {0} /\ room.client \in Nat
  BY <1>1, Types DEF Fields
<1>3. \A x \in Slot : call[x].token \in Nat /\ call[x].client \in Nat /\ call[x].ws \in Nat
  BY <1>1, Types DEF Call
<1>4. sock \in Seq(Socket)
  BY Types
<1>5. /\ DOMAIN sock = 1..Len(sock) /\ Len(sock) \in Nat
      /\ \A w \in DOMAIN sock : w \in Nat \ {0} /\ sock[w] \in Socket
  BY <1>4
<1>6. \A w \in DOMAIN sock : sock[w].client \in Nat \ {0}
  BY <1>1, <1>5 DEF Socket
<1>7. \A l \in listen : l[1] \in DOMAIN sock /\ l[2] \in Nat \ {0}
  BY <1>1, Types
<1>. QED
  BY <1>1, <1>2, <1>3, <1>5, <1>6, <1>7

---------------------------------------------------------------------------
(* An attempt begins *)

LEMMA StartKeeps ==
    ASSUME TypeOK, Inv, NEW x \in Slot, NEW k \in Call, call' = [call EXCEPT ![x] = k],
           k.at \in {"info", "discover"}, k.token = room.generation + 1, k.client = 0,
           k.at = "discover" => k.by = "none",
           room' \in Fields, room'.generation = room.generation + 1,
           room'.client \in {0, room.generation + 1},
           room'.client # 0 => room'.selected # Nobody,
           room'.busy = TRUE, room'.connected = FALSE, room'.needsPin = FALSE,
           room'.disposed = room.disposed,
           listen' \subseteq listen, sock' = CloseSocketOf(room.client),
           raced' \in BOOLEAN, raced => raced',
           Calm' => \A y \in Slot : Attempts(y) => y = x
    PROVE  TypeOK' /\ Inv'
<1>. USE NumberFacts
<1>1. /\ sock' \in Seq(Socket) /\ DOMAIN sock' = DOMAIN sock /\ Len(sock') = Len(sock)
      /\ \A w \in DOMAIN sock : /\ sock'[w].client = sock[w].client
                                /\ sock'[w].late = sock[w].late
                                /\ sock'[w].open => sock[w].open /\ w # SocketOf(room.client)
  BY ShutFacts
<1>2. call' \in [Slot -> Call] /\ call'[x] = k /\ \A y \in Slot \ {x} : call'[y] = call[y]
  BY Types
<1>3. TypeOK'
  <2>1. listen' \subseteq (DOMAIN sock') \X (1..MaxAttempts)
    BY <1>1, Types
  <2>. QED
    BY <1>1, <1>2, <2>1 DEF TypeOK, Fields, Call, Socket
<1>4. Numbers'
  <2>1. \A y \in Slot : call'[y].token <= room'.generation /\ call'[y].client <= room'.generation
    BY <1>2 DEF Inv, Numbers
  <2>2. \A l \in listen' : l[2] <= room'.generation
    BY DEF Inv, Numbers
  <2>3. \A w \in DOMAIN sock' : sock'[w].client <= room'.generation
    BY <1>1 DEF Inv, Numbers
  <2>. QED
    BY <1>1, <2>1, <2>2, <2>3 DEF Inv, Numbers
<1>5. \A y \in Slot \ {x} : ~Now(y)'
  BY <1>2 DEF Inv, Numbers, Now
<1>6. \A y \in Slot : Standing(y)'
  BY <1>1, <1>2, <1>5 DEF Inv, Standing, Opening
<1>7. Latest' /\ Selects' /\ InTime'
  BY <1>1, SocketsKept DEF Inv, Selects, InTime
<1>8. Current' = {}
  BY DEF Inv, Numbers, Current
<1>9. FramesOfSelected'
  BY <1>8 DEF FramesOfSelected, Current
<1>10. BusyReleased'
  BY <1>2 DEF BusyReleased, Attempting
<1>11. ~raced' => AllShut'
  <2>1. AllShut => AllShut'
    <3>1. \A w \in DOMAIN sock' : /\ w \in DOMAIN sock /\ sock'[w].late = sock[w].late
                                  /\ sock'[w].open => sock[w].open
      BY <1>1
    <3>. QED
      BY <3>1, Zenon DEF AllShut
  <2>2. ~raced' /\ room.disposed => AllShut'
    BY <2>1 DEF Inv
  <2>3. ~raced' /\ ~room.disposed => AllShut'
    BY <1>1 DEF Inv, Calm, CalmInv, AllShut
  <2>. QED
    BY <2>2, <2>3
<1>12. Calm' => CalmInv'
  <2>. SUFFICES ASSUME Calm' PROVE CalmInv'
    OBVIOUS
  <2>1. CalmInv /\ AllShut'
    BY <1>11 DEF Inv, Calm
  <2>2. \A y \in Slot : Attempts(y)' => y = x
    BY <1>2 DEF Attempts
  <2>3. Unsaid' /\ ~room'.connected /\ ~room'.needsPin
    BY DEF Unsaid
  <2>4. Now(x)'
    BY <1>2 DEF Now
  <2>5. \A y \in Slot : Connecting(y)' => Opening(y)'
    BY DEF Connecting, Opening
  <2>6. \A y \in Slot : ~Opening(y)'
    <3>1. \A y \in Slot : Opening(y)' => Attempts(y)'
      BY DEF Opening, Attempts, Attempting
    <3>2. ~Opening(x)'
      BY <1>2 DEF Opening
    <3>. QED
      BY <2>2, <3>1, <3>2
  <2>. QED
    BY <1>8, <2>1, <2>2, <2>3, <2>4, <2>5, <2>6 DEF CalmInv, AllShut
<1>. QED
  BY <1>3, <1>4, <1>6, <1>7, <1>9, <1>10, <1>11, <1>12 DEF Inv

\* What the shared steps are given: the fields and the subscriptions of now, but for
\* what tells nothing of the attempts in progress.
Passed(r, L) ==
    /\ r \in Fields /\ L \subseteq listen
    /\ r.generation = room.generation /\ r.client = room.client /\ r.sub = room.sub
    /\ r.selected = room.selected /\ r.disposed = room.disposed
    /\ r.crossed = room.crossed

\* The caller x may end here: it does not leave busy behind, nor take it from another,
\* and connected means what it did.
MayEnd(r, L, x) ==
    /\ r.busy /\ ~r.disposed =>
          room.busy /\ ~(Attempts(x) /\ (call[x].by = "login" \/ Now(x)))
    /\ Calm => /\ room.busy /\ ~r.busy => Attempts(x)
               /\ r.needsPin => Unsaid /\ (room.needsPin \/ Attempts(x))
               /\ r.connected => room.connected /\ (Current \subseteq L \/ room.crossed)

LEMMA AttachKeeps ==
    ASSUME TypeOK, Inv, NEW x \in Slot, NEW r, NEW L, Passed(r, L),
           NEW server \in Server, NEW silent \in BOOLEAN,
           NEW by \in {"search", "recover", "user", "manual", "rename"},
           Attach(r, L, x, server, silent, by),
           raced' \in BOOLEAN, raced => raced', Calm' => \A y \in Slot : Attempts(y) => y = x
    PROVE  TypeOK' /\ Inv'
<1>. USE NumberFacts
<1>. DEFINE g == r.generation + 1
            k == [NoCall EXCEPT !.at = "info", !.by = by, !.token = g, !.server = server,
                                !.silent = silent]
<1>1. r.generation < MaxAttempts /\ g = room.generation + 1 /\ g \in 0..MaxAttempts
  BY DEF Attach, Passed
<1>2. room' = [Begun(r) EXCEPT !.selected = server, !.client = g]
  BY DEF Attach
<1>3. Begun(r) \in Fields /\ server # Nobody
  BY <1>1, BegunFacts, RoomAssumption DEF Passed
<1>4. call' = [call EXCEPT ![x] = k]
  BY DEF Attach
<1>. HIDE DEF g
<1>5. k \in Call /\ k.at = "info" /\ k.token = g /\ k.client = 0
  BY <1>1, NoCallFacts DEF Call, Labels
<1>. HIDE DEF k
<1>6. /\ room' \in Fields /\ room'.client = g /\ room'.selected = server
      /\ room'.generation = Begun(r).generation /\ room'.busy = Begun(r).busy
      /\ room'.connected = Begun(r).connected /\ room'.needsPin = Begun(r).needsPin
      /\ room'.disposed = Begun(r).disposed
  BY <1>1, <1>2, <1>3 DEF Fields
<1>7. /\ room'.generation = g /\ room'.busy = TRUE /\ room'.connected = FALSE
      /\ room'.needsPin = FALSE /\ room'.disposed = room.disposed
  BY <1>6, BegunFacts DEF Passed, g
<1>8. listen' \subseteq listen /\ sock' = CloseSocketOf(room.client)
  BY DEF Attach, Passed, Cancelled
<1>. QED
  BY <1>1, <1>3, <1>4, <1>5, <1>6, <1>7, <1>8, StartKeeps

LEMMA BusyStays ==
    ASSUME Inv, NEW x \in Slot,
           room'.busy /\ ~room'.disposed =>
               room.busy /\ ~(Attempts(x) /\ (call[x].by = "login" \/ Now(x))),
           room'.generation = room.generation, room'.disposed = room.disposed,
           \A y \in Slot \ {x} : call'[y] = call[y]
    PROVE  BusyReleased'
<1>. SUFFICES ASSUME room'.busy, ~room'.disposed PROVE BusyReleased'
  BY DEF BusyReleased
<1>1. room.busy /\ ~(Attempts(x) /\ (call[x].by = "login" \/ Now(x)))
  OBVIOUS
<1>2. PICK y \in Slot : /\ Attempts(y)
                        /\ call[y].by = "login" \/ call[y].token = room.generation
  BY <1>1 DEF Inv, BusyReleased, Attempts
<1>3. y # x
  BY <1>1, <1>2 DEF Now
<1>. QED
  BY <1>2, <1>3 DEF BusyReleased, Attempts

\* Nothing begins and nothing is closed; the call of x may end.
LEMMA HaltKeeps ==
    ASSUME TypeOK, Inv, NEW x \in Slot, Passed(room', listen'), MayEnd(room', listen', x),
           UNCHANGED <<sock, raced>>,
           Finish(x) \/ (UNCHANGED call /\ ~Attempts(x))
    PROVE  TypeOK' /\ Inv'
<1>. USE NumberFacts DEF Passed
<1>1. /\ call' \in [Slot -> Call]
      /\ \A y \in Slot \ {x} : call'[y] = call[y]
      /\ \/ call'[x] = NoCall
         \/ call'[x] = call[x] /\ ~Attempts(x)
  BY Types, NoCallFacts DEF Finish
<1>2. TypeOK'
  BY <1>1, Types, TypesNext
<1>3. \A y \in Slot : Attempts(y)' => Attempts(y) /\ y # x /\ call'[y] = call[y]
  BY <1>1, NoCallFacts DEF Attempts, Attempting
<1>4. \A y \in Slot : call'[y].at = "none" \/ call'[y] = call[y]
  BY <1>1, NoCallFacts
<1>5. Numbers'
  BY <1>1, NoCallFacts DEF Inv, Numbers
<1>6. \A y \in Slot : Standing(y)'
  <2>. TAKE y \in Slot
  <2>1. CASE call'[y].at = "none"
    BY <2>1 DEF Standing, Opening
  <2>2. CASE call'[y] = call[y]
    BY <2>2 DEF Inv, Standing, Opening, Now
  <2>. QED
    BY <1>4, <2>1, <2>2
<1>7. Latest' /\ Selects' /\ FramesOfSelected' /\ InTime'
  BY SocketsKept DEF Inv, Selects, FramesOfSelected, InTime
<1>8. BusyReleased'
  BY <1>1, BusyStays DEF MayEnd
<1>9. AllShut' <=> AllShut
  BY DEF AllShut
<1>10. Calm' => CalmInv'
  <2>. SUFFICES ASSUME Calm' PROVE CalmInv'
    OBVIOUS
  <2>1. Calm /\ CalmInv
    BY DEF Calm, Inv
  <2>2. room'.connected => room.connected
    BY <2>1 DEF MayEnd
  <2>3. Unsaid => Unsaid'
    BY <2>2 DEF Unsaid
  <2>4. Current' \subseteq Current
    BY DEF Current
  <2>5. \A y \in Slot : Attempts(y)' => room'.busy /\ Now(y)' /\ Unsaid'
    <3>. SUFFICES ASSUME NEW y \in Slot, Attempts(y)' PROVE room'.busy /\ Now(y)' /\ Unsaid'
      OBVIOUS
    <3>1. Attempts(y) /\ y # x /\ room.busy /\ Now(y) /\ Unsaid
      BY <1>3, <2>1 DEF CalmInv
    <3>2. ~Attempts(x)
      BY <2>1, <3>1 DEF CalmInv
    <3>3. room'.busy
      BY <2>1, <3>1, <3>2 DEF MayEnd
    <3>. QED
      BY <1>3, <2>3, <3>1, <3>3 DEF Now
  <2>6. \A y, z \in Slot : Attempts(y)' /\ Attempts(z)' => y = z
    BY <1>3, <2>1 DEF CalmInv
  <2>7. room'.connected => Current' # {} \/ room'.crossed
    BY <2>1 DEF MayEnd, CalmInv, Current
  <2>8. \A y \in Slot : call'[y].at # "none" => call'[y] = call[y]
    BY <1>4
  <2>9. \A w \in DOMAIN sock' :
           sock'[w].open => w = SocketOf(room.client)' \/ sock'[w].late = "came"
    BY <2>1, SocketsKept DEF CalmInv
  <2>10. room'.needsPin => Unsaid'
    BY <2>1, <2>3 DEF MayEnd
  <2>11. \A y \in Slot : Attempts(y)' /\ room'.needsPin =>
            call'[y].at \in {"login", "cookie"} \/ room'.crossed
    <3>. SUFFICES ASSUME NEW y \in Slot, Attempts(y)', room'.needsPin
                  PROVE  call'[y].at \in {"login", "cookie"} \/ room'.crossed
      OBVIOUS
    <3>1. Attempts(y) /\ y # x /\ call'[y] = call[y]
      BY <1>3
    <3>2. room.needsPin
      BY <2>1, <3>1 DEF MayEnd, CalmInv
    <3>. QED
      BY <2>1, <3>1, <3>2 DEF CalmInv
  <2>12. \A y \in Slot : Opening(y)' => Current' = {}
    BY <2>1, <2>4, <2>8 DEF CalmInv, Opening
  <2>13. \A y \in Slot : Connecting(y)' => AllShut'
    BY <1>9, <2>1, <2>8 DEF CalmInv, Connecting
  <2>14. /\ \A l \in Current' : l[1] = room'.sub
         /\ \A l, k \in Current' : l = k
    BY <2>1, <2>4 DEF CalmInv
  <2>. QED
    BY <2>5, <2>6, <2>7, <2>9, <2>10, <2>11, <2>12, <2>13, <2>14 DEF CalmInv
<1>. QED
  BY <1>2, <1>5, <1>6, <1>7, <1>8, <1>9, <1>10 DEF Inv, Calm

\* Where busy is clear, nobody else attempts anything.
LEMMA FreeIsSolo ==
    ASSUME Inv, NEW x \in Slot, NEW r, NEW L, MayEnd(r, L, x), ~r.busy, Calm
    PROVE  \A y \in Slot : Attempts(y) => y = x
BY DEF MayEnd, Inv, CalmInv

LEMMA SearchKeeps ==
    ASSUME TypeOK, Inv, NEW x \in Slot, NEW r, NEW L, Passed(r, L), MayEnd(r, L, x),
           NEW choose \in BOOLEAN, Search(r, L, x, choose), UNCHANGED raced
    PROVE  TypeOK' /\ Inv'
<1>. USE NumberFacts
<1>1. CASE r.busy \/ r.disposed
  <2>1. room' = r /\ listen' = L /\ sock' = sock /\ Finish(x)
    BY <1>1 DEF Search
  <2>. QED
    BY <2>1, HaltKeeps
<1>2. CASE ~(r.busy \/ r.disposed)
  <2>. DEFINE g == r.generation + 1
              k == [NoCall EXCEPT !.at = "discover", !.token = g, !.choose = choose]
              s == IF choose THEN Nobody ELSE Begun(r).selected
  <2>1. r.generation < MaxAttempts /\ g = room.generation + 1 /\ g \in 0..MaxAttempts
    BY <1>2 DEF Search, Passed
  <2>2. Begun(r) \in Fields
    BY <2>1, BegunFacts DEF Passed
  <2>3. room' = [Begun(r) EXCEPT !.client = 0, !.selected = s] /\ s \in Server \cup {Nobody}
    BY <1>2, <2>2 DEF Search, Fields
  <2>4. /\ call' = [call EXCEPT ![x] = k]
        /\ listen' \subseteq listen /\ sock' = CloseSocketOf(room.client)
    BY <1>2 DEF Search, Passed, Cancelled
  <2>. HIDE DEF g, s
  <2>5. k \in Call /\ k.at = "discover" /\ k.token = g /\ k.client = 0 /\ k.by = "none"
    BY <2>1, NoCallFacts DEF Call, Labels
  <2>. HIDE DEF k
  <2>10. 0 \in 0..MaxAttempts
    OBVIOUS
  <2>6. /\ room' \in Fields /\ room'.client = 0
        /\ room'.generation = Begun(r).generation /\ room'.busy = Begun(r).busy
        /\ room'.connected = Begun(r).connected /\ room'.needsPin = Begun(r).needsPin
        /\ room'.disposed = Begun(r).disposed
    BY <2>2, <2>3, <2>10 DEF Fields
  <2>7. /\ room'.generation = g /\ room'.busy = TRUE /\ room'.connected = FALSE
        /\ room'.needsPin = FALSE /\ room'.disposed = room.disposed
    BY <2>6, BegunFacts DEF Passed, g
  <2>8. Calm' => \A y \in Slot : Attempts(y) => y = x
    BY <1>2, <2>7, FreeIsSolo DEF Calm
  <2>9. raced' \in BOOLEAN
    BY Types
  <2>. QED
    BY <2>1, <2>4, <2>5, <2>6, <2>7, <2>8, <2>9, StartKeeps
<1>. QED
  BY <1>1, <1>2

---------------------------------------------------------------------------
(* An attempt ends, and its caller goes on *)

LEMMA ScheduledFacts ==
    ASSUME NEW r \in Fields
    PROVE  /\ Scheduled(r) \in Fields
           /\ \A L : Passed(r, L) => Passed(Scheduled(r), L)
           /\ \A L, x : MayEnd(r, L, x) => MayEnd(Scheduled(r), L, x)
<1>1. Scheduled(r) = [r EXCEPT !.retry = ~r.disposed]
  BY DEF Scheduled
<1>2. /\ Scheduled(r) \in Fields
      /\ Scheduled(r).generation = r.generation /\ Scheduled(r).client = r.client
      /\ Scheduled(r).sub = r.sub /\ Scheduled(r).selected = r.selected
      /\ Scheduled(r).disposed = r.disposed /\ Scheduled(r).busy = r.busy
      /\ Scheduled(r).needsPin = r.needsPin /\ Scheduled(r).connected = r.connected
      /\ Scheduled(r).crossed = r.crossed
  BY <1>1 DEF Fields
<1>. QED
  BY <1>2 DEF Passed, MayEnd

\* The fields an attempt leaves behind when it returns.
Leaves(r) == /\ Passed(r, listen) /\ r.busy = room.busy
             /\ Calm => (r.needsPin => Unsaid) /\ (r.connected => room.connected)

LEMMA FreedFacts ==
    ASSUME TypeOK, NEW x \in Slot, NEW r, Leaves(r), Attempts(x)
    PROVE  /\ Freed(r, x) \in Fields /\ Passed(Freed(r, x), listen)
           /\ MayEnd(Freed(r, x), listen, x)
           /\ Freed(r, x).connected = r.connected /\ Freed(r, x).needsPin = r.needsPin
<1>. DEFINE b == r.busy /\ call[x].by # "login" /\ call[x].token # r.generation
<1>1. r \in Fields /\ b \in BOOLEAN
  BY DEF Leaves, Passed, Fields
<1>2. Freed(r, x) = [r EXCEPT !.busy = b]
  BY <1>1 DEF Freed, Fields
<1>3. b => room.busy /\ call[x].by # "login" /\ ~Now(x)
  BY DEF Leaves, Passed, Now
<1>. HIDE DEF b
<1>4. /\ Freed(r, x) \in Fields /\ Freed(r, x).busy = b
      /\ Freed(r, x).generation = r.generation /\ Freed(r, x).client = r.client
      /\ Freed(r, x).sub = r.sub /\ Freed(r, x).selected = r.selected
      /\ Freed(r, x).disposed = r.disposed /\ Freed(r, x).crossed = r.crossed
      /\ Freed(r, x).needsPin = r.needsPin /\ Freed(r, x).connected = r.connected
  BY <1>1, <1>2 DEF Fields
<1>. QED
  BY <1>3, <1>4 DEF Leaves, Passed, MayEnd, Current

LEMMA FallBackKeeps ==
    ASSUME TypeOK, Inv, NEW x \in Slot, NEW r, NEW L, Passed(r, L), MayEnd(r, L, x),
           NEW server, FallBack(r, L, x, server), UNCHANGED raced
    PROVE  TypeOK' /\ Inv'
<1>1. CASE room' = r /\ listen' = L /\ sock' = sock /\ Finish(x)
  BY <1>1, HaltKeeps
<1>2. CASE Search(r, L, x, FALSE)
  BY <1>2, SearchKeeps
<1>3. CASE room' = Scheduled(r) /\ listen' = L /\ sock' = sock /\ Finish(x)
  <2>1. Passed(Scheduled(r), L) /\ MayEnd(Scheduled(r), L, x)
    BY ScheduledFacts DEF Passed
  <2>. QED
    BY <1>3, <2>1, HaltKeeps
<1>. QED
  BY <1>1, <1>2, <1>3 DEF FallBack

LEMMA RecoverKeeps ==
    ASSUME TypeOK, Inv, NEW x \in Slot, NEW r, NEW L, Passed(r, L), MayEnd(r, L, x),
           Recover(r, L, x), UNCHANGED raced
    PROVE  TypeOK' /\ Inv'
<1>1. CASE r.busy \/ r.disposed
  <2>1. room' = r /\ listen' = L /\ sock' = sock /\ Finish(x)
    BY <1>1 DEF Recover
  <2>. QED
    BY <2>1, HaltKeeps
<1>2. CASE ~(r.busy \/ r.disposed) /\ r.selected # Nobody
  <2>1. Attach(r, L, x, r.selected, TRUE, "recover")
    BY <1>2 DEF Recover
  <2>2. r.selected \in Server
    BY <1>2 DEF Passed, Fields
  <2>3. Calm' => \A y \in Slot : Attempts(y) => y = x
    <3>1. Calm' => Calm
      <4>1. ~room.disposed
        BY <1>2 DEF Passed
      <4>. QED
        BY <4>1 DEF Calm
    <3>. QED
      BY <1>2, <3>1, FreeIsSolo
  <2>4. raced' \in BOOLEAN
    BY Types
  <2>. QED
    BY <2>1, <2>2, <2>3, <2>4, AttachKeeps
<1>3. CASE ~(r.busy \/ r.disposed) /\ r.selected = Nobody
  BY <1>3, FallBackKeeps DEF Recover
<1>. QED
  BY <1>1, <1>2, <1>3

LEMMA ReturnKeeps ==
    ASSUME TypeOK, Inv, NEW x \in Slot, Attempts(x), NEW r, Leaves(r), NEW ok \in BOOLEAN,
           Return(r, x, ok), UNCHANGED raced
    PROVE  TypeOK' /\ Inv'
<1>1. Passed(Freed(r, x), listen) /\ MayEnd(Freed(r, x), listen, x)
  BY FreedFacts
<1>2. CASE FallBack(Freed(r, x), listen, x, call[x].server)
  BY <1>1, <1>2, FallBackKeeps
<1>3. CASE room' = Freed(r, x) /\ listen' = listen /\ sock' = sock /\ Finish(x)
  BY <1>1, <1>3, HaltKeeps
<1>. QED
  BY <1>2, <1>3 DEF Return

LEMMA ThrowKeeps ==
    ASSUME TypeOK, Inv, NEW x \in Slot, Attempts(x), NEW r, Leaves(r),
           Throw(r, x), UNCHANGED raced
    PROVE  TypeOK' /\ Inv'
<1>1. CASE Return(r, x, TRUE) \/ Return(r, x, FALSE)
  BY <1>1, ReturnKeeps
<1>2. CASE Return(Scheduled(r), x, FALSE)
  <2>1. r \in Fields /\ Scheduled(r) = [r EXCEPT !.retry = ~r.disposed]
    BY DEF Scheduled, Leaves, Passed
  <2>2. /\ Passed(Scheduled(r), listen)
        /\ Scheduled(r).busy = r.busy /\ Scheduled(r).needsPin = r.needsPin
        /\ Scheduled(r).connected = r.connected
    BY <2>1, ScheduledFacts DEF Leaves, Fields
  <2>3. Leaves(Scheduled(r))
    BY <2>2 DEF Leaves
  <2>. QED
    BY <1>2, <2>3, ReturnKeeps
<1>. QED
  BY <1>1, <1>2 DEF Throw

LEMMA AsItIs ==
    ASSUME TypeOK, Inv
    PROVE  Passed(room, listen) /\ Leaves(room)
BY Types DEF Passed, Leaves, Inv, CalmInv

---------------------------------------------------------------------------
(* _open *)

LEMMA OpenKeeps ==
    ASSUME TypeOK, Inv, NEW x \in Slot, Attempts(x), NEW r, Leaves(r),
           Calm => ~r.needsPin \/ room.crossed, OpenSocket(r, x), UNCHANGED raced
    PROVE  TypeOK' /\ Inv'
<1>. USE NumberFacts DEF Leaves, Passed
<1>1. CASE r.client = 0
  <2>1. room' = Freed(r, x) /\ listen' = Cancelled(r, listen) /\ sock' = sock /\ Finish(x)
    BY <1>1 DEF OpenSocket
  <2>2. Passed(room', listen')
    BY <2>1, FreedFacts DEF Cancelled
  <2>3. MayEnd(room', listen', x)
    <3>1. MayEnd(room', listen, x) /\ room'.connected = r.connected
      BY <2>1, FreedFacts
    <3>2. Calm => Unsaid /\ (r.connected => room.connected)
      BY DEF Inv, CalmInv
    <3>. QED
      BY <3>1, <3>2 DEF MayEnd, Unsaid
  <2>. QED
    BY <2>1, <2>2, <2>3, HaltKeeps
<1>2. CASE r.client # 0
  <2>. DEFINE at == IF Open(SocketOf(r.client)) THEN "close" ELSE "connect"
              k  == [call[x] EXCEPT !.at = at, !.token = r.generation, !.client = r.client]
  <2>1. /\ room' = r /\ listen' = Cancelled(r, listen) /\ sock' = CloseSocketOf(room.client)
        /\ call' = [call EXCEPT ![x] = k]
    BY <1>2, Types DEF OpenSocket
  <2>2. at \in {"close", "connect"} /\ at \in Labels /\ at \in Attempting
    BY DEF Labels, Attempting
  <2>3. r.generation \in 0..MaxAttempts /\ r.client \in 0..MaxAttempts
    BY DEF Fields
  <2>. HIDE DEF at
  <2>4. /\ k \in Call /\ k.at = at /\ k.token = room.generation
        /\ k.client = room.client /\ k.by = call[x].by
    <3>1. call[x] \in Call /\ r.generation = room.generation /\ r.client = room.client
      BY Types
    <3>2. k \in Call
      BY <2>2, <2>3, <3>1 DEF Call
    <3>3. /\ k.at = at /\ k.token = r.generation /\ k.client = r.client /\ k.by = call[x].by
      BY <3>1 DEF Call
    <3>. QED
      BY <3>1, <3>2, <3>3
  <2>. HIDE DEF k
  <2>5. call' \in [Slot -> Call] /\ call'[x] = k /\ \A y \in Slot \ {x} : call'[y] = call[y]
    BY <2>1, <2>4, Types
  <2>6. /\ sock' \in Seq(Socket) /\ DOMAIN sock' = DOMAIN sock /\ Len(sock') = Len(sock)
        /\ \A w \in DOMAIN sock : /\ sock'[w].client = sock[w].client
                                  /\ sock'[w].late = sock[w].late
                                  /\ sock'[w].open => sock[w].open /\ w # SocketOf(room.client)
    BY <2>1, ShutFacts
  <2>7. listen' \subseteq listen
    BY <2>1 DEF Cancelled
  <2>8. TypeOK'
    BY <2>1, <2>5, <2>6, <2>7, Types, TypesNext
  <2>9. Numbers'
    BY <2>1, <2>4, <2>5, <2>6, <2>7 DEF Inv, Numbers
  <2>10. \A y \in Slot : Standing(y)'
    <3>1. Standing(x)'
      <4>1. /\ call'[x].at \in {"close", "connect"} /\ call'[x].client = r.client
            /\ call'[x].token = r.generation /\ r.client # 0 /\ r.generation # 0
            /\ room'.client = r.client
        BY <1>2, <2>1, <2>2, <2>4, <2>5
      <4>. QED
        BY <4>1 DEF Standing, Now, Opening
    <3>2. ASSUME NEW y \in Slot \ {x} PROVE Standing(y)'
      <4>1. /\ Standing(y) /\ call'[y] = call[y] /\ room'.generation = room.generation
            /\ room'.client = room.client /\ room'.disposed = room.disposed
        BY <2>1, <2>5 DEF Inv
      <4>. QED
        BY <2>6, <4>1 DEF Standing, Now, Opening
    <3>. QED
      BY <3>1, <3>2
  <2>11. Latest' /\ Selects' /\ InTime'
    BY <2>1, <2>6, <2>7, SocketsKept DEF Inv, Selects, InTime
  <2>12. FramesOfSelected'
    BY <2>1, <2>6, <2>7 DEF Inv, FramesOfSelected
  <2>13. BusyReleased'
    BY <2>1, <2>2, <2>4, <2>5 DEF BusyReleased
  <2>14. ~raced' /\ (room.disposed \/ Calm) => AllShut'
    <3>1. AllShut => AllShut'
      BY <2>6 DEF AllShut
    <3>2. Calm => AllShut'
      BY <2>6 DEF Inv, CalmInv, AllShut
    <3>. QED
      BY <3>1, <3>2 DEF Inv
  <2>15. Calm' => CalmInv'
    <3>. SUFFICES ASSUME Calm' PROVE CalmInv'
      OBVIOUS
    <3>1. Calm /\ CalmInv /\ AllShut'
      BY <2>1, <2>14 DEF Calm, Inv
    <3>2. Unsaid /\ room.busy /\ Now(x) /\ (r.connected => room.connected)
      BY <3>1 DEF CalmInv
    <3>3. Unsaid' /\ (room'.needsPin => room'.crossed) /\ (room'.connected => room'.crossed)
      BY <2>1, <3>1, <3>2 DEF Unsaid
    <3>4. Current' = {}
      BY <2>1, <3>1 DEF CalmInv, Current, Cancelled
    <3>5. \A y \in Slot : Attempts(y)' => y = x
      BY <2>5, <3>1 DEF CalmInv, Attempts
    <3>6. Now(x)' /\ room'.busy
      BY <2>1, <2>4, <2>5, <3>2 DEF Now
    <3>. QED
      BY <2>1, <3>1, <3>3, <3>4, <3>5, <3>6 DEF CalmInv, AllShut
  <2>. QED
    BY <2>1, <2>8, <2>9, <2>10, <2>11, <2>12, <2>13, <2>14, <2>15 DEF Inv
<1>. QED
  BY <1>1, <1>2

\* An attempt goes on to a place where what is in use need not change.
LEMMA MoveKeeps ==
    ASSUME TypeOK, Inv, NEW x \in Slot, Attempts(x), NEW k \in Call,
           call' = [call EXCEPT ![x] = k], UNCHANGED <<room, sock, listen, raced>>,
           k.at \in Attempting, k.token = call[x].token, k.by = call[x].by,
           k.client <= room.generation, k.at # "discover",
           k.at \in {"login", "cookie"} <=> call[x].at \in {"login", "cookie"},
           Standing(x)',
           k.at \in {"close", "connect", "hangs"} => Connecting(x),
           k.at \in {"save1", "save2"} => Opening(x)
    PROVE  TypeOK' /\ Inv'
<1>1. call' \in [Slot -> Call] /\ call'[x] = k /\ \A y \in Slot \ {x} : call'[y] = call[y]
  BY Types
<1>2. TypeOK'
  BY <1>1, Types, TypesNext
<1>3. Numbers'
  BY <1>1 DEF Inv, Numbers
<1>4. \A y \in Slot : Standing(y)'
  <2>1. ASSUME NEW y \in Slot \ {x} PROVE Standing(y)'
    BY <1>1 DEF Inv, Standing, Now, Opening
  <2>. QED
    BY <2>1
<1>5. Latest' /\ Selects' /\ FramesOfSelected' /\ InTime' /\ (AllShut' <=> AllShut)
  BY SocketsKept DEF Inv, Selects, FramesOfSelected, InTime, AllShut
<1>6. \A y \in Slot : /\ Attempts(y)' <=> Attempts(y)
                      /\ call'[y].token = call[y].token /\ call'[y].by = call[y].by
                      /\ y # x => call'[y] = call[y]
  BY <1>1 DEF Attempts
<1>7. BusyReleased'
  BY <1>6 DEF Inv, BusyReleased, Attempts
<1>8. Calm' => CalmInv'
  <2>. SUFFICES ASSUME Calm' PROVE CalmInv'
    OBVIOUS
  <2>1. Calm /\ CalmInv
    BY DEF Calm, Inv
  <2>2. (Unsaid' <=> Unsaid) /\ Current' = Current
    BY DEF Unsaid, Current
  <2>3. \A y \in Slot : Connecting(y)' => Connecting(y)
    BY <1>1 DEF Connecting
  <2>4. \A y \in Slot : Opening(y)' => Opening(y)
    BY <1>1, <2>3 DEF Opening, Connecting
  <2>5. \A y \in Slot : Opening(y)' => Current' = {}
    BY <2>1, <2>2, <2>4 DEF CalmInv
  <2>6. \A y \in Slot : Connecting(y)' => AllShut'
    BY <1>5, <2>1, <2>3 DEF CalmInv
  <2>7. \A y \in Slot : Attempts(y)' /\ room'.needsPin =>
           call'[y].at \in {"login", "cookie"} \/ room'.crossed
    BY <1>1, <1>6, <2>1 DEF CalmInv
  <2>8. \A w \in DOMAIN sock' :
           sock'[w].open => w = SocketOf(room.client)' \/ sock'[w].late = "came"
    BY <2>1, SocketsKept DEF CalmInv
  <2>9. \A y \in Slot : Attempts(y)' => room'.busy /\ Now(y)' /\ Unsaid'
    BY <1>6, <2>1, <2>2 DEF CalmInv, Now
  <2>. QED
    BY <1>6, <2>1, <2>2, <2>5, <2>6, <2>7, <2>8, <2>9 DEF CalmInv
<1>. QED
  BY <1>2, <1>3, <1>4, <1>5, <1>7, <1>8 DEF Inv, Calm

\* The place x goes to by Await.
LEMMA AwaitFacts ==
    ASSUME TypeOK, NEW x \in Slot, NEW l \in Labels
    PROVE  LET k == [call[x] EXCEPT !.at = l]
           IN  /\ k \in Call /\ k.at = l /\ k.token = call[x].token /\ k.by = call[x].by
               /\ k.client = call[x].client /\ k.ws = call[x].ws
               /\ Await(x, l) => call' = [call EXCEPT ![x] = k] /\ call'[x] = k
<1>1. call[x] \in Call
  BY Types
<1>2. Await(x, l) => call' = [call EXCEPT ![x] = [call[x] EXCEPT !.at = l]]
  BY Types DEF Await
<1>. QED
  BY <1>1, <1>2, Types DEF Call

LEMMA AttachStepKeeps ==
    ASSUME TypeOK, Inv, NEW x \in Slot, AttachStep(x)
    PROVE  TypeOK' /\ Inv'
<1>1. call[x].at = "info" /\ Attempts(x) /\ UNCHANGED raced
  BY DEF AttachStep, InfoFails, InfoPin, InfoOpens, Attempts, Attempting
<1>2. Leaves(room)
  BY AsItIs
<1>3. Calm => ~room.needsPin \/ room.crossed
  BY <1>1 DEF Inv, CalmInv
<1>4. CASE Throw(room, x)
  BY <1>1, <1>2, <1>4, ThrowKeeps
<1>5. CASE Return(room, x, TRUE)
  BY <1>1, <1>2, <1>5, ReturnKeeps
<1>6. CASE Return([room EXCEPT !.needsPin = TRUE], x, TRUE)
  <2>. DEFINE r == [room EXCEPT !.needsPin = TRUE]
  <2>1. /\ r \in Fields /\ r.busy = room.busy /\ r.connected = room.connected
        /\ r.generation = room.generation /\ r.client = room.client /\ r.sub = room.sub
        /\ r.selected = room.selected /\ r.disposed = room.disposed
        /\ r.crossed = room.crossed
    BY Types DEF Fields
  <2>. HIDE DEF r
  <2>2. Leaves(r)
    BY <1>1, <2>1 DEF Leaves, Passed, Inv, CalmInv
  <2>. QED
    BY <1>1, <1>6, <2>2, ReturnKeeps DEF r
<1>7. CASE OpenSocket(room, x)
  BY <1>1, <1>2, <1>3, <1>7, OpenKeeps
<1>. QED
  BY <1>4, <1>5, <1>6, <1>7 DEF AttachStep, InfoFails, InfoPin, InfoOpens

LEMMA AppendFacts ==
    ASSUME TypeOK, Inv, NEW s \in Socket, s.client <= room.generation,
           sock' = Append(sock, s), Len(sock) < MaxSockets
    PROVE  LET n == Len(sock) + 1
           IN  /\ sock' \in Seq(Socket) /\ DOMAIN sock' = DOMAIN sock \cup {n}
               /\ Len(sock') <= MaxSockets /\ n \in 0..MaxSockets /\ n \notin DOMAIN sock
               /\ sock'[n] = s /\ \A w \in DOMAIN sock : sock'[w] = sock[w]
               /\ s.late = "no" => \A c : c = s.client => SocketOf(c)' = n
               /\ s.late # "no" => \A c : SocketOf(c)' = SocketOf(c)
               /\ Latest'
<1>. USE NumberFacts
<1>. DEFINE n == Len(sock) + 1
<1>1. sock \in Seq(Socket)
  BY Types
<1>2. /\ sock' \in Seq(Socket) /\ Len(sock') = n
      /\ DOMAIN sock' = 1..n
      /\ sock'[n] = s /\ \A w \in 1..Len(sock) : sock'[w] = sock[w]
  BY <1>1, AppendProperties
<1>3. DOMAIN sock' = DOMAIN sock \cup {n} /\ n \notin DOMAIN sock /\ n \in 0..MaxSockets
  BY <1>2
<1>4. \A w \in DOMAIN sock' : w \in Nat /\ w <= n
  BY <1>2
<1>5. s.late = "no" => /\ n \in SocketsOf(s.client)'
                       /\ \A v \in SocketsOf(s.client)' : v \in Nat /\ v <= n
  BY <1>2, <1>3, <1>4 DEF SocketsOf
<1>6. \A c : c # s.client \/ s.late # "no" => SocketsOf(c)' = SocketsOf(c)
  BY <1>2, <1>3 DEF SocketsOf
<1>7. Latest'
  <2>. SUFFICES ASSUME NEW c \in 0..MaxAttempts, SocketsOf(c)' # {}
                PROVE  \E w \in SocketsOf(c)' : \A v \in SocketsOf(c)' : v <= w
    BY DEF Latest
  <2>1. CASE c = s.client /\ s.late = "no"
    BY <1>5, <2>1
  <2>2. CASE c # s.client \/ s.late # "no"
    BY <1>6, <2>2 DEF Inv, Latest
  <2>. QED
    BY <2>1, <2>2
<1>8. s.late # "no" => \A c : SocketOf(c)' = SocketOf(c)
  <2>. SUFFICES ASSUME s.late # "no", NEW c PROVE SocketOf(c)' = SocketOf(c)
    OBVIOUS
  <2>1. SocketOf(c) = IF SocketsOf(c) = {} THEN 0 ELSE Last(SocketsOf(c))
    BY DEF SocketOf, Last
  <2>2. SocketOf(c)' = IF SocketsOf(c)' = {} THEN 0 ELSE Last(SocketsOf(c)')
    BY DEF SocketOf, Last
  <2>. QED
    BY <1>6, <2>1, <2>2
<1>9. s.late = "no" => SocketOf(s.client)' = n
  <2>. HAVE s.late = "no"
  <2>1. SocketOf(s.client)' = Last(SocketsOf(s.client)')
    BY <1>5 DEF SocketOf, Last
  <2>2. \A S : \A k \in Nat : k \in S /\ (\A v \in S : v \in Nat /\ v <= k) => Last(S) = k
    <3>. TAKE S
    <3>. TAKE k \in Nat
    <3>. HAVE k \in S /\ \A v \in S : v \in Nat /\ v <= k
    <3>1. \E w \in S : \A v \in S : v <= w
      OBVIOUS
    <3>2. Last(S) \in S /\ \A v \in S : v <= Last(S)
      BY <3>1 DEF Last
    <3>3. Last(S) \in Nat /\ Last(S) <= k /\ k <= Last(S)
      BY <3>2
    <3>. QED
      BY <3>3
  <2>. QED
    BY <1>5, <2>1, <2>2
<1>. QED
  BY <1>2, <1>3, <1>7, <1>8, <1>9

---------------------------------------------------------------------------
(* What begins without being an attempt, and what moves nothing *)

LEMMA BeginKeeps ==
    ASSUME TypeOK, Inv, NEW x \in Slot, call[x].at = "none", NEW k \in Call,
           call' = [call EXCEPT ![x] = k], UNCHANGED <<room, sock, listen, raced>>,
           k.at \in {"manual", "rename", "probe"} \cup Transfers, k.token = 0, k.client = 0
    PROVE  TypeOK' /\ Inv'
<1>. USE NumberFacts
<1>1. call' \in [Slot -> Call] /\ call'[x] = k /\ \A y \in Slot \ {x} : call'[y] = call[y]
  BY Types
<1>2. TypeOK'
  BY <1>1, Types, TypesNext
<1>3. Numbers'
  BY <1>1 DEF Inv, Numbers
<1>4. \A y \in Slot : Standing(y)'
  <2>1. Standing(x)'
    BY <1>1 DEF Standing, Opening, Transfers
  <2>2. ASSUME NEW y \in Slot \ {x} PROVE Standing(y)'
    BY <1>1 DEF Inv, Standing, Now, Opening
  <2>. QED
    BY <2>1, <2>2
<1>5. Latest' /\ Selects' /\ FramesOfSelected' /\ InTime' /\ (AllShut' <=> AllShut)
  BY SocketsKept DEF Inv, Selects, FramesOfSelected, InTime, AllShut
<1>6. ~Attempts(x) /\ ~Attempts(x)' /\ ~Opening(x)' /\ ~Connecting(x)'
  BY <1>1 DEF Attempts, Attempting, Opening, Connecting, Transfers
<1>7. \A y \in Slot : Attempts(y)' => Attempts(y) /\ call'[y] = call[y]
  BY <1>1, <1>6 DEF Attempts
<1>8. BusyReleased'
  <2>1. \A y \in Slot : Attempts(y) => y # x /\ call'[y] = call[y]
    BY <1>1, <1>6
  <2>. QED
    BY <2>1 DEF Inv, BusyReleased, Attempts
<1>9. Calm' => CalmInv'
  <2>. SUFFICES ASSUME Calm' PROVE CalmInv'
    OBVIOUS
  <2>1. Calm /\ CalmInv
    BY DEF Calm, Inv
  <2>2. Current' = Current /\ (Unsaid' <=> Unsaid)
    BY DEF Current, Unsaid
  <2>3. \A y \in Slot : Attempts(y)' => room'.busy /\ Now(y)' /\ Unsaid'
    BY <1>7, <2>1, <2>2 DEF CalmInv, Now
  <2>4. \A y \in Slot : Opening(y)' => Opening(y)
    BY <1>1, <1>6 DEF Opening
  <2>5. \A y \in Slot : Connecting(y)' => Connecting(y)
    BY <1>1, <1>6 DEF Connecting
  <2>6. \A y \in Slot : Attempts(y)' /\ room'.needsPin =>
           call'[y].at \in {"login", "cookie"} \/ room'.crossed
    BY <1>7, <2>1 DEF CalmInv
  <2>7. \A w \in DOMAIN sock' :
           sock'[w].open => w = SocketOf(room.client)' \/ sock'[w].late = "came"
    BY <2>1, SocketsKept DEF CalmInv
  <2>8. \A y, z \in Slot : Attempts(y)' /\ Attempts(z)' => y = z
    BY <1>7, <2>1 DEF CalmInv
  <2>. QED
    BY <1>5, <2>1, <2>2, <2>3, <2>4, <2>5, <2>6, <2>7, <2>8 DEF CalmInv
<1>. QED
  BY <1>2, <1>3, <1>4, <1>5, <1>8, <1>9 DEF Inv, Calm

\* Fields that no part of Inv is about.
LEMMA FieldsKeep ==
    ASSUME TypeOK, Inv, UNCHANGED <<call, sock, listen, raced>>, room' \in Fields,
           room'.generation = room.generation, room'.client = room.client,
           room'.sub = room.sub, room'.selected = room.selected,
           room'.disposed = room.disposed, room'.busy = room.busy,
           room'.connected = room.connected, room'.needsPin = room.needsPin,
           room'.crossed = room.crossed
    PROVE  TypeOK' /\ Inv'
<1>1. TypeOK'
  BY Types, TypesNext
<1>2. /\ Numbers' /\ Selects' /\ FramesOfSelected' /\ InTime'
      /\ (AllShut' <=> AllShut) /\ Latest'
  BY NumberFacts, SocketsKept DEF Inv, Numbers, Selects, FramesOfSelected, InTime, AllShut
<1>3. \A y \in Slot : Standing(y)'
  BY DEF Inv, Standing, Now, Opening
<1>4. BusyReleased'
  BY DEF Inv, BusyReleased
<1>5. /\ Unsaid' <=> Unsaid
      /\ Current' = Current
      /\ \A y \in Slot : /\ Attempts(y)' <=> Attempts(y)
                         /\ Opening(y)' <=> Opening(y)
                         /\ Connecting(y)' <=> Connecting(y)
                         /\ Now(y)' <=> Now(y)
  BY DEF Unsaid, Current, Attempts, Opening, Connecting, Now
<1>6. \A w \in DOMAIN sock' : SocketOf(room.client)' = SocketOf(room.client)
  BY SocketsKept
<1>7. CalmInv => CalmInv'
  BY <1>2, <1>5, <1>6 DEF CalmInv
<1>. QED
  BY <1>1, <1>2, <1>3, <1>4, <1>7 DEF Inv, Calm

---------------------------------------------------------------------------
(* A socket is opened, and listened to *)

LEMMA ConnectsTooLateKeeps ==
    ASSUME TypeOK, Inv, NEW x \in Slot, ConnectsTooLate(x), UNCHANGED raced
    PROVE  TypeOK' /\ Inv'
<1>. USE NumberFacts
<1>. DEFINE s == NewSocket(call[x].client, FALSE, "no")
            n == Len(sock) + 1
<1>1. /\ call[x].at = "connect" /\ Attempts(x) /\ Stale(x)
      /\ sock' = Append(sock, s) /\ Len(sock) < MaxSockets
      /\ room' = Freed(room, x) /\ Finish(x) /\ UNCHANGED listen
  BY DEF ConnectsTooLate, Attempts, Attempting, Overtaken
<1>2. s \in Socket /\ ~s.open /\ s.late = "no" /\ s.client <= room.generation
  <2>1. call[x].client \in 0..MaxAttempts /\ call[x].client # 0
    BY <1>1, Types DEF Call, Inv, Standing
  <2>. QED
    BY <1>1, <2>1 DEF NewSocket, Socket, Inv, Numbers
<1>. HIDE DEF s
<1>3. /\ sock' \in Seq(Socket) /\ DOMAIN sock' = DOMAIN sock \cup {n}
      /\ Len(sock') <= MaxSockets /\ sock'[n] = s
      /\ \A w \in DOMAIN sock : sock'[w] = sock[w]
      /\ Latest'
  BY <1>1, <1>2, AppendFacts
<1>. HIDE DEF n
<1>4. Passed(room', listen) /\ MayEnd(room', listen, x)
  BY <1>1, AsItIs, FreedFacts
<1>5. /\ call' \in [Slot -> Call] /\ call'[x] = NoCall
      /\ \A y \in Slot \ {x} : call'[y] = call[y]
  BY <1>1, Types, NoCallFacts DEF Finish
<1>6. TypeOK'
  <2>1. listen' \subseteq (DOMAIN sock') \X (1..MaxAttempts)
    BY <1>1, <1>3, Types
  <2>2. room' \in Fields
    BY <1>4 DEF Passed
  <2>. QED
    BY <1>3, <1>5, <2>1, <2>2, Types, TypesNext
<1>7. Numbers'
  <2>1. room'.generation = room.generation /\ room'.client = room.client
    BY <1>4 DEF Passed
  <2>2. /\ \A y \in Slot : /\ call'[y].token <= room.generation
                           /\ call'[y].client <= room.generation
        /\ \A l \in listen' : l[2] <= room.generation
        /\ room.client <= room.generation
    BY <1>1, <1>5, NoCallFacts DEF Inv, Numbers
  <2>3. \A w \in DOMAIN sock' : sock'[w].client <= room.generation
    BY <1>2, <1>3 DEF Inv, Numbers
  <2>. QED
    BY <1>3, <2>1, <2>2, <2>3 DEF Numbers
<1>8. \A y \in Slot : Standing(y)'
  <2>1. Standing(x)'
    BY <1>5, NoCallFacts DEF Standing, Opening
  <2>2. ASSUME NEW y \in Slot \ {x} PROVE Standing(y)'
    <3>1. /\ Standing(y) /\ call'[y] = call[y] /\ room'.generation = room.generation
          /\ room'.client = room.client /\ room'.disposed = room.disposed
      BY <1>4, <1>5 DEF Inv, Passed
    <3>2. \A w \in DOMAIN sock : w \in DOMAIN sock' /\ sock'[w] = sock[w]
      BY <1>3
    <3>. QED
      BY <3>1, <3>2 DEF Standing, Opening, Now
  <2>. QED
    BY <2>1, <2>2
<1>9. Selects' /\ FramesOfSelected' /\ InTime'
  BY <1>1, <1>3, <1>4 DEF Passed, Inv, Selects, FramesOfSelected, InTime
<1>10. BusyReleased'
  BY <1>4, <1>5, BusyStays DEF MayEnd, Passed
<1>11. AllShut => AllShut'
  BY <1>2, <1>3 DEF AllShut
<1>12. ~Calm'
  BY <1>1, <1>4 DEF Passed, Calm, Stale, Inv, CalmInv, Now
<1>. QED
  BY <1>3, <1>4, <1>6, <1>7, <1>8, <1>9, <1>10, <1>11, <1>12 DEF Passed, Inv

LEMMA ConnectHangsKeeps ==
    ASSUME TypeOK, Inv, NEW x \in Slot, ConnectHangs(x), UNCHANGED raced
    PROVE  TypeOK' /\ Inv'
<1>. USE NumberFacts
<1>. DEFINE s == NewSocket(call[x].client, FALSE, "waits")
            n == Len(sock) + 1
            k == [call[x] EXCEPT !.at = "hangs", !.ws = n]
<1>1. /\ call[x].at = "connect" /\ Attempts(x) /\ Opening(x) /\ Connecting(x)
      /\ sock' = Append(sock, s) /\ Len(sock) < MaxSockets
      /\ call' = [call EXCEPT ![x] = k] /\ UNCHANGED <<room, listen>>
  BY Types DEF ConnectHangs, Attempts, Attempting, Opening, Connecting
<1>2. /\ s \in Socket /\ ~s.open /\ s.late # "no" /\ s.client = call[x].client
      /\ s.client <= room.generation
  <2>1. call[x].client \in 0..MaxAttempts /\ call[x].client # 0
    BY <1>1, Types DEF Call, Inv, Standing
  <2>. QED
    BY <1>1, <2>1 DEF NewSocket, Socket, Inv, Numbers
<1>. HIDE DEF s
<1>3. /\ sock' \in Seq(Socket) /\ DOMAIN sock' = DOMAIN sock \cup {n}
      /\ Len(sock') <= MaxSockets /\ n \in 0..MaxSockets /\ sock'[n] = s
      /\ \A w \in DOMAIN sock : sock'[w] = sock[w]
      /\ \A c : SocketOf(c)' = SocketOf(c)
      /\ Latest'
  BY <1>1, <1>2, AppendFacts
<1>. HIDE DEF n
<1>4. /\ k \in Call /\ k.at = "hangs" /\ k.token = call[x].token /\ k.by = call[x].by
      /\ k.client = call[x].client
  <2>1. call[x] \in Call /\ n \in 0..MaxSockets
    BY <1>3, Types
  <2>2. "hangs" \in Labels
    BY DEF Labels
  <2>. QED
    BY <2>1, <2>2 DEF Call
<1>. HIDE DEF k
<1>5. call' \in [Slot -> Call] /\ call'[x] = k /\ \A y \in Slot \ {x} : call'[y] = call[y]
  BY <1>1, <1>4, Types
<1>6. TypeOK'
  <2>1. listen' \subseteq (DOMAIN sock') \X (1..MaxAttempts)
    BY <1>1, <1>3, Types
  <2>. QED
    BY <1>1, <1>3, <1>5, <2>1, Types, TypesNext
<1>7. Numbers'
  <2>1. \A y \in Slot : call'[y].token <= room.generation /\ call'[y].client <= room.generation
    BY <1>4, <1>5 DEF Inv, Numbers
  <2>2. \A w \in DOMAIN sock' : sock'[w].client <= room.generation
    BY <1>2, <1>3 DEF Inv, Numbers
  <2>. QED
    BY <1>1, <1>3, <2>1, <2>2 DEF Inv, Numbers
<1>8. \A y \in Slot : Standing(y)'
  <2>1. Standing(x)'
    <3>1. call[x].token # 0 /\ (Now(x) => room.client # 0)
      BY <1>1 DEF Inv, Standing
    <3>2. call'[x].at = "hangs" /\ call'[x].token = call[x].token /\ room' = room
      BY <1>1, <1>4, <1>5
    <3>. QED
      BY <3>1, <3>2 DEF Standing, Opening, Now
  <2>2. ASSUME NEW y \in Slot \ {x} PROVE Standing(y)'
    <3>1. Standing(y) /\ call'[y] = call[y] /\ room' = room
      BY <1>1, <1>5 DEF Inv
    <3>2. \A w \in DOMAIN sock : w \in DOMAIN sock' /\ sock'[w] = sock[w]
      BY <1>3
    <3>. QED
      BY <3>1, <3>2 DEF Standing, Opening, Now
  <2>. QED
    BY <2>1, <2>2
<1>9. Selects' /\ FramesOfSelected' /\ InTime'
  BY <1>1, <1>3 DEF Inv, Selects, FramesOfSelected, InTime
<1>10. \A y \in Slot : /\ Attempts(y)' <=> Attempts(y)
                       /\ call'[y].token = call[y].token /\ call'[y].by = call[y].by
                       /\ Opening(y)' <=> Opening(y)
                       /\ Connecting(y)' <=> Connecting(y)
                       /\ y # x => call'[y] = call[y]
  <2>1. Attempts(x)' /\ Opening(x)' /\ Connecting(x)'
    BY <1>4, <1>5 DEF Attempts, Attempting, Opening, Connecting
  <2>. QED
    BY <1>1, <1>4, <1>5, <2>1 DEF Attempts, Opening, Connecting
<1>11. BusyReleased'
  BY <1>1, <1>10 DEF Inv, BusyReleased, Attempts
<1>12. AllShut => AllShut'
  BY <1>2, <1>3 DEF AllShut
<1>13. Calm' => CalmInv'
  <2>. SUFFICES ASSUME Calm' PROVE CalmInv'
    OBVIOUS
  <2>1. Calm /\ CalmInv
    BY <1>1 DEF Calm, Inv
  <2>2. (Unsaid' <=> Unsaid) /\ Current' = Current
    BY <1>1 DEF Unsaid, Current
  <2>3. \A y \in Slot : Attempts(y)' /\ room'.needsPin =>
           call'[y].at \in {"login", "cookie"} \/ room'.crossed
    BY <1>1, <1>10, <2>1 DEF CalmInv
  <2>4. \A w \in DOMAIN sock' :
           sock'[w].open => w = SocketOf(room.client)' \/ sock'[w].late = "came"
    BY <1>1, <1>2, <1>3, <2>1 DEF CalmInv
  <2>5. \A y \in Slot : Attempts(y)' => room'.busy /\ Now(y)' /\ Unsaid'
    BY <1>1, <1>10, <2>1, <2>2 DEF CalmInv, Now
  <2>6. \A y \in Slot : Connecting(y)' => AllShut'
    BY <1>10, <1>12, <2>1 DEF CalmInv
  <2>7. \A y, z \in Slot : Attempts(y)' /\ Attempts(z)' => y = z
    BY <1>10, <2>1 DEF CalmInv
  <2>8. \A y \in Slot : Opening(y)' => Current' = {}
    BY <1>10, <2>1, <2>2 DEF CalmInv
  <2>. QED
    BY <1>1, <2>1, <2>2, <2>3, <2>4, <2>5, <2>6, <2>7, <2>8 DEF CalmInv
<1>. QED
  BY <1>1, <1>3, <1>6, <1>8, <1>7, <1>9, <1>11, <1>12, <1>13 DEF Inv, Calm

LEMMA ConnectsKeeps ==
    ASSUME TypeOK, Inv, NEW x \in Slot, Connects(x), UNCHANGED raced
    PROVE  TypeOK' /\ Inv'
<1>. USE NumberFacts
<1>. DEFINE s == NewSocket(call[x].client, TRUE, "no")
            n == Len(sock) + 1
            k == [call[x] EXCEPT !.at = "save1", !.ws = n]
<1>1. /\ call[x].at = "connect" /\ Attempts(x) /\ Opening(x) /\ Now(x) /\ ~room.disposed
      /\ sock' = Append(sock, s) /\ Len(sock) < MaxSockets
      /\ room' = [room EXCEPT !.preferred = room.selected]
      /\ call' = [call EXCEPT ![x] = k] /\ UNCHANGED listen
  BY Types DEF Connects, Attempts, Attempting, Opening, Overtaken, Stale, Now
<1>2. /\ s \in Socket /\ s.client = room.client /\ s.client # 0
      /\ s.client <= room.generation /\ s.late = "no"
  <2>1. call[x].client \in 0..MaxAttempts /\ call[x].client # 0 /\ call[x].client = room.client
    BY <1>1, Types DEF Call, Inv, Standing
  <2>. QED
    BY <1>1, <2>1 DEF NewSocket, Socket, Inv, Numbers
<1>. HIDE DEF s
<1>3. /\ sock' \in Seq(Socket) /\ DOMAIN sock' = DOMAIN sock \cup {n}
      /\ Len(sock') <= MaxSockets /\ n \in 0..MaxSockets /\ sock'[n] = s
      /\ \A w \in DOMAIN sock : sock'[w] = sock[w]
      /\ \A c : c = room.client => SocketOf(c)' = n
      /\ Latest'
  BY <1>1, <1>2, AppendFacts
<1>. HIDE DEF n
<1>4. /\ room' \in Fields
      /\ room'.generation = room.generation /\ room'.client = room.client
      /\ room'.sub = room.sub /\ room'.selected = room.selected
      /\ room'.disposed = room.disposed /\ room'.busy = room.busy
      /\ room'.connected = room.connected /\ room'.needsPin = room.needsPin
      /\ room'.crossed = room.crossed
  BY <1>1, Types DEF Fields
<1>5. /\ k \in Call /\ k.at = "save1" /\ k.token = call[x].token
      /\ k.client = call[x].client /\ k.ws = n
  <2>1. call[x] \in Call /\ n \in 0..MaxSockets
    BY <1>3, Types
  <2>2. "save1" \in Labels
    BY DEF Labels
  <2>. QED
    BY <2>1, <2>2 DEF Call
<1>. HIDE DEF k
<1>6. call' \in [Slot -> Call] /\ call'[x] = k /\ \A y \in Slot \ {x} : call'[y] = call[y]
  BY <1>1, <1>5, Types
<1>7. TypeOK'
  <2>1. listen' \subseteq (DOMAIN sock') \X (1..MaxAttempts)
    BY <1>1, <1>3, Types
  <2>. QED
    BY <1>3, <1>4, <1>6, <2>1, Types, TypesNext
<1>8. Numbers'
  BY <1>1, <1>2, <1>3, <1>4, <1>5, <1>6 DEF Inv, Numbers
<1>9. \A y \in Slot : Standing(y)'
  <2>1. Standing(x)'
    <3>1. call[x].token # 0 /\ room.client # 0
      BY <1>1 DEF Inv, Standing
    <3>2. /\ call'[x].at = "save1" /\ call'[x].token = call[x].token /\ call'[x].ws = n
          /\ n \in DOMAIN sock' /\ sock'[n].client = room.client /\ ~room.disposed
          /\ sock'[n].late = "no"
          /\ room'.client = room.client /\ room'.disposed = room.disposed
      BY <1>1, <1>2, <1>3, <1>4, <1>5, <1>6
    <3>. QED
      BY <3>1, <3>2 DEF Standing, Opening, Now
  <2>2. ASSUME NEW y \in Slot \ {x} PROVE Standing(y)'
    <3>1. /\ Standing(y) /\ call'[y] = call[y] /\ room'.generation = room.generation
          /\ room'.client = room.client /\ room'.disposed = room.disposed
      BY <1>4, <1>6 DEF Inv
    <3>2. \A w \in DOMAIN sock : w \in DOMAIN sock' /\ sock'[w] = sock[w]
      BY <1>3
    <3>. QED
      BY <3>1, <3>2 DEF Standing, Opening, Now
  <2>. QED
    BY <2>1, <2>2
<1>10. Selects' /\ FramesOfSelected' /\ InTime'
  BY <1>1, <1>3, <1>4 DEF Inv, Selects, FramesOfSelected, InTime
<1>11. Now(x)' /\ Attempts(x)'
  BY <1>1, <1>4, <1>5, <1>6 DEF Now, Attempts, Attempting
<1>12. BusyReleased'
  BY <1>11 DEF BusyReleased, Attempts, Now
<1>13. Calm' => CalmInv'
  <2>. SUFFICES ASSUME Calm' PROVE CalmInv'
    OBVIOUS
  <2>1. Calm /\ CalmInv /\ AllShut
    BY <1>1, <1>4 DEF Calm, Inv, CalmInv, Connecting
  <2>2. \A y \in Slot : Attempts(y)' => y = x
    BY <1>1, <1>6, <2>1 DEF CalmInv, Attempts
  <2>3. \A w \in DOMAIN sock' :
           sock'[w].open => w = SocketOf(room.client)' \/ sock'[w].late = "came"
    <3>1. SocketOf(room.client)' = n
      BY <1>2, <1>3, <1>4
    <3>. QED
      BY <1>3, <2>1, <3>1 DEF AllShut
  <2>4. Unsaid /\ room.busy /\ (room.needsPin => room.crossed)
    BY <1>1, <2>1 DEF CalmInv
  <2>5. Unsaid' /\ (room'.connected => room'.crossed) /\ (room'.needsPin => room'.crossed)
    BY <1>4, <2>4 DEF Unsaid
  <2>6. Current = {} /\ Current' = Current
    BY <1>1, <1>4, <2>1 DEF CalmInv, Current
  <2>7. \A y \in Slot : ~Connecting(y)'
    <3>1. \A y \in Slot : Connecting(y)' => Attempts(y)'
      BY DEF Attempts, Attempting, Connecting
    <3>2. ~Connecting(x)'
      BY <1>5, <1>6 DEF Connecting
    <3>. QED
      BY <2>2, <3>1, <3>2
  <2>8. \A y \in Slot : Attempts(y)' => room'.busy /\ Now(y)' /\ Unsaid'
    BY <1>4, <1>11, <2>2, <2>4, <2>5
  <2>9. /\ \A y, z \in Slot : Attempts(y)' /\ Attempts(z)' => y = z
        /\ \A y \in Slot : Opening(y)' => Current' = {}
        /\ \A l \in Current' : l[1] = room'.sub
        /\ \A l, m \in Current' : l = m
    BY <2>2, <2>6
  <2>. QED
    BY <2>3, <2>5, <2>7, <2>8, <2>9 DEF CalmInv
<1>. QED
  BY <1>1, <1>3, <1>4, <1>7, <1>8, <1>9, <1>10, <1>12, <1>13 DEF Inv

LEMMA ListensKeeps ==
    ASSUME TypeOK, Inv, NEW x \in Slot, Listens(x), room.selected # Nobody, UNCHANGED raced
    PROVE  TypeOK' /\ Inv'
<1>. USE NumberFacts
<1>. DEFINE f == Freed(room, x)
            w == call[x].ws
            t == call[x].token
            b == f.service \/ room.foreground
<1>1. /\ call[x].at = "save2" /\ Attempts(x) /\ Opening(x)
      /\ room' = [f EXCEPT !.connected = TRUE, !.sub = w, !.service = b]
      /\ listen' = listen \cup {<<w, t>>}
      /\ Finish(x) /\ UNCHANGED <<sock, raced>>
  BY AsItIs, FreedFacts DEF Listens, Attempts, Attempting, Opening, Fields
<1>2. /\ f \in Fields /\ Passed(f, listen) /\ MayEnd(f, listen, x)
      /\ f.needsPin = room.needsPin /\ f.crossed = room.crossed
  BY <1>1, AsItIs, FreedFacts DEF Passed
<1>3. /\ w \in DOMAIN sock /\ t # 0 /\ t \in Nat /\ t <= room.generation
      /\ Now(x) => sock[w].client = room.client /\ ~room.disposed
      /\ sock[w].late = "no"
      /\ w \in 0..MaxSockets /\ t \in 1..MaxAttempts
  <2>1. /\ w \in DOMAIN sock /\ t # 0 /\ t <= room.generation
        /\ Now(x) => sock[w].client = room.client /\ ~room.disposed
        /\ sock[w].late = "no"
    BY <1>1 DEF Inv, Standing, Numbers
  <2>2. call[x] \in Call /\ w \in 0..MaxSockets /\ t \in 0..MaxAttempts
    BY Types DEF Call
  <2>. QED
    BY <2>1, <2>2
<1>. HIDE DEF w, t
<1>4. b \in BOOLEAN
  BY <1>2, Types DEF Fields
<1>. HIDE DEF b, f
<1>5. /\ room' \in Fields
      /\ room'.generation = room.generation /\ room'.client = room.client
      /\ room'.selected = room.selected /\ room'.disposed = room.disposed
      /\ room'.busy = f.busy /\ room'.needsPin = room.needsPin /\ room'.sub = w
      /\ room'.crossed = room.crossed
  BY <1>1, <1>2, <1>3, <1>4 DEF Fields, Passed
<1>6. /\ call' \in [Slot -> Call] /\ call'[x] = NoCall
      /\ \A y \in Slot \ {x} : call'[y] = call[y]
  BY <1>1, Types, NoCallFacts DEF Finish
<1>7. TypeOK'
  <2>1. listen' \subseteq (DOMAIN sock') \X (1..MaxAttempts)
    BY <1>1, <1>3, Types
  <2>. QED
    BY <1>1, <1>5, <1>6, <2>1, Types, TypesNext
<1>8. Numbers'
  <2>1. \A l \in listen' : l[2] <= room'.generation
    BY <1>1, <1>3, <1>5 DEF Inv, Numbers
  <2>. QED
    BY <1>1, <1>5, <1>6, <2>1, NoCallFacts DEF Inv, Numbers
<1>9. \A y \in Slot : Standing(y)'
  BY <1>1, <1>5, <1>6, NoCallFacts DEF Inv, Standing, Opening, Now
<1>10. Latest' /\ Selects' /\ InTime' /\ (AllShut' <=> AllShut)
  BY <1>1, <1>3, <1>5, SocketsKept DEF Inv, Selects, InTime, AllShut
<1>11. FramesOfSelected'
  <2>. SUFFICES ASSUME NEW l \in listen', l[2] = room.generation
                PROVE  sock[l[1]].client = room.client /\ ~room.disposed
    BY <1>1, <1>5 DEF FramesOfSelected
  <2>1. CASE l \in listen
    BY <2>1 DEF Inv, FramesOfSelected
  <2>2. CASE l = <<w, t>>
    BY <1>3, <2>2 DEF Now, t
  <2>. QED
    BY <1>1, <2>1, <2>2
<1>12. BusyReleased'
  BY <1>2, <1>5, <1>6, BusyStays DEF MayEnd, Passed
<1>13. Calm' => CalmInv'
  <2>. SUFFICES ASSUME Calm' PROVE CalmInv'
    OBVIOUS
  <2>1. Calm /\ CalmInv
    BY <1>1, <1>5 DEF Calm, Inv
  <2>2. Current = {} /\ Now(x) /\ (room.needsPin => room.crossed)
    BY <1>1, <2>1 DEF CalmInv
  <2>3. Current' = {<<w, t>>}
    BY <1>1, <1>5, <2>2 DEF Current, Now, t
  <2>4. \A y \in Slot : ~Attempts(y)'
    BY <1>1, <1>6, <2>1, NoCallFacts DEF CalmInv, Attempts, Attempting
  <2>5. \A y \in Slot : ~Opening(y)' /\ ~Connecting(y)'
    BY <2>4 DEF Opening, Connecting, Attempts, Attempting
  <2>6. room'.needsPin => Unsaid'
    BY <1>5, <2>2 DEF Unsaid
  <2>7. \A v \in DOMAIN sock' :
           sock'[v].open => v = SocketOf(room.client)' \/ sock'[v].late = "came"
    BY <1>1, <1>5, <2>1, SocketsKept DEF CalmInv
  <2>8. \A l \in Current' : l[1] = room'.sub
    BY <1>5, <2>3
  <2>9. /\ \A l, m \in Current' : l = m
        /\ Current' # {}
    BY <2>3
  <2>. QED
    BY <2>4, <2>5, <2>6, <2>7, <2>8, <2>9 DEF CalmInv
<1>. QED
  BY <1>1, <1>5, <1>7, <1>8, <1>9, <1>10, <1>11, <1>12, <1>13 DEF Inv

LEMMA OpenMovesKeep ==
    ASSUME TypeOK, Inv, NEW x \in Slot, UNCHANGED raced,
           Closed(x) \/ Saves(x) \/ ConnectFails(x) \/ SaveFails(x)
    PROVE  TypeOK' /\ Inv'
<1>. USE NumberFacts
<1>1. /\ Attempts(x)
      /\ call[x].at \in {"close", "connect", "hangs", "save1", "save2", "cookie"}
  BY DEF Closed, Saves, ConnectFails, SaveFails, Attempts, Attempting
<1>2. CASE Throw(room, x)
  BY <1>1, <1>2, AsItIs, ThrowKeeps
<1>3. CASE Closed(x) /\ room.client # 0
  <2>. DEFINE k == [call[x] EXCEPT !.at = "connect", !.client = room.client]
  <2>1. call[x] \in Call /\ room.client \in 0..MaxAttempts /\ "connect" \in Labels
    BY Types DEF Labels, Fields
  <2>2. /\ k \in Call /\ k.at = "connect" /\ k.token = call[x].token /\ k.by = call[x].by
        /\ k.client = room.client
    BY <2>1 DEF Call
  <2>3. /\ call' = [call EXCEPT ![x] = k] /\ UNCHANGED <<room, sock, listen>>
        /\ call[x].at = "close"
    BY <1>3, Types DEF Closed
  <2>. HIDE DEF k
  <2>4. call'[x] = k
    BY <2>2, <2>3, Types
  <2>5. Standing(x)'
    BY <1>3, <2>2, <2>3, <2>4 DEF Inv, Standing, Opening, Now
  <2>6. k.at \in Attempting /\ k.client <= room.generation /\ Connecting(x)
    BY <2>2, <2>3 DEF Attempting, Connecting, Inv, Numbers
  <2>. QED
    BY <1>1, <2>2, <2>3, <2>5, <2>6, MoveKeeps
<1>4. CASE Saves(x) /\ room.selected # Nobody
  <2>. DEFINE k == [call[x] EXCEPT !.at = "save2"]
  <2>1. Await(x, "save2") /\ UNCHANGED <<room, sock, listen>> /\ call[x].at = "save1"
    BY <1>4 DEF Saves
  <2>2. "save2" \in Labels /\ "save2" \in Attempting
    BY DEF Labels, Attempting
  <2>3. /\ k \in Call /\ k.at = "save2" /\ k.token = call[x].token /\ k.by = call[x].by
        /\ k.client = call[x].client /\ k.ws = call[x].ws
        /\ call' = [call EXCEPT ![x] = k] /\ call'[x] = k
    BY <2>1, <2>2, AwaitFacts
  <2>. HIDE DEF k
  <2>4. Standing(x)' /\ Opening(x)
    BY <2>1, <2>3 DEF Inv, Standing, Opening, Now
  <2>5. k.client <= room.generation
    BY <2>3 DEF Inv, Numbers
  <2>. QED
    BY <1>1, <2>1, <2>2, <2>3, <2>4, <2>5, MoveKeeps
<1>. QED
  BY <1>2, <1>3, <1>4 DEF Closed, Saves, ConnectFails, SaveFails

LEMMA OpenStepKeeps ==
    ASSUME TypeOK, Inv, NEW x \in Slot, OpenStep(x)
    PROVE  TypeOK' /\ Inv'
<1>1. UNCHANGED raced
  BY DEF OpenStep
<1>2. CASE Listens(x) /\ room.selected = Nobody
  <2>. DEFINE r == [room EXCEPT !.connected = TRUE]
  <2>1. /\ call[x].at = "save2" /\ Attempts(x) /\ Opening(x) /\ Throw(r, x)
    BY <1>2 DEF Listens, Attempts, Attempting, Opening
  <2>2. ~Calm
    BY <1>2, <2>1 DEF Inv, CalmInv, Standing, Selects
  <2>3. /\ r \in Fields /\ r.busy = room.busy
        /\ r.generation = room.generation /\ r.client = room.client /\ r.sub = room.sub
        /\ r.selected = room.selected /\ r.disposed = room.disposed
        /\ r.crossed = room.crossed
    BY Types DEF Fields
  <2>. HIDE DEF r
  <2>4. Leaves(r)
    BY <2>2, <2>3 DEF Leaves, Passed
  <2>. QED
    BY <1>1, <2>1, <2>4, ThrowKeeps
<1>3. CASE Listens(x) /\ room.selected # Nobody
  BY <1>1, <1>3, ListensKeeps
<1>. QED
  BY <1>1, <1>2, <1>3, OpenMovesKeep, ConnectsTooLateKeeps, ConnectHangsKeeps, ConnectsKeeps
     DEF OpenStep

---------------------------------------------------------------------------
(* search *)

LEMMA SearchStepKeeps ==
    ASSUME TypeOK, Inv, NEW x \in Slot, SearchStep(x)
    PROVE  TypeOK' /\ Inv'
<1>1. call[x].at = "discover" /\ Attempts(x) /\ UNCHANGED raced /\ call[x].by = "none"
  BY DEF SearchStep, DiscoverFails, Discovers, Attempts, Attempting, Inv, Standing
<1>2. room \in Fields
  BY Types
<1>3. CASE DiscoverFails(x)
  <2>1. room' = Freed(Scheduled(room), x) /\ Finish(x) /\ UNCHANGED <<sock, listen>>
    BY <1>3 DEF DiscoverFails
  <2>2. /\ Passed(Scheduled(room), listen)
        /\ Scheduled(room).busy = room.busy /\ Scheduled(room).needsPin = room.needsPin
        /\ Scheduled(room).connected = room.connected
    BY <1>2, AsItIs, ScheduledFacts DEF Scheduled, Fields
  <2>3. Leaves(Scheduled(room))
    BY <2>2, AsItIs DEF Leaves
  <2>. QED
    BY <1>1, <2>1, <2>3, FreedFacts, HaltKeeps
<1>4. ASSUME NEW F \in SUBSET Verified, Discovers(x, F) PROVE TypeOK' /\ Inv'
  <2>. DEFINE match == IF call[x].choose THEN Nobody ELSE PreferredServer(F, room.preferred)
              f     == Freed(room, x)
              r     == [f EXCEPT !.servers = F]
              more  == F = {} \/ (room.preferred # Nobody /\ ~call[x].choose)
  <2>1. \/ Stale(x) /\ Finish(x) /\ UNCHANGED <<room, sock, listen>>
        \/ ~Stale(x) /\ match # Nobody /\ Attach(r, listen, x, match, FALSE, "search")
        \/ /\ ~Stale(x)
           /\ room' = IF more THEN Scheduled(r) ELSE r
           /\ Finish(x) /\ UNCHANGED <<sock, listen>>
    BY <1>4 DEF Discovers
  <2>2. /\ f \in Fields /\ Passed(f, listen) /\ MayEnd(f, listen, x)
    BY <1>1, AsItIs, FreedFacts
  <2>3. match \in Server \cup {Nobody}
    <3>1. Cardinality(F) = 1 /\ F # {} => (CHOOSE s \in F : TRUE) \in F
      OBVIOUS
    <3>2. Cardinality({}) = 0
      BY FS_EmptySet
    <3>3. PreferredServer(F, room.preferred) \in F \cup {Nobody}
      BY <3>1, <3>2 DEF PreferredServer
    <3>. QED
      BY <3>3 DEF Verified
  <2>. HIDE DEF f, match, more
  <2>4. /\ r \in Fields /\ r.busy = f.busy /\ r.needsPin = f.needsPin
        /\ r.connected = f.connected /\ r.generation = f.generation /\ r.client = f.client
        /\ r.sub = f.sub /\ r.selected = f.selected /\ r.disposed = f.disposed
        /\ r.crossed = f.crossed
    BY <2>2 DEF Fields, Verified
  <2>. HIDE DEF r
  <2>5. Passed(r, listen) /\ MayEnd(r, listen, x)
    BY <2>2, <2>4 DEF Passed, MayEnd
  <2>6. CASE Stale(x) /\ Finish(x) /\ UNCHANGED <<room, sock, listen>>
    <3>1. ~Calm
      BY <1>1, <2>6 DEF Stale, Calm, Inv, CalmInv, Now
    <3>2. MayEnd(room, listen, x)
      BY <1>1, <2>6, <3>1 DEF MayEnd, Stale, Now
    <3>3. Passed(room', listen') /\ MayEnd(room', listen', x)
      BY <2>6, <3>2, AsItIs
    <3>. QED
      BY <1>1, <2>6, <3>3, HaltKeeps
  <2>7. CASE ~Stale(x) /\ match # Nobody /\ Attach(r, listen, x, match, FALSE, "search")
    <3>1. Calm' => \A y \in Slot : Attempts(y) => y = x
      BY <1>1, <2>7 DEF Stale, Calm, Inv, CalmInv
    <3>2. match \in Server /\ raced' \in BOOLEAN
      BY <1>1, <2>3, <2>7, Types
    <3>. QED
      BY <1>1, <2>5, <2>7, <3>1, <3>2, AttachKeeps
  <2>8. CASE /\ ~Stale(x)
             /\ room' = IF more THEN Scheduled(r) ELSE r
             /\ Finish(x) /\ UNCHANGED <<sock, listen>>
    <3>1. Passed(room', listen) /\ MayEnd(room', listen, x)
      BY <2>4, <2>5, <2>8, ScheduledFacts
    <3>. QED
      BY <1>1, <2>8, <3>1, HaltKeeps
  <2>. QED
    BY <2>1, <2>6, <2>7, <2>8
<1>. QED
  BY <1>3, <1>4 DEF SearchStep

---------------------------------------------------------------------------
(* login *)

LEMMA LoginStepKeeps ==
    ASSUME TypeOK, Inv, NEW x \in Slot, LoginStep(x)
    PROVE  TypeOK' /\ Inv'
<1>1. call[x].at \in {"login", "cookie"} /\ Attempts(x) /\ UNCHANGED raced
  BY DEF LoginStep, LoginFails, LoginAnswers, CookieSaved, Attempts, Attempting
<1>2. Leaves(room)
  BY AsItIs
<1>3. CASE Throw(room, x)
  BY <1>1, <1>2, <1>3, ThrowKeeps
<1>4. CASE Return(room, x, TRUE)
  BY <1>1, <1>2, <1>4, ReturnKeeps
<1>5. CASE /\ call[x].at = "login" /\ Await(x, "cookie")
           /\ UNCHANGED <<room, sock, listen>>
  <2>. DEFINE k == [call[x] EXCEPT !.at = "cookie"]
  <2>1. "cookie" \in Labels /\ "cookie" \in Attempting
    BY DEF Labels, Attempting
  <2>2. /\ k \in Call /\ k.at = "cookie" /\ k.token = call[x].token /\ k.by = call[x].by
        /\ k.client = call[x].client /\ k.ws = call[x].ws
        /\ call' = [call EXCEPT ![x] = k] /\ call'[x] = k
    BY <1>5, <2>1, AwaitFacts
  <2>. HIDE DEF k
  <2>3. Standing(x)' /\ k.client <= room.generation
    BY <1>5, <2>2 DEF Inv, Numbers, Standing, Opening
  <2>. QED
    BY <1>1, <1>5, <2>1, <2>2, <2>3, MoveKeeps
<1>6. CASE OpenSocket([room EXCEPT !.needsPin = FALSE], x)
  <2>. DEFINE r == [room EXCEPT !.needsPin = FALSE]
  <2>1. /\ r \in Fields /\ r.busy = room.busy /\ r.connected = room.connected
        /\ r.generation = room.generation /\ r.client = room.client /\ r.sub = room.sub
        /\ r.selected = room.selected /\ r.disposed = room.disposed /\ ~r.needsPin
        /\ r.crossed = room.crossed
    BY Types DEF Fields
  <2>. HIDE DEF r
  <2>2. Leaves(r)
    BY <1>2, <2>1 DEF Leaves, Passed
  <2>. QED
    BY <1>1, <1>6, <2>1, <2>2, OpenKeeps DEF r
<1>. QED
  BY <1>1, <1>3, <1>4, <1>5, <1>6 DEF LoginStep, LoginFails, LoginAnswers, CookieSaved

LEMMA LoginBeginsKeeps ==
    ASSUME TypeOK, Inv, NEW x \in Slot, call[x].at = "none", LoginBegins(x), UNCHANGED raced
    PROVE  TypeOK' /\ Inv'
<1>. USE NumberFacts
<1>. DEFINE k == [NoCall EXCEPT !.at = "login", !.by = "login", !.token = room.generation]
<1>1. /\ room.needsPin /\ ~room.busy /\ ~room.disposed
      /\ room' = [room EXCEPT !.busy = TRUE]
      /\ call' = [call EXCEPT ![x] = k]
      /\ UNCHANGED <<sock, listen>>
  BY DEF LoginBegins
<1>2. /\ k \in Call /\ k.at = "login" /\ k.by = "login" /\ k.token = room.generation
      /\ k.client = 0
  <2>1. room.generation \in 0..MaxAttempts
    BY Types DEF Fields
  <2>. QED
    BY <2>1, NoCallFacts DEF Call, Labels
<1>. HIDE DEF k
<1>3. /\ room' \in Fields /\ room'.busy = TRUE
      /\ room'.generation = room.generation /\ room'.client = room.client
      /\ room'.sub = room.sub /\ room'.selected = room.selected
      /\ room'.disposed = room.disposed
      /\ room'.connected = room.connected /\ room'.needsPin = room.needsPin
      /\ room'.crossed = room.crossed
  BY <1>1, Types DEF Fields
<1>4. call' \in [Slot -> Call] /\ call'[x] = k /\ \A y \in Slot \ {x} : call'[y] = call[y]
  BY <1>1, <1>2, Types
<1>5. TypeOK'
  BY <1>1, <1>3, <1>4, Types, TypesNext
<1>6. Numbers'
  BY <1>1, <1>2, <1>3, <1>4 DEF Inv, Numbers
<1>7. \A y \in Slot : Standing(y)'
  <2>1. Standing(x)'
    BY <1>2, <1>4 DEF Standing, Opening
  <2>2. ASSUME NEW y \in Slot \ {x} PROVE Standing(y)'
    BY <1>1, <1>3, <1>4 DEF Inv, Standing, Now, Opening
  <2>. QED
    BY <2>1, <2>2
<1>8. Latest' /\ Selects' /\ FramesOfSelected' /\ InTime' /\ (AllShut' <=> AllShut)
  BY <1>1, <1>3, SocketsKept DEF Inv, Selects, FramesOfSelected, InTime, AllShut
<1>9. Attempts(x)' /\ Now(x)'
  BY <1>2, <1>3, <1>4 DEF Attempts, Attempting, Now
<1>10. BusyReleased'
  BY <1>9 DEF BusyReleased, Attempts, Now
<1>11. Calm' => CalmInv'
  <2>. SUFFICES ASSUME Calm' PROVE CalmInv'
    OBVIOUS
  <2>1. Calm /\ CalmInv /\ Unsaid
    BY <1>1, <1>3 DEF Calm, Inv, CalmInv
  <2>2. \A y \in Slot : ~Attempts(y)
    BY <1>1, <2>1 DEF CalmInv
  <2>3. \A y \in Slot : Attempts(y)' => y = x
    BY <1>4, <2>2 DEF Attempts
  <2>4. Unsaid' /\ Current' = Current
    BY <1>1, <1>3, <2>1 DEF Unsaid, Current
  <2>5. \A y \in Slot : ~Opening(y)' /\ ~Connecting(y)'
    <3>1. \A y \in Slot \ {x} : ~Opening(y)' /\ ~Connecting(y)'
      BY <2>3 DEF Opening, Connecting, Attempts, Attempting
    <3>2. ~Opening(x)' /\ ~Connecting(x)'
      BY <1>2, <1>4 DEF Opening, Connecting
    <3>. QED
      BY <3>1, <3>2
  <2>6. \A w \in DOMAIN sock' :
           sock'[w].open => w = SocketOf(room.client)' \/ sock'[w].late = "came"
    BY <1>1, <1>3, <2>1, SocketsKept DEF CalmInv
  <2>7. \A y \in Slot : Attempts(y)' => call'[y].at \in {"login", "cookie"}
    BY <1>2, <1>4, <2>3
  <2>. QED
    BY <1>3, <1>9, <2>1, <2>3, <2>4, <2>5, <2>6, <2>7 DEF CalmInv
<1>. QED
  BY <1>1, <1>3, <1>5, <1>6, <1>7, <1>8, <1>10, <1>11 DEF Inv

---------------------------------------------------------------------------
(* What is no attempt *)

\* A call that attempts nothing may end, or begin, with the fields as they are.
LEMMA IdleMayEnd ==
    ASSUME TypeOK, Inv, NEW x \in Slot, ~Attempts(x), NEW r, NEW L,
           Passed(r, L), r.busy = room.busy, r.needsPin = room.needsPin,
           Calm => (r.connected => room.connected /\ Current \subseteq L)
    PROVE  MayEnd(r, L, x)
BY DEF MayEnd, Inv, CalmInv

LEMMA RetryOff ==
    ASSUME TypeOK, Inv, NEW x \in Slot, ~Attempts(x)
    PROVE  LET r == [room EXCEPT !.retry = FALSE]
           IN  r \in Fields /\ Passed(r, listen) /\ MayEnd(r, listen, x)
<1>. DEFINE r == [room EXCEPT !.retry = FALSE]
<1>1. /\ r \in Fields /\ r.busy = room.busy /\ r.needsPin = room.needsPin
      /\ r.connected = room.connected
      /\ r.generation = room.generation /\ r.client = room.client /\ r.sub = room.sub
      /\ r.selected = room.selected /\ r.disposed = room.disposed
      /\ r.crossed = room.crossed
  BY Types DEF Fields
<1>. HIDE DEF r
<1>2. Passed(r, listen) /\ Current \subseteq listen
  BY <1>1 DEF Passed, Current
<1>3. MayEnd(r, listen, x)
  BY <1>1, <1>2, IdleMayEnd
<1>. QED
  BY <1>1, <1>2, <1>3 DEF r

LEMMA StaysAsItIs ==
    ASSUME TypeOK, Inv, NEW x \in Slot, ~Attempts(x)
    PROVE  Passed(room, listen) /\ MayEnd(room, listen, x)
<1>1. Current \subseteq listen
  BY DEF Current
<1>. QED
  BY <1>1, AsItIs, IdleMayEnd

LEMMA AskStepKeeps ==
    ASSUME TypeOK, Inv, NEW x \in Slot, AskStep(x)
    PROVE  TypeOK' /\ Inv'
<1>1. call[x].at \in {"manual", "rename"} /\ ~Attempts(x)
  BY DEF AskStep, ManualFails, ManualAnswers, Renamed, Attempts, Attempting
<1>2. CASE Finish(x) /\ UNCHANGED <<room, sock, listen, raced>>
  BY <1>1, <1>2, StaysAsItIs, HaltKeeps
<1>3. ASSUME NEW server \in Server, NEW by \in {"manual", "rename"},
             Attach(room, listen, x, server, FALSE, by), raced' = (raced \/ room.busy)
      PROVE  TypeOK' /\ Inv'
  <2>1. room' = [Begun(room) EXCEPT !.selected = server, !.client = room.generation + 1]
    BY <1>3 DEF Attach
  <2>2. Begun(room) \in Fields /\ Begun(room).disposed = room.disposed
    BY <1>3, Types, BegunFacts DEF Attach
  <2>3. room'.disposed = room.disposed
    BY <2>1, <2>2 DEF Fields
  <2>4. Calm' => Calm /\ ~room.busy
    BY <1>3, <2>3 DEF Calm
  <2>5. Calm' => \A y \in Slot : Attempts(y) => y = x
    BY <2>4 DEF Inv, CalmInv
  <2>6. raced' \in BOOLEAN /\ (raced => raced')
    BY <1>3, Types DEF Fields
  <2>. QED
    BY <1>3, <2>5, <2>6, AsItIs, AttachKeeps
<1>4. room.selected # Nobody => room.selected \in Server
  BY Types DEF Fields
<1>. QED
  BY <1>2, <1>3, <1>4 DEF AskStep, ManualFails, ManualAnswers, Renamed

LEMMA ProbeStepKeeps ==
    ASSUME TypeOK, Inv, NEW x \in Slot, ProbeStep(x)
    PROVE  TypeOK' /\ Inv'
<1>1. call[x].at = "probe" /\ ~Attempts(x) /\ UNCHANGED raced
  BY DEF ProbeStep, ProbeAnswers, ProbeFails, Attempts, Attempting
<1>2. CASE Finish(x) /\ UNCHANGED <<room, sock, listen>>
  BY <1>1, <1>2, StaysAsItIs, HaltKeeps
<1>3. CASE Recover([room EXCEPT !.retry = FALSE], listen, x)
  BY <1>1, <1>3, RetryOff, RecoverKeeps
<1>. QED
  BY <1>2, <1>3 DEF ProbeStep, ProbeAnswers, ProbeFails

LEMMA TransferEndsKeeps ==
    ASSUME TypeOK, Inv, NEW x \in Slot, TransferEnds(x)
    PROVE  TypeOK' /\ Inv'
<1>1. ~Attempts(x) /\ Finish(x) /\ UNCHANGED <<room, sock, listen, raced>>
  BY DEF TransferEnds, Attempts, Attempting, Transfers
<1>. QED
  BY <1>1, StaysAsItIs, HaltKeeps

LEMMA ExpiresKeeps ==
    ASSUME TypeOK, Inv, NEW x \in Slot, Expires(x)
    PROVE  TypeOK' /\ Inv'
<1>. USE NumberFacts
<1>. DEFINE b == room.crossed \/ room.busy
<1>1. /\ call[x].at \in Transfers /\ ~Attempts(x)
      /\ room' = [room EXCEPT !.needsPin = TRUE, !.connected = FALSE, !.crossed = b]
      /\ Finish(x) /\ UNCHANGED <<sock, listen, raced>>
  BY Types DEF Expires, Attempts, Attempting, Transfers, Fields
<1>2. b \in BOOLEAN
  BY Types DEF Fields
<1>. HIDE DEF b
<1>3. /\ room' \in Fields /\ room'.busy = room.busy
      /\ room'.generation = room.generation /\ room'.client = room.client
      /\ room'.sub = room.sub /\ room'.selected = room.selected
      /\ room'.disposed = room.disposed /\ room'.connected = FALSE /\ room'.crossed = b
  BY <1>1, <1>2, Types DEF Fields
<1>4. /\ call' \in [Slot -> Call] /\ call'[x] = NoCall
      /\ \A y \in Slot \ {x} : call'[y] = call[y]
  BY <1>1, Types, NoCallFacts DEF Finish
<1>5. TypeOK'
  BY <1>1, <1>3, <1>4, Types, TypesNext
<1>6. Numbers'
  BY <1>1, <1>3, <1>4, NoCallFacts DEF Inv, Numbers
<1>7. \A y \in Slot : Standing(y)'
  BY <1>1, <1>3, <1>4, NoCallFacts DEF Inv, Standing, Opening, Now
<1>8. Latest' /\ Selects' /\ FramesOfSelected' /\ InTime' /\ (AllShut' <=> AllShut)
  BY <1>1, <1>3, SocketsKept DEF Inv, Selects, FramesOfSelected, InTime, AllShut
<1>9. BusyReleased'
  BY <1>1, <1>3, <1>4, BusyStays
<1>10. Calm' => CalmInv'
  <2>. SUFFICES ASSUME Calm' PROVE CalmInv'
    OBVIOUS
  <2>1. Calm /\ CalmInv
    BY <1>1, <1>3 DEF Calm, Inv
  <2>2. \A y \in Slot : Attempts(y)' => Attempts(y) /\ call'[y] = call[y]
    BY <1>4, NoCallFacts DEF Attempts, Attempting
  <2>3. \A y \in Slot : /\ Opening(y)' => Opening(y)
                        /\ Connecting(y)' => Connecting(y)
    BY <1>4, NoCallFacts DEF Opening, Connecting
  <2>4. Unsaid' /\ Current' = Current
    BY <1>1, <1>3 DEF Unsaid, Current
  \* Whatever attempt goes on is crossed.
  <2>5. \A y \in Slot : Attempts(y)' => room'.busy /\ Now(y)' /\ room'.crossed
    <3>1. room.busy => b
      BY DEF b
    <3>2. \A y \in Slot : Attempts(y)' => room.busy /\ Now(y) /\ call'[y] = call[y]
      BY <2>1, <2>2 DEF CalmInv
    <3>. QED
      BY <1>3, <3>1, <3>2 DEF Now
  <2>6. \A w \in DOMAIN sock' :
           sock'[w].open => w = SocketOf(room.client)' \/ sock'[w].late = "came"
    BY <1>1, <1>3, <2>1, SocketsKept DEF CalmInv
  <2>7. \A y, z \in Slot : Attempts(y)' /\ Attempts(z)' => y = z
    BY <2>1, <2>2 DEF CalmInv
  <2>8. \A y \in Slot : Connecting(y)' => AllShut'
    BY <1>8, <2>1, <2>3 DEF CalmInv
  <2>9. \A y \in Slot : Opening(y)' => Current' = {}
    BY <2>1, <2>3, <2>4 DEF CalmInv
  <2>. QED
    BY <1>3, <2>1, <2>4, <2>5, <2>6, <2>7, <2>8, <2>9 DEF CalmInv
<1>. QED
  BY <1>1, <1>3, <1>5, <1>6, <1>7, <1>8, <1>9, <1>10 DEF Inv

LEMMA GoesToBackKeeps ==
    ASSUME TypeOK, Inv, GoesToBack
    PROVE  TypeOK' /\ Inv'
<1>1. room' = [room EXCEPT !.foreground = FALSE] /\ UNCHANGED <<call, sock, listen, raced>>
  BY DEF GoesToBack
<1>2. /\ room' \in Fields
      /\ room'.generation = room.generation /\ room'.client = room.client
      /\ room'.sub = room.sub /\ room'.selected = room.selected
      /\ room'.disposed = room.disposed /\ room'.busy = room.busy
      /\ room'.connected = room.connected /\ room'.needsPin = room.needsPin
      /\ room'.crossed = room.crossed
  BY <1>1, Types DEF Fields
<1>. QED
  BY <1>1, <1>2, FieldsKeep

---------------------------------------------------------------------------
(* The network drops a socket; the room is disposed of *)

LEMMA SocketDropsKeeps ==
    ASSUME TypeOK, Inv, NEW v \in DOMAIN sock, SocketDrops(v)
    PROVE  TypeOK' /\ Inv'
<1>. USE NumberFacts
<1>1. sock' = [sock EXCEPT ![v].open = FALSE] /\ UNCHANGED <<room, call, listen, raced>>
  BY DEF SocketDrops
<1>2. sock \in Seq(Socket)
  BY Types
<1>3. \A w \in DOMAIN sock : /\ w # v => sock'[w] = sock[w]
                             /\ w = v => sock'[w] = [sock[w] EXCEPT !.open = FALSE]
  BY <1>1
<1>4. DOMAIN sock' = 1..Len(sock)
  BY <1>1
<1>5. \A w \in DOMAIN sock : /\ sock'[w] \in Socket /\ sock'[w].client = sock[w].client
                             /\ sock'[w].late = sock[w].late
                             /\ sock'[w].open => sock[w].open
  <2>. TAKE w \in DOMAIN sock
  <2>1. sock[w] \in Socket
    OBVIOUS
  <2>2. CASE w = v
    <3>1. sock'[w] = [sock[w] EXCEPT !.open = FALSE]
      BY <1>3, <2>2
    <3>. QED
      BY <2>1, <3>1 DEF Socket
  <2>3. CASE w # v
    BY <1>3, <2>1, <2>3
  <2>. QED
    BY <2>2, <2>3
<1>6. sock' \in Seq(Socket) /\ Len(sock') = Len(sock) /\ DOMAIN sock' = DOMAIN sock
  <2>1. sock' = [i \in 1..Len(sock) |-> sock'[i]]
    BY <1>1, <1>4
  <2>. QED
    BY <1>2, <1>4, <1>5, <2>1
<1>7. TypeOK'
  BY <1>1, <1>6, Types, TypesNext
<1>8. Numbers'
  BY <1>1, <1>5, <1>6 DEF Inv, Numbers
<1>9. \A y \in Slot : Standing(y)'
  BY <1>1, <1>5, <1>6 DEF Inv, Standing, Opening, Now
<1>10. Latest' /\ Selects' /\ BusyReleased'
  BY <1>1, <1>5, <1>6, SocketsKept DEF Inv, Selects, BusyReleased
<1>11. FramesOfSelected' /\ InTime'
  BY <1>1, <1>5 DEF Inv, FramesOfSelected, InTime
<1>12. AllShut => AllShut'
  BY <1>5, <1>6 DEF AllShut
<1>13. CalmInv => CalmInv'
  <2>. SUFFICES ASSUME CalmInv PROVE CalmInv'
    OBVIOUS
  <2>1. /\ Unsaid' <=> Unsaid
        /\ Current' = Current
        /\ \A y \in Slot : /\ Attempts(y)' <=> Attempts(y)
                           /\ Opening(y)' <=> Opening(y)
                           /\ Connecting(y)' <=> Connecting(y)
                           /\ Now(y)' <=> Now(y)
    BY <1>1 DEF Unsaid, Current, Attempts, Opening, Connecting, Now
  <2>2. \A w \in DOMAIN sock' :
           sock'[w].open => w = SocketOf(room.client)' \/ sock'[w].late = "came"
    BY <1>1, <1>5, <1>6, SocketsKept DEF CalmInv
  <2>. QED
    BY <1>1, <1>12, <2>1, <2>2 DEF CalmInv
<1>. QED
  BY <1>1, <1>7, <1>8, <1>9, <1>10, <1>11, <1>12, <1>13 DEF Inv, Calm

LEMMA LateOpensKeeps ==
    ASSUME TypeOK, Inv, NEW v \in DOMAIN sock, LateOpens(v)
    PROVE  TypeOK' /\ Inv'
<1>. USE NumberFacts
<1>. DEFINE s == NewSocket(room.client, TRUE, "came")
<1>1. /\ sock[v].late = "waits" /\ sock[v].client = room.client
      /\ sock' = [sock EXCEPT ![v] = s] /\ UNCHANGED <<room, call, listen, raced>>
  BY DEF LateOpens
<1>2. sock \in Seq(Socket)
  BY Types
<1>3. s \in Socket /\ s.client = sock[v].client /\ s.late = "came"
  <2>1. sock[v].client \in 1..MaxAttempts
    BY DEF Socket
  <2>. QED
    BY <1>1, <2>1 DEF NewSocket, Socket
<1>. HIDE DEF s
<1>4. DOMAIN sock' = 1..Len(sock)
  BY <1>1
<1>5. \A w \in DOMAIN sock : /\ sock'[w] \in Socket /\ sock'[w].client = sock[w].client
                             /\ sock'[w].late = "no" <=> sock[w].late = "no"
                             /\ sock'[w].open => sock[w].open \/ sock'[w].late = "came"
                             /\ sock[w].late = "came" => sock'[w].late = "came"
  BY <1>1, <1>3
<1>6. sock' \in Seq(Socket) /\ Len(sock') = Len(sock) /\ DOMAIN sock' = DOMAIN sock
  <2>1. sock' = [i \in 1..Len(sock) |-> sock'[i]]
    BY <1>1, <1>4
  <2>2. \A i \in 1..Len(sock) : sock'[i] \in Socket
    BY <1>5
  <2>3. sock' \in [1..Len(sock) -> Socket]
    BY <2>1, <2>2
  <2>4. Len(sock) \in Nat /\ DOMAIN sock = 1..Len(sock)
    OBVIOUS
  <2>5. sock' \in Seq(Socket)
    BY <2>3, <2>4
  <2>6. Len(sock') = Len(sock)
    BY <1>4, <2>4, <2>5
  <2>. QED
    BY <1>4, <2>4, <2>5, <2>6
<1>7. TypeOK'
  BY <1>1, <1>6, Types, TypesNext
<1>8. Numbers'
  BY <1>1, <1>5, <1>6 DEF Inv, Numbers
<1>9. \A y \in Slot : Standing(y)'
  BY <1>1, <1>5, <1>6 DEF Inv, Standing, Opening, Now
<1>10. Latest' /\ Selects' /\ BusyReleased'
  BY <1>1, <1>5, <1>6, SocketsKept DEF Inv, Selects, BusyReleased
<1>11. FramesOfSelected' /\ InTime'
  BY <1>1, <1>5 DEF Inv, FramesOfSelected, InTime
<1>12. AllShut => AllShut'
  BY <1>5, <1>6 DEF AllShut
<1>13. CalmInv => CalmInv'
  <2>. SUFFICES ASSUME CalmInv PROVE CalmInv'
    OBVIOUS
  <2>1. /\ Unsaid' <=> Unsaid
        /\ Current' = Current
        /\ \A y \in Slot : /\ Attempts(y)' <=> Attempts(y)
                           /\ Opening(y)' <=> Opening(y)
                           /\ Connecting(y)' <=> Connecting(y)
                           /\ Now(y)' <=> Now(y)
    BY <1>1 DEF Unsaid, Current, Attempts, Opening, Connecting, Now
  <2>2. \A w \in DOMAIN sock' :
           sock'[w].open => w = SocketOf(room.client)' \/ sock'[w].late = "came"
    BY <1>1, <1>5, <1>6, SocketsKept DEF CalmInv
  <2>. QED
    BY <1>1, <1>12, <2>1, <2>2 DEF CalmInv
<1>. QED
  BY <1>1, <1>7, <1>8, <1>9, <1>10, <1>11, <1>12, <1>13 DEF Inv, Calm

LEMMA DisposeKeeps ==
    ASSUME TypeOK, Inv, Dispose
    PROVE  TypeOK' /\ Inv'
<1>. USE NumberFacts
<1>. DEFINE g == room.generation + 1
<1>1. /\ ~room.disposed /\ room.generation < MaxAttempts
      /\ listen' \subseteq listen /\ sock' = CloseSocketOf(room.client)
      /\ UNCHANGED <<call, raced>>
  BY DEF Dispose, Cancelled
<1>2. room' = [room EXCEPT !.disposed = TRUE, !.generation = g, !.retry = FALSE]
  BY Types DEF Dispose, Fields
<1>3. g \in 1..MaxAttempts /\ room.generation < g
  BY <1>1
<1>. HIDE DEF g
<1>4. /\ room' \in Fields /\ room'.generation = g /\ room'.disposed = TRUE
      /\ room'.client = room.client /\ room'.selected = room.selected
  BY <1>2, <1>3, Types DEF Fields
<1>5. /\ sock' \in Seq(Socket) /\ DOMAIN sock' = DOMAIN sock /\ Len(sock') = Len(sock)
      /\ \A w \in DOMAIN sock : /\ sock'[w].client = sock[w].client
                                /\ sock'[w].late = sock[w].late
                                /\ sock'[w].open => sock[w].open /\ w # SocketOf(room.client)
  BY <1>1, ShutFacts
<1>6. TypeOK'
  <2>1. listen' \subseteq (DOMAIN sock') \X (1..MaxAttempts)
    BY <1>1, <1>5, Types
  <2>. QED
    BY <1>1, <1>4, <1>5, <2>1, Types, TypesNext
<1>7. g \in Nat
  BY <1>3
<1>8. Numbers'
  <2>1. /\ \A x \in Slot : call[x].token <= g /\ call[x].client <= g
        /\ \A l \in listen : l[2] < g
        /\ \A w \in DOMAIN sock : sock[w].client <= g
        /\ room.client <= g
    BY <1>3, <1>7 DEF Inv, Numbers
  <2>2. \A l \in listen' : l[2] <= g
    BY <1>1, <1>7, <2>1
  <2>3. \A w \in DOMAIN sock' : sock'[w].client <= g
    BY <1>5, <2>1
  <2>4. Len(sock') <= MaxSockets
    BY <1>5 DEF Inv, Numbers
  <2>. QED
    BY <1>1, <1>4, <2>1, <2>2, <2>3, <2>4 DEF Numbers
<1>9. \A y \in Slot : ~Now(y)'
  BY <1>1, <1>3, <1>4, <1>7 DEF Inv, Numbers, Now
<1>10. \A y \in Slot : Standing(y)'
  BY <1>1, <1>5, <1>9 DEF Inv, Standing, Opening
<1>11. Latest' /\ Selects' /\ InTime'
  BY <1>1, <1>4, <1>5, SocketsKept DEF Inv, Selects, InTime
<1>12. FramesOfSelected' /\ BusyReleased'
  <2>1. \A l \in listen' : l[2] # room'.generation
    BY <1>1, <1>3, <1>4, <1>7 DEF Inv, Numbers
  <2>. QED
    BY <1>4, <2>1 DEF FramesOfSelected, BusyReleased
<1>13. ~raced' => AllShut'
  BY <1>1, <1>5 DEF Inv, Calm, CalmInv, AllShut
<1>. QED
  BY <1>4, <1>6, <1>8, <1>10, <1>11, <1>12, <1>13 DEF Inv, Calm

---------------------------------------------------------------------------
(* Calls that begin *)

LEMMA ReconnectKeeps ==
    ASSUME TypeOK, Inv, NEW x \in Slot, call[x].at = "none", UNCHANGED raced,
           NEW r, Passed(r, listen), MayEnd(r, listen, x),
           NEW probe \in BOOLEAN, probe => r = room, Reconnect(r, x, probe)
    PROVE  TypeOK' /\ Inv'
<1>. DEFINE q == [r EXCEPT !.retry = FALSE]
            k == [NoCall EXCEPT !.at = "probe"]
<1>1. ~Attempts(x)
  BY DEF Attempts, Attempting
<1>2. CASE room' = r /\ UNCHANGED <<call, sock, listen>>
  BY <1>1, <1>2, HaltKeeps
<1>3. CASE probe /\ room' = r /\ call' = [call EXCEPT ![x] = k] /\ UNCHANGED <<sock, listen>>
  <2>1. /\ k \in Call /\ k.at = "probe" /\ k.token = 0 /\ k.client = 0
    BY NoCallFacts DEF Call, Labels
  <2>2. UNCHANGED <<room, sock, listen, raced>> /\ call' = [call EXCEPT ![x] = k]
    BY <1>3
  <2>. HIDE DEF k
  <2>. QED
    BY <2>1, <2>2, BeginKeeps
<1>4. CASE Recover(q, listen, x)
  <2>1. /\ q \in Fields /\ q.busy = r.busy /\ q.needsPin = r.needsPin
        /\ q.connected = r.connected /\ q.generation = r.generation /\ q.client = r.client
        /\ q.sub = r.sub /\ q.selected = r.selected /\ q.disposed = r.disposed
        /\ q.crossed = r.crossed
    BY DEF Passed, Fields
  <2>. HIDE DEF q
  <2>2. Passed(q, listen) /\ MayEnd(q, listen, x)
    BY <2>1 DEF Passed, MayEnd
  <2>. QED
    BY <1>4, <2>2, RecoverKeeps
<1>. QED
  BY <1>2, <1>3, <1>4 DEF Reconnect

LEMMA RetryFiresKeeps ==
    ASSUME TypeOK, Inv, NEW x \in Slot, call[x].at = "none", RetryFires(x), UNCHANGED raced
    PROVE  TypeOK' /\ Inv'
<1>. DEFINE r == [room EXCEPT !.retry = FALSE]
<1>1. ~Attempts(x)
  BY DEF Attempts, Attempting
<1>2. r \in Fields /\ Passed(r, listen) /\ MayEnd(r, listen, x)
  BY <1>1, RetryOff
<1>. HIDE DEF r
<1>3. CASE Recover(r, listen, x)
  BY <1>2, <1>3, RecoverKeeps
<1>4. CASE room' \in {r, Scheduled(r)} /\ UNCHANGED <<call, sock, listen>>
  <2>1. Passed(room', listen') /\ MayEnd(room', listen', x)
    BY <1>2, <1>4, ScheduledFacts
  <2>. QED
    BY <1>1, <1>4, <2>1, HaltKeeps
<1>. QED
  BY <1>3, <1>4 DEF RetryFires, r

LEMMA LostKeeps ==
    ASSUME TypeOK, Inv, NEW x \in Slot, call[x].at = "none", NEW l \in listen, Lost(x, l),
           UNCHANGED raced
    PROVE  TypeOK' /\ Inv'
<1>. DEFINE r == [room EXCEPT !.connected = FALSE]
            L == listen \ {l}
<1>1. ~Attempts(x)
  BY DEF Attempts, Attempting
<1>2. /\ r \in Fields /\ r.busy = room.busy /\ r.needsPin = room.needsPin
      /\ ~r.connected /\ r.generation = room.generation /\ r.client = room.client
      /\ r.sub = room.sub /\ r.selected = room.selected /\ r.disposed = room.disposed
      /\ r.crossed = room.crossed
  BY Types DEF Fields
<1>. HIDE DEF r
<1>3. Passed(r, L) /\ MayEnd(r, L, x)
  <2>1. Passed(r, L)
    BY <1>2 DEF Passed
  <2>. QED
    BY <1>1, <1>2, <2>1, IdleMayEnd
<1>4. CASE /\ l[2] # room.generation \/ room.disposed
           /\ listen' = L /\ UNCHANGED <<room, call, sock>>
  <2>1. Passed(room, L)
    BY AsItIs DEF Passed
  <2>2. Calm => Current \subseteq L
    BY <1>4 DEF Calm, Current
  <2>3. MayEnd(room, L, x)
    BY <1>1, <2>1, <2>2, IdleMayEnd
  <2>4. Passed(room', listen') /\ MayEnd(room', listen', x)
    BY <1>4, <2>1, <2>3
  <2>. QED
    BY <1>1, <1>4, <2>4, HaltKeeps
<1>5. CASE Recover(r, L, x)
  BY <1>3, <1>5, RecoverKeeps
<1>6. CASE room' = Scheduled(r) /\ listen' = L /\ UNCHANGED <<call, sock>>
  <2>1. Passed(room', listen') /\ MayEnd(room', listen', x)
    BY <1>2, <1>3, <1>6, ScheduledFacts
  <2>. QED
    BY <1>1, <1>6, <2>1, HaltKeeps
<1>. QED
  BY <1>4, <1>5, <1>6 DEF Lost, r

LEMMA BeginStepKeeps ==
    ASSUME TypeOK, Inv, NEW x \in Slot, Begin(x)
    PROVE  TypeOK' /\ Inv'
<1>. USE NumberFacts
<1>1. call[x].at = "none" /\ ~Attempts(x) /\ UNCHANGED raced
  BY DEF Begin, Attempts, Attempting, ManualBegins, RenameBegins
<1>2. Passed(room, listen) /\ MayEnd(room, listen, x)
  BY <1>1, StaysAsItIs
<1>3. raced' \in BOOLEAN
  BY <1>1, Types
<1>4. CASE UserSearches(x)
  BY <1>1, <1>2, <1>4, SearchKeeps DEF UserSearches
<1>5. CASE UserAttaches(x)
  <2>1. ~room.busy /\ ~room.disposed
    BY <1>5 DEF UserAttaches
  <2>2. PICK server \in room.servers : Attach(room, listen, x, server, FALSE, "user")
    BY <1>5 DEF UserAttaches
  <2>3. server \in Server
    BY Types DEF Fields
  <2>4. Calm' => \A y \in Slot : Attempts(y) => y = x
    BY <1>1, <2>1 DEF Calm, Inv, CalmInv
  <2>. QED
    BY <1>1, <1>2, <1>3, <2>2, <2>3, <2>4, AttachKeeps
<1>6. CASE NetworkChanges(x)
  BY <1>1, <1>2, <1>6, ReconnectKeeps DEF NetworkChanges
<1>7. CASE ComesToFront(x)
  <2>. DEFINE r == [room EXCEPT !.foreground = TRUE]
  <2>1. Reconnect(r, x, FALSE)
    BY <1>7 DEF ComesToFront
  <2>2. /\ r \in Fields /\ r.busy = room.busy /\ r.needsPin = room.needsPin
        /\ r.connected = room.connected
        /\ r.generation = room.generation /\ r.client = room.client
        /\ r.sub = room.sub /\ r.selected = room.selected /\ r.disposed = room.disposed
        /\ r.crossed = room.crossed
    BY Types DEF Fields
  <2>. HIDE DEF r
  <2>3. Passed(r, listen) /\ MayEnd(r, listen, x)
    BY <1>2, <2>2 DEF Passed, MayEnd
  <2>. QED
    BY <1>1, <2>1, <2>3, ReconnectKeeps
<1>8. ASSUME NEW k \in Call, k.at \in {"manual", "rename"} \cup Transfers,
             k.token = 0, k.client = 0,
             call' = [call EXCEPT ![x] = k], UNCHANGED <<room, sock, listen>>
      PROVE  TypeOK' /\ Inv'
  BY <1>1, <1>8, BeginKeeps
<1>9. ASSUME NEW kind \in Transfers, TransferBegins(x, kind) PROVE TypeOK' /\ Inv'
  <2>. DEFINE k == [NoCall EXCEPT !.at = kind]
  <2>1. k \in Call /\ k.at = kind /\ k.token = 0 /\ k.client = 0
    BY NoCallFacts DEF Call, Labels
  <2>2. call' = [call EXCEPT ![x] = k] /\ UNCHANGED <<room, sock, listen>>
    BY <1>9 DEF TransferBegins
  <2>. HIDE DEF k
  <2>. QED
    BY <1>8, <2>1, <2>2
<1>10. CASE ManualBegins(x)
  <2>. DEFINE k == [NoCall EXCEPT !.at = "manual"]
  <2>1. k \in Call /\ k.at = "manual" /\ k.token = 0 /\ k.client = 0
    BY NoCallFacts DEF Call, Labels
  <2>2. call' = [call EXCEPT ![x] = k] /\ UNCHANGED <<room, sock, listen>>
    BY <1>10 DEF ManualBegins
  <2>. HIDE DEF k
  <2>. QED
    BY <1>8, <2>1, <2>2
<1>11. CASE RenameBegins(x)
  <2>. DEFINE k == [NoCall EXCEPT !.at = "rename"]
  <2>1. k \in Call /\ k.at = "rename" /\ k.token = 0 /\ k.client = 0
    BY NoCallFacts DEF Call, Labels
  <2>2. call' = [call EXCEPT ![x] = k] /\ UNCHANGED <<room, sock, listen>>
    BY <1>11 DEF RenameBegins
  <2>. HIDE DEF k
  <2>. QED
    BY <1>8, <2>1, <2>2
<1>. QED
  BY <1>1, <1>4, <1>5, <1>6, <1>7, <1>9, <1>10, <1>11,
     RetryFiresKeeps, LoginBeginsKeeps, LostKeeps DEF Begin

---------------------------------------------------------------------------
(* The invariant *)

LEMMA InitHolds == Init => TypeOK /\ Inv
<1>. SUFFICES ASSUME Init PROVE TypeOK /\ Inv
  OBVIOUS
<1>. DEFINE k == [NoCall EXCEPT !.at = "discover", !.token = 1]
<1>1. MaxAttempts \in Nat /\ MaxSockets \in Nat /\ 1 \in 1..MaxAttempts /\ 1 \in 0..MaxAttempts
      /\ 0 \in 0..MaxAttempts /\ 0 \in 0..MaxSockets
  BY RoomAssumption
<1>2. PICK s \in Server \cup {Nobody} :
         room = [busy |-> TRUE, connected |-> FALSE, needsPin |-> FALSE,
                 generation |-> 1, selected |-> Nobody, preferred |-> s,
                 servers |-> {}, client |-> 0, sub |-> 0, retry |-> FALSE,
                 foreground |-> TRUE, service |-> FALSE, disposed |-> FALSE,
                 crossed |-> FALSE]
  BY DEF Init
<1>3. PICK x \in Slot : call = [y \in Slot |-> IF y # x THEN NoCall ELSE k]
  BY DEF Init
<1>4. sock = <<>> /\ listen = {} /\ raced = FALSE
  BY DEF Init
<1>5. k \in Call /\ k.at = "discover" /\ k.token = 1 /\ k.client = 0 /\ k.by = "none"
  BY <1>1, NoCallFacts DEF Call, Labels
<1>. HIDE DEF k
<1>6. /\ call \in [Slot -> Call] /\ call[x] = k
      /\ \A y \in Slot \ {x} : call[y] = NoCall
  BY <1>3, <1>5, NoCallFacts
<1>7. sock \in Seq(Socket) /\ DOMAIN sock = {} /\ Len(sock) = 0
  BY <1>4
<1>8. room \in Fields
  BY <1>1, <1>2 DEF Fields
<1>9. TypeOK
  BY <1>4, <1>6, <1>7, <1>8, Types
<1>10. Numbers
  BY <1>1, <1>2, <1>4, <1>5, <1>6, <1>7, NoCallFacts DEF Numbers
<1>11. \A y \in Slot : Standing(y)
  BY <1>5, <1>6, NoCallFacts DEF Standing, Opening
<1>12. Latest /\ Selects /\ FramesOfSelected /\ InTime /\ AllShut
  BY <1>2, <1>4, <1>7 DEF Latest, SocketsOf, Selects, FramesOfSelected, InTime, AllShut
<1>13. Attempts(x) /\ Now(x) /\ ~Opening(x) /\ ~Connecting(x)
  BY <1>2, <1>5, <1>6 DEF Attempts, Attempting, Now, Opening, Connecting
<1>14. BusyReleased
  BY <1>13 DEF BusyReleased, Attempts, Now
<1>15. CalmInv
  <2>1. \A y \in Slot : y # x => ~Attempts(y) /\ ~Opening(y) /\ ~Connecting(y)
    BY <1>6, NoCallFacts DEF Attempts, Attempting, Opening, Connecting
  <2>2. Current = {} /\ Unsaid /\ room.busy /\ ~room.connected /\ ~room.needsPin
    BY <1>2, <1>4 DEF Current, Unsaid
  <2>. QED
    BY <1>7, <1>13, <2>1, <2>2 DEF CalmInv
<1>. QED
  BY <1>9, <1>10, <1>11, <1>12, <1>14, <1>15 DEF Inv

LEMMA StepHolds == TypeOK /\ Inv /\ [Next]_vars => TypeOK' /\ Inv'
<1>. SUFFICES ASSUME TypeOK, Inv, [Next]_vars PROVE TypeOK' /\ Inv'
  OBVIOUS
<1>1. CASE UNCHANGED vars
  BY <1>1, Types, FieldsKeep DEF vars
<1>2. ASSUME NEW x \in Slot,
             \/ Begin(x) \/ AttachStep(x) \/ OpenStep(x) \/ SearchStep(x) \/ LoginStep(x)
             \/ AskStep(x) \/ ProbeStep(x) \/ TransferEnds(x) \/ Expires(x)
      PROVE  TypeOK' /\ Inv'
  BY <1>2, BeginStepKeeps, AttachStepKeeps, OpenStepKeeps, SearchStepKeeps, LoginStepKeeps,
     AskStepKeeps, ProbeStepKeeps, TransferEndsKeeps, ExpiresKeeps
<1>3. ASSUME NEW w \in DOMAIN sock, SocketDrops(w) \/ LateOpens(w) PROVE TypeOK' /\ Inv'
  BY <1>3, SocketDropsKeeps, LateOpensKeeps
<1>4. CASE GoesToBack \/ Dispose
  BY <1>4, GoesToBackKeeps, DisposeKeeps
<1>. QED
  BY <1>1, <1>2, <1>3, <1>4 DEF Next

LEMMA Invariance == Spec => [](TypeOK /\ Inv)
BY InitHolds, StepHolds, PTL DEF Spec

---------------------------------------------------------------------------
(* What the runs check *)

\* The fields of Room and the calls keep their types, and every subscription is one of
\* a socket that was opened.
THEOREM TypeCorrect == Spec => []TypeOK
BY Invariance, PTL

\* busy is set only while an attempt that will reset it goes on: whichever attempts
\* overtake each other, the finally of one of them is the one that counts.
THEOREM BusyIsReleased == Spec => []BusyReleased
<1>1. Inv => BusyReleased
  BY DEF Inv
<1>. QED
  BY <1>1, Invariance, PTL

\* The frames that Room handles come from a socket of the client in use, and none
\* comes after dispose, even where attempts race.
THEOREM FramesAreOfTheSelected == Spec => []FramesOfSelected
<1>1. Inv => FramesOfSelected
  BY DEF Inv
<1>. QED
  BY <1>1, Invariance, PTL

\* Two subscriptions never write to the same list, as long as manual and rename have
\* not attached while another attempt went on.
THEOREM OneIsHeard == Spec => []OneSubscription
<1>1. TypeOK /\ Inv => OneSubscription
  <2>. SUFFICES ASSUME TypeOK, Inv, ~raced PROVE Cardinality(Current) <= 1
    BY DEF OneSubscription
  <2>1. CASE Current = {}
    BY <2>1, FS_EmptySet
  <2>2. CASE Current # {}
    <3>1. PICK l \in Current : TRUE
      BY <2>2
    <3>2. Calm
      BY <3>1 DEF Current, Inv, FramesOfSelected, Calm
    <3>3. Current = {l}
      BY <3>1, <3>2 DEF Inv, CalmInv
    <3>. QED
      BY <3>3, FS_Singleton
  <2>. QED
    BY <2>1, <2>2
<1>. QED
  BY <1>1, Invariance, PTL

\* A room that says it is connected listens to a socket of its client, whatever requests
\* of either transfer end in a 401, until one does in the middle of an attempt.
THEOREM ConnectedMeansHeard == Spec => []ConnectedIsHeard
<1>1. Inv => ConnectedIsHeard
  BY DEF Inv, Calm, CalmInv, ConnectedIsHeard
<1>. QED
  BY <1>1, Invariance, PTL

\* Whatever socket is open is the one that the next attempt, or dispose, closes, or one
\* that opened when connect had given it up; to that one nobody listens.
THEOREM NoneIsOrphan == Spec => []NoOrphan
<1>1. Inv => NoOrphan
  BY DEF Inv, Calm, CalmInv, AllShut, InTime, NoOrphan
<1>. QED
  BY <1>1, Invariance, PTL

---------------------------------------------------------------------------
(* What a step leads to *)

\* What a call knows of the attempt it belongs to.
Origin(x) ==
    /\ call[x].silent => call[x].by = "recover"
    /\ call[x].at \in {"login", "cookie"} => call[x].by = "login"
    /\ call[x].at = "info" /\ Now(x) => room.client # 0
    /\ call[x].at = "discover" /\ call[x].choose /\ Now(x) => room.selected = Nobody

Origins == \A x \in Slot : Origin(x)

\* x is not sent to a server that nobody asked for.
Asked(x) ==
    /\ call'[x].at = "info" /\ call[x].at # "info"
    /\ call'[x].by \in {"search", "recover"}
    => room.preferred \in {Nobody, call'[x].server} \/ room.selected = call'[x].server

LoginEnds == \E x \in Slot : call[x].by = "login" /\ call'[x].at = "none"

GoesOn == ~raced /\ ~(room.crossed /\ room.connected) /\ Covered => Covered' \/ LoginEnds

Leads == Origins' /\ (\A x \in Slot : Asked(x)) /\ GoesOn

LEMMA AttemptCovers ==
    ASSUME NEW x \in Slot, Attempts(x), Now(x)
    PROVE  Covered
BY DEF Covered, Attempts, Now

LEMMA StartLeads ==
    ASSUME TypeOK, Inv, Origins, NEW x \in Slot, NEW k \in Call,
           call' = [call EXCEPT ![x] = k], k.at \in {"info", "discover"},
           k.token = room.generation + 1, room'.generation = room.generation + 1,
           k.silent => k.by = "recover",
           k.at = "info" => room'.client # 0,
           k.at = "discover" /\ k.choose => room'.selected = Nobody,
           /\ k.at = "info" /\ k.by \in {"search", "recover"}
           => room.preferred \in {Nobody, k.server} \/ room.selected = k.server
    PROVE  Leads
<1>. USE NumberFacts
<1>1. call'[x] = k /\ \A y \in Slot \ {x} : call'[y] = call[y]
  BY Types
<1>2. \A y \in Slot \ {x} : ~Now(y)'
  BY <1>1 DEF Inv, Numbers, Now
<1>3. Origin(x)'
  BY <1>1 DEF Origin
<1>4. ASSUME NEW y \in Slot \ {x} PROVE Origin(y)'
  BY <1>1, <1>2 DEF Origins, Origin
<1>5. \A y \in Slot : Asked(y)
  BY <1>1 DEF Asked
<1>6. Covered'
  BY <1>1 DEF Covered, Attempting
<1>. QED
  BY <1>3, <1>4, <1>5, <1>6 DEF Leads, Origins, GoesOn

\* A step of x that begins no attempt.
LEMMA StepLeads ==
    ASSUME TypeOK, Inv, Origins, NEW x \in Slot,
           room'.generation = room.generation, room'.client = room.client,
           room'.selected = room.selected,
           \A y \in Slot \ {x} : call'[y] = call[y],
           Origin(x)', call'[x].at # "info" \/ call'[x] = call[x], GoesOn
    PROVE  Leads
<1>1. ASSUME NEW y \in Slot \ {x} PROVE Origin(y)'
  BY DEF Origins, Origin, Now
<1>2. \A y \in Slot : Asked(y)
  BY DEF Asked
<1>. QED
  BY <1>1, <1>2 DEF Leads, Origins

\* Nothing that Covered is about goes away.
LEMMA StillCovered ==
    ASSUME room'.generation = room.generation, room'.selected = room.selected,
           room'.preferred = room.preferred, room'.disposed = room.disposed,
           room.retry => room'.retry, room.needsPin => room'.needsPin,
           Current \subseteq Current',
           \A y \in Slot : Attempts(y) => Attempts(y)' /\ call'[y].token = call[y].token
    PROVE  GoesOn
BY DEF GoesOn, Covered, Attempts

\* The call of x ends, or nothing is called.
LEMMA HaltLeads ==
    ASSUME TypeOK, Inv, Origins, NEW x \in Slot, Finish(x) \/ UNCHANGED call,
           room'.generation = room.generation, room'.client = room.client,
           room'.selected = room.selected, GoesOn
    PROVE  Leads
<1>1. /\ \A y \in Slot \ {x} : call'[y] = call[y]
      /\ call'[x] \in {NoCall, call[x]}
  BY Types DEF Finish
<1>2. NoCall.silent = FALSE
  BY DEF NoCall
<1>3. Origin(x)'
  BY <1>1, <1>2, NoCallFacts DEF Origins, Origin, Now
<1>. QED
  BY <1>1, <1>3, NoCallFacts, StepLeads

LEMMA AttachLeads ==
    ASSUME TypeOK, Inv, Origins, NEW x \in Slot, NEW r, NEW L, Passed(r, L),
           NEW server \in Server, NEW silent \in BOOLEAN,
           NEW by \in {"search", "recover", "user", "manual", "rename"},
           Attach(r, L, x, server, silent, by), silent => by = "recover",
           by \in {"search", "recover"} =>
               room.preferred \in {Nobody, server} \/ room.selected = server
    PROVE  Leads
<1>. USE NumberFacts
<1>. DEFINE g == r.generation + 1
            k == [NoCall EXCEPT !.at = "info", !.by = by, !.token = g, !.server = server,
                                !.silent = silent]
<1>1. r.generation < MaxAttempts /\ g = room.generation + 1 /\ g \in 0..MaxAttempts /\ g # 0
  BY DEF Attach, Passed
<1>2. Begun(r) \in Fields /\ Begun(r).generation = g
  BY <1>1, BegunFacts DEF Passed
<1>3. call' = [call EXCEPT ![x] = k] /\ room' = [Begun(r) EXCEPT !.selected = server, !.client = g]
  BY DEF Attach
<1>. HIDE DEF g
<1>4. /\ k \in Call /\ k.at = "info" /\ k.token = g /\ k.by = by /\ k.silent = silent
      /\ k.server = server
  BY <1>1, NoCallFacts DEF Call, Labels
<1>. HIDE DEF k
<1>5. room'.generation = g /\ room'.client = g
  BY <1>2, <1>3 DEF Fields
<1>. QED
  BY <1>1, <1>3, <1>4, <1>5, StartLeads

LEMMA SearchLeads ==
    ASSUME TypeOK, Inv, Origins, NEW x \in Slot, NEW r, NEW L, Passed(r, L),
           ~r.busy, ~r.disposed, NEW choose \in BOOLEAN, Search(r, L, x, choose)
    PROVE  Leads
<1>. USE NumberFacts
<1>. DEFINE g == r.generation + 1
            k == [NoCall EXCEPT !.at = "discover", !.token = g, !.choose = choose]
            s == IF choose THEN Nobody ELSE Begun(r).selected
<1>1. r.generation < MaxAttempts /\ g = room.generation + 1 /\ g \in 0..MaxAttempts
  BY DEF Search, Passed
<1>2. Begun(r) \in Fields /\ Begun(r).generation = g
  BY <1>1, BegunFacts DEF Passed
<1>3. call' = [call EXCEPT ![x] = k] /\ room' = [Begun(r) EXCEPT !.client = 0, !.selected = s]
  BY <1>2 DEF Search, Fields
<1>4. choose => s = Nobody
  OBVIOUS
<1>. HIDE DEF g, s
<1>5. k \in Call /\ k.at = "discover" /\ k.token = g /\ k.choose = choose /\ ~k.silent
  <2>1. NoCall.silent = FALSE
    BY DEF NoCall
  <2>. QED
    BY <1>1, <2>1, NoCallFacts DEF Call, Labels
<1>. HIDE DEF k
<1>6. room'.generation = g /\ room'.selected = s
  BY <1>2, <1>3 DEF Fields
<1>. QED
  BY <1>1, <1>3, <1>4, <1>5, <1>6, StartLeads

LEMMA FallBackLeads ==
    ASSUME TypeOK, Inv, Origins, NEW x \in Slot, NEW r, NEW L, Passed(r, L),
           ~raced => r.disposed \/ ~r.busy, NEW server, FallBack(r, L, x, server)
    PROVE  Leads
<1>1. CASE (r.disposed \/ r.busy \/ r.needsPin) /\ room' = r /\ Finish(x)
  <2>1. GoesOn
    BY <1>1 DEF GoesOn, Covered
  <2>. QED
    BY <1>1, <2>1, HaltLeads DEF Passed
<1>2. CASE ~(r.disposed \/ r.busy \/ r.needsPin) /\ Search(r, L, x, FALSE)
  BY <1>2, SearchLeads
<1>3. CASE ~(r.disposed \/ r.busy \/ r.needsPin) /\ room' = Scheduled(r) /\ Finish(x)
  <2>1. room'.retry
    BY <1>3 DEF Scheduled, Passed, Fields
  <2>2. Passed(room', L)
    BY <1>3, ScheduledFacts DEF Passed
  <2>3. GoesOn
    BY <2>1 DEF GoesOn, Covered
  <2>. QED
    BY <1>3, <2>2, <2>3, HaltLeads DEF Passed
<1>. QED
  BY <1>1, <1>2, <1>3 DEF FallBack

LEMMA RecoverLeads ==
    ASSUME TypeOK, Inv, Origins, NEW x \in Slot, NEW r, NEW L, Passed(r, L),
           ~raced => r.disposed \/ ~r.busy, Recover(r, L, x)
    PROVE  Leads
<1>1. CASE (r.busy \/ r.disposed) /\ room' = r /\ Finish(x)
  <2>1. GoesOn
    BY <1>1 DEF GoesOn, Covered
  <2>. QED
    BY <1>1, <2>1, HaltLeads DEF Passed
<1>2. CASE r.selected # Nobody /\ Attach(r, L, x, r.selected, TRUE, "recover")
  <2>1. r.selected \in Server /\ r.selected = room.selected
    BY <1>2 DEF Passed, Fields
  <2>. QED
    BY <1>2, <2>1, AttachLeads
<1>3. CASE FallBack(r, L, x, Nobody)
  BY <1>3, FallBackLeads
<1>. QED
  BY <1>1, <1>2, <1>3 DEF Recover

\* An attempt may return where it leaves a reason behind, or is a login.
LEMMA ReturnLeads ==
    ASSUME TypeOK, Inv, Origins, NEW x \in Slot, Attempts(x), NEW r, Leaves(r),
           NEW ok \in BOOLEAN, Return(r, x, ok),
           /\ ~raced /\ ~(call[x].by = "recover" /\ ~ok)
           => r.disposed \/ r.needsPin \/ r.retry \/ call[x].by = "login"
    PROVE  Leads
<1>. DEFINE f == Freed(r, x)
<1>1. Passed(f, listen)
  BY FreedFacts
<1>2. /\ f.disposed = r.disposed /\ f.needsPin = r.needsPin /\ f.retry = r.retry
      /\ f.busy => call[x].token # r.generation
  BY DEF Freed, Leaves, Passed, Fields
<1>. HIDE DEF f
<1>3. CASE call[x].by = "recover" /\ ~ok /\ FallBack(f, listen, x, call[x].server)
  <2>1. ~raced => f.disposed \/ ~f.busy
    BY <1>2 DEF Leaves, Passed, Inv, Calm, CalmInv, Now
  <2>. QED
    BY <1>1, <1>3, <2>1, FallBackLeads
<1>4. CASE ~(call[x].by = "recover" /\ ~ok) /\ room' = f /\ Finish(x)
  <2>1. call'[x].at = "none"
    BY <1>4, Types, NoCallFacts DEF Finish
  <2>2. GoesOn
    BY <1>2, <1>4, <2>1 DEF GoesOn, Covered, LoginEnds
  <2>. QED
    BY <1>1, <1>4, <2>2, HaltLeads DEF Passed
<1>. QED
  BY <1>3, <1>4 DEF Return, f

LEMMA ThrowLeads ==
    ASSUME TypeOK, Inv, Origins, NEW x \in Slot, Attempts(x), NEW r, Leaves(r), Throw(r, x)
    PROVE  Leads
<1>1. CASE (call[x].by = "login" \/ Stale(x)) /\ Return(r, x, TRUE)
  <2>1. ~raced /\ Stale(x) => r.disposed
    BY DEF Stale, Leaves, Passed, Inv, Calm, CalmInv, Now
  <2>. QED
    BY <1>1, <2>1, ReturnLeads
<1>2. CASE call[x].silent /\ Return(r, x, FALSE)
  BY <1>2, ReturnLeads DEF Origins, Origin
<1>3. CASE ~Stale(x) /\ Return(Scheduled(r), x, FALSE)
  <2>1. /\ Passed(Scheduled(r), listen) /\ Scheduled(r).retry
        /\ Scheduled(r).busy = r.busy /\ Scheduled(r).needsPin = r.needsPin
        /\ Scheduled(r).connected = r.connected
    BY <1>3, ScheduledFacts DEF Scheduled, Stale, Leaves, Passed, Fields
  <2>2. Leaves(Scheduled(r))
    BY <2>1 DEF Leaves
  <2>. QED
    BY <1>3, <2>1, <2>2, ReturnLeads
<1>. QED
  BY <1>1, <1>2, <1>3 DEF Throw

LEMMA OpenLeads ==
    ASSUME TypeOK, Inv, Origins, NEW x \in Slot, NEW r, Leaves(r), OpenSocket(r, x),
           call[x].at \in {"info", "cookie"}
    PROVE  Leads
<1>1. Attempts(x)
  BY DEF Attempts, Attempting
<1>2. CASE r.client = 0
  <2>1. room' = Freed(r, x) /\ Finish(x)
    BY <1>2 DEF OpenSocket
  <2>2. Passed(room', listen)
    BY <1>1, <2>1, FreedFacts
  <2>3. call'[x].at = "none"
    BY <2>1, Types, NoCallFacts DEF Finish
  <2>4. CASE call[x].at = "cookie"
    <3>1. GoesOn
      BY <2>3, <2>4 DEF Origins, Origin, GoesOn, LoginEnds
    <3>. QED
      BY <2>1, <2>2, <3>1, HaltLeads DEF Passed
  <2>5. CASE call[x].at = "info"
    <3>1. ~raced => room.disposed
      BY <1>1, <1>2, <2>5 DEF Origins, Origin, Inv, Calm, CalmInv, Leaves, Passed
    <3>2. GoesOn
      BY <2>2, <3>1 DEF GoesOn, Covered, Passed
    <3>. QED
      BY <2>1, <2>2, <3>2, HaltLeads DEF Passed
  <2>. QED
    BY <2>4, <2>5
<1>3. CASE r.client # 0
  <2>. DEFINE at == IF Open(SocketOf(r.client)) THEN "close" ELSE "connect"
              k  == [call[x] EXCEPT !.at = at, !.token = r.generation, !.client = r.client]
  <2>1. room' = r /\ call' = [call EXCEPT ![x] = k]
    BY <1>3, Types DEF OpenSocket
  <2>2. at \in {"close", "connect"}
    OBVIOUS
  <2>3. call[x] \in Call
    BY Types
  <2>. HIDE DEF at
  <2>4. /\ k.at = at /\ k.token = r.generation /\ k.by = call[x].by
        /\ k.silent = call[x].silent
    BY <2>3 DEF Call
  <2>. HIDE DEF k
  <2>5. call'[x] = k /\ \A y \in Slot \ {x} : call'[y] = call[y]
    BY <2>1, Types
  <2>6. Origin(x)'
    BY <2>2, <2>4, <2>5 DEF Origins, Origin
  <2>7. Covered'
    BY <2>1, <2>2, <2>4, <2>5 DEF Covered, Attempting
  <2>. QED
    BY <2>1, <2>2, <2>4, <2>5, <2>6, <2>7, StepLeads DEF GoesOn, Leaves, Passed
<1>. QED
  BY <1>2, <1>3

LEMMA AttachStepLeads ==
    ASSUME TypeOK, Inv, Origins, NEW x \in Slot, AttachStep(x)
    PROVE  Leads
<1>1. call[x].at = "info" /\ Attempts(x)
  BY DEF AttachStep, InfoFails, InfoPin, InfoOpens, Attempts, Attempting
<1>2. Leaves(room)
  BY AsItIs
<1>3. CASE Throw(room, x)
  BY <1>1, <1>2, <1>3, ThrowLeads
<1>4. CASE Stale(x) /\ Return(room, x, TRUE)
  <2>1. ~raced => room.disposed
    BY <1>1, <1>4 DEF Stale, Inv, Calm, CalmInv, Now
  <2>. QED
    BY <1>1, <1>2, <1>4, <2>1, ReturnLeads
<1>5. CASE ~Stale(x) /\ Return([room EXCEPT !.needsPin = TRUE], x, TRUE)
  <2>. DEFINE r == [room EXCEPT !.needsPin = TRUE]
  <2>1. /\ r \in Fields /\ r.busy = room.busy /\ r.connected = room.connected
        /\ r.generation = room.generation /\ r.client = room.client /\ r.sub = room.sub
        /\ r.selected = room.selected /\ r.disposed = room.disposed /\ r.needsPin
        /\ r.crossed = room.crossed
    BY Types DEF Fields
  <2>. HIDE DEF r
  <2>2. Leaves(r)
    BY <1>1, <2>1 DEF Leaves, Passed, Inv, CalmInv
  <2>. QED
    BY <1>1, <1>5, <2>1, <2>2, ReturnLeads DEF r
<1>6. CASE OpenSocket(room, x)
  BY <1>1, <1>2, <1>6, OpenLeads
<1>. QED
  BY <1>3, <1>4, <1>5, <1>6 DEF AttachStep, InfoFails, InfoPin, InfoOpens

\* An attempt goes on.
LEMMA MoveLeads ==
    ASSUME TypeOK, Inv, Origins, NEW x \in Slot, NEW k, call' = [call EXCEPT ![x] = k],
           k.at \in Attempting \ {"info", "discover"}, k.token = call[x].token,
           k.by = call[x].by, k.silent = call[x].silent,
           k.at \in {"login", "cookie"} => call[x].at \in {"login", "cookie"},
           room'.generation = room.generation, room'.client = room.client,
           room'.selected = room.selected,
           \/ UNCHANGED <<room, listen>>
           \/ Now(x)
    PROVE  Leads
<1>1. call'[x] = k /\ \A y \in Slot \ {x} : call'[y] = call[y]
  BY Types
<1>2. Origin(x)'
  BY <1>1 DEF Origins, Origin
<1>3. GoesOn
  <2>1. CASE Now(x)
    BY <1>1, <2>1 DEF Now, GoesOn, Covered
  <2>2. CASE UNCHANGED <<room, listen>>
    BY <1>1, <2>2, StillCovered DEF Current, Attempts
  <2>. QED
    BY <2>1, <2>2
<1>. QED
  BY <1>1, <1>2, <1>3, StepLeads

LEMMA OpenStepLeads ==
    ASSUME TypeOK, Inv, Origins, NEW x \in Slot, OpenStep(x)
    PROVE  Leads
<1>1. Attempts(x)
  BY DEF OpenStep, Closed, ConnectFails, ConnectHangs, ConnectsTooLate, Connects, Saves,
         SaveFails, Listens, Attempts, Attempting
<1>2. Leaves(room) /\ call[x] \in Call
  BY AsItIs, Types
<1>3. CASE Throw(room, x)
  BY <1>1, <1>2, <1>3, ThrowLeads
<1>4. CASE Closed(x) /\ room.client # 0
  <2>. DEFINE k == [call[x] EXCEPT !.at = "connect", !.client = room.client]
  <2>1. /\ k.at = "connect" /\ k.token = call[x].token /\ k.by = call[x].by
        /\ k.silent = call[x].silent
        /\ call' = [call EXCEPT ![x] = k] /\ UNCHANGED <<room, listen>>
    BY <1>2, <1>4, Types DEF Call, Closed
  <2>. HIDE DEF k
  <2>2. k.at \in Attempting \ {"info", "discover"}
    BY <2>1 DEF Attempting
  <2>. QED
    BY <2>1, <2>2, MoveLeads
<1>5. CASE ConnectsTooLate(x)
  <2>1. room' = Freed(room, x) /\ Finish(x) /\ Stale(x)
    BY <1>5 DEF ConnectsTooLate, Overtaken
  <2>2. Passed(room', listen)
    BY <1>1, <1>2, <2>1, FreedFacts
  <2>3. ~raced => room.disposed
    BY <1>1, <2>1 DEF Stale, Inv, Calm, CalmInv, Now
  <2>4. GoesOn
    BY <2>2, <2>3 DEF GoesOn, Covered, Passed
  <2>. QED
    BY <2>1, <2>2, <2>4, HaltLeads DEF Passed
<1>6. CASE Connects(x)
  <2>. DEFINE n == Len(sock) + 1
              k == [call[x] EXCEPT !.at = "save1", !.ws = n]
  <2>1. /\ call' = [call EXCEPT ![x] = k] /\ Now(x)
        /\ room' = [room EXCEPT !.preferred = room.selected]
    BY <1>6, Types DEF Connects, Overtaken, Stale, Now
  <2>. HIDE DEF n
  <2>2. /\ k.at = "save1" /\ k.token = call[x].token /\ k.by = call[x].by
        /\ k.silent = call[x].silent
    BY <1>2 DEF Call
  <2>. HIDE DEF k
  <2>3. k.at \in Attempting \ {"info", "discover"}
    BY <2>2 DEF Attempting
  <2>4. /\ room'.generation = room.generation /\ room'.client = room.client
        /\ room'.selected = room.selected
    BY <2>1, Types DEF Fields
  <2>. QED
    BY <2>1, <2>2, <2>3, <2>4, MoveLeads
<1>7. CASE Saves(x) /\ room.selected # Nobody
  <2>. DEFINE k == [call[x] EXCEPT !.at = "save2"]
  <2>1. /\ k.at = "save2" /\ k.token = call[x].token /\ k.by = call[x].by
        /\ k.silent = call[x].silent
        /\ call' = [call EXCEPT ![x] = k] /\ UNCHANGED <<room, listen>>
    BY <1>2, <1>7, Types DEF Call, Saves, Await
  <2>. HIDE DEF k
  <2>2. k.at \in Attempting \ {"info", "discover"}
    BY <2>1 DEF Attempting
  <2>. QED
    BY <2>1, <2>2, MoveLeads
<1>8. CASE Listens(x) /\ room.selected = Nobody
  <2>. DEFINE r == [room EXCEPT !.connected = TRUE]
  <2>1. /\ call[x].at = "save2" /\ Opening(x) /\ Throw(r, x)
    BY <1>8 DEF Listens, Opening
  <2>2. ~Calm
    BY <1>1, <1>8, <2>1 DEF Inv, CalmInv, Standing, Selects
  <2>3. /\ r \in Fields /\ r.busy = room.busy
        /\ r.generation = room.generation /\ r.client = room.client /\ r.sub = room.sub
        /\ r.selected = room.selected /\ r.disposed = room.disposed
        /\ r.crossed = room.crossed
    BY Types DEF Fields
  <2>. HIDE DEF r
  <2>4. Leaves(r)
    BY <2>2, <2>3 DEF Leaves, Passed
  <2>. QED
    BY <1>1, <2>1, <2>4, ThrowLeads
<1>9. CASE Listens(x) /\ room.selected # Nobody
  <2>. DEFINE f == Freed(room, x)
  <2>1. /\ room' = [f EXCEPT !.connected = TRUE, !.sub = call[x].ws,
                             !.service = @ \/ room.foreground]
        /\ <<call[x].ws, call[x].token>> \in listen' /\ Finish(x)
    BY <1>9 DEF Listens
  <2>2. f \in Fields /\ Passed(f, listen)
    BY <1>1, <1>2, FreedFacts
  <2>. HIDE DEF f
  <2>3. /\ room'.generation = room.generation /\ room'.client = room.client
        /\ room'.selected = room.selected /\ room'.disposed = room.disposed
    BY <2>1, <2>2 DEF Fields, Passed
  <2>4. ~raced => room.disposed \/ Now(x)
    BY <1>1 DEF Inv, Calm, CalmInv
  <2>5. ~raced => Covered'
    BY <2>1, <2>3, <2>4 DEF Covered, Current, Now
  <2>. QED
    BY <2>1, <2>3, <2>5, HaltLeads DEF GoesOn
<1>10. CASE ConnectHangs(x)
  <2>. DEFINE n == Len(sock) + 1
              k == [call[x] EXCEPT !.at = "hangs", !.ws = n]
  <2>1. call' = [call EXCEPT ![x] = k] /\ UNCHANGED <<room, listen>>
    BY <1>10, Types DEF ConnectHangs
  <2>. HIDE DEF n
  <2>2. /\ k.at = "hangs" /\ k.token = call[x].token /\ k.by = call[x].by
        /\ k.silent = call[x].silent
    BY <1>2 DEF Call
  <2>. HIDE DEF k
  <2>3. k.at \in Attempting \ {"info", "discover"}
    BY <2>2 DEF Attempting
  <2>. QED
    BY <2>1, <2>2, <2>3, MoveLeads
<1>. QED
  BY <1>3, <1>4, <1>5, <1>6, <1>7, <1>8, <1>9, <1>10
     DEF OpenStep, Closed, ConnectFails, Saves, SaveFails

LEMMA SearchStepLeads ==
    ASSUME TypeOK, Inv, Origins, NEW x \in Slot, SearchStep(x)
    PROVE  Leads
<1>1. call[x].at = "discover" /\ Attempts(x)
  BY DEF SearchStep, DiscoverFails, Discovers, Attempts, Attempting
<1>2. room \in Fields
  BY Types
<1>3. CASE DiscoverFails(x)
  <2>1. room' = Freed(Scheduled(room), x) /\ Finish(x)
    BY <1>3 DEF DiscoverFails
  <2>2. /\ Scheduled(room) \in Fields /\ Scheduled(room).retry = ~room.disposed
        /\ Scheduled(room).generation = room.generation
        /\ Scheduled(room).client = room.client /\ Scheduled(room).selected = room.selected
        /\ Scheduled(room).disposed = room.disposed
    BY <1>2 DEF Scheduled, Fields
  <2>3. /\ room'.retry = ~room.disposed /\ room'.disposed = room.disposed
        /\ room'.generation = room.generation
        /\ room'.client = room.client /\ room'.selected = room.selected
    BY <2>1, <2>2 DEF Freed, Fields
  <2>4. Covered'
    BY <2>3 DEF Covered
  <2>. QED
    BY <2>1, <2>3, <2>4, HaltLeads DEF GoesOn
<1>4. ASSUME NEW F \in SUBSET Verified, Discovers(x, F) PROVE Leads
  <2>. DEFINE match == IF call[x].choose THEN Nobody ELSE PreferredServer(F, room.preferred)
              f     == Freed(room, x)
              r     == [f EXCEPT !.servers = F]
              more  == F = {} \/ (room.preferred # Nobody /\ ~call[x].choose)
  <2>1. \/ Stale(x) /\ Finish(x) /\ UNCHANGED <<room, listen>>
        \/ ~Stale(x) /\ match # Nobody /\ Attach(r, listen, x, match, FALSE, "search")
        \/ /\ ~Stale(x)
           /\ room' = IF more THEN Scheduled(r) ELSE r
           /\ Finish(x)
    BY <1>4 DEF Discovers
  <2>2. f \in Fields /\ Passed(f, listen) /\ f.preferred = room.preferred
    BY <1>1, <1>2, AsItIs, FreedFacts DEF Freed, Fields
  <2>3. match # Nobody => match \in Server /\ room.preferred \in {Nobody, match}
    <3>1. Cardinality(F) = 1 /\ F # {} => (CHOOSE s \in F : TRUE) \in F
      OBVIOUS
    <3>2. Cardinality({}) = 0
      BY FS_EmptySet
    <3>3. /\ PreferredServer(F, room.preferred) \in F \cup {Nobody}
          /\ room.preferred # Nobody =>
                PreferredServer(F, room.preferred) \in {Nobody, room.preferred}
      BY <3>1, <3>2 DEF PreferredServer
    <3>. QED
      BY <3>3 DEF Verified
  <2>4. ~more => call[x].choose \/ room.preferred = Nobody
    OBVIOUS
  <2>. HIDE DEF f, match, more
  <2>5. /\ r \in Fields /\ Passed(r, listen) /\ r.preferred = room.preferred
    BY <2>2 DEF Fields, Verified, Passed
  <2>. HIDE DEF r
  <2>6. CASE Stale(x) /\ Finish(x) /\ UNCHANGED <<room, listen>>
    <3>1. ~raced => room.disposed
      BY <1>1, <2>6 DEF Stale, Inv, Calm, CalmInv, Now
    <3>2. GoesOn
      BY <2>6, <3>1 DEF GoesOn, Covered
    <3>. QED
      BY <2>6, <3>2, HaltLeads
  <2>7. CASE match # Nobody /\ Attach(r, listen, x, match, FALSE, "search")
    BY <2>3, <2>5, <2>7, AttachLeads
  <2>8. CASE ~Stale(x) /\ more /\ room' = Scheduled(r) /\ Finish(x)
    <3>1. Passed(room', listen) /\ room'.retry
      BY <2>5, <2>8, ScheduledFacts DEF Stale, Scheduled, Passed, Fields
    <3>2. GoesOn
      BY <3>1 DEF GoesOn, Covered
    <3>. QED
      BY <2>8, <3>1, <3>2, HaltLeads DEF Passed
  <2>9. CASE ~Stale(x) /\ ~more /\ room' = r /\ Finish(x)
    <3>1. room.selected = Nobody \/ room.preferred = Nobody
      BY <1>1, <2>4, <2>9 DEF Stale, Now, Origins, Origin
    <3>2. GoesOn
      BY <2>5, <2>9, <3>1 DEF GoesOn, Covered, Passed
    <3>. QED
      BY <2>5, <2>9, <3>2, HaltLeads DEF Passed
  <2>. QED
    BY <2>1, <2>6, <2>7, <2>8, <2>9
<1>. QED
  BY <1>3, <1>4 DEF SearchStep

LEMMA LoginStepLeads ==
    ASSUME TypeOK, Inv, Origins, NEW x \in Slot, LoginStep(x)
    PROVE  Leads
<1>1. call[x].at \in {"login", "cookie"} /\ Attempts(x) /\ call[x].by = "login"
  BY DEF LoginStep, LoginFails, LoginAnswers, CookieSaved, Attempts, Attempting,
         Origins, Origin
<1>2. Leaves(room) /\ call[x] \in Call
  BY AsItIs, Types
<1>3. CASE Throw(room, x)
  BY <1>1, <1>2, <1>3, ThrowLeads
<1>4. CASE Return(room, x, TRUE)
  BY <1>1, <1>2, <1>4, ReturnLeads
<1>5. CASE Await(x, "cookie") /\ UNCHANGED <<room, listen>>
  <2>. DEFINE k == [call[x] EXCEPT !.at = "cookie"]
  <2>1. /\ k.at = "cookie" /\ k.token = call[x].token /\ k.by = call[x].by
        /\ k.silent = call[x].silent /\ call' = [call EXCEPT ![x] = k]
    BY <1>2, <1>5, Types DEF Call, Await
  <2>. HIDE DEF k
  <2>2. k.at \in Attempting \ {"info", "discover"}
    BY <2>1 DEF Attempting
  <2>. QED
    BY <1>1, <1>5, <2>1, <2>2, MoveLeads
<1>6. CASE call[x].at = "cookie" /\ OpenSocket([room EXCEPT !.needsPin = FALSE], x)
  <2>. DEFINE r == [room EXCEPT !.needsPin = FALSE]
  <2>1. /\ r \in Fields /\ r.busy = room.busy /\ r.connected = room.connected
        /\ r.generation = room.generation /\ r.client = room.client /\ r.sub = room.sub
        /\ r.selected = room.selected /\ r.disposed = room.disposed /\ ~r.needsPin
        /\ r.crossed = room.crossed
    BY Types DEF Fields
  <2>. HIDE DEF r
  <2>2. Leaves(r)
    BY <1>2, <2>1 DEF Leaves, Passed
  <2>. QED
    BY <1>6, <2>2, OpenLeads DEF r
<1>. QED
  BY <1>1, <1>3, <1>4, <1>5, <1>6 DEF LoginStep, LoginFails, LoginAnswers, CookieSaved

\* Calls that attempt nothing begin and end.
LEMMA IdleLeads ==
    ASSUME TypeOK, Inv, Origins, NEW x \in Slot, ~Attempts(x), NEW k,
           call' = [call EXCEPT ![x] = k], ~k.silent,
           k.at \in {"none", "manual", "rename", "probe"} \cup Transfers,
           UNCHANGED <<room, listen>>
    PROVE  Leads
<1>1. call'[x] = k /\ \A y \in Slot \ {x} : call'[y] = call[y]
  BY Types
<1>2. Origin(x)' /\ k.at # "info"
  BY <1>1 DEF Origin, Transfers
<1>3. GoesOn
  BY <1>1, StillCovered DEF Current, Attempts
<1>. QED
  BY <1>1, <1>2, <1>3, StepLeads

LEMMA AskStepLeads ==
    ASSUME TypeOK, Inv, Origins, NEW x \in Slot, AskStep(x)
    PROVE  Leads
<1>1. call[x].at \in {"manual", "rename"} /\ ~Attempts(x)
  BY DEF AskStep, ManualFails, ManualAnswers, Renamed, Attempts, Attempting
<1>2. NoCall.silent = FALSE
  BY DEF NoCall
<1>3. CASE Finish(x) /\ UNCHANGED <<room, listen>>
  BY <1>1, <1>2, <1>3, NoCallFacts, IdleLeads DEF Finish
<1>4. ASSUME NEW server \in Server, NEW by \in {"manual", "rename"},
             Attach(room, listen, x, server, FALSE, by)
      PROVE  Leads
  BY <1>4, AsItIs, AttachLeads
<1>5. room.selected # Nobody => room.selected \in Server
  BY Types DEF Fields
<1>. QED
  BY <1>3, <1>4, <1>5 DEF AskStep, ManualFails, ManualAnswers, Renamed

LEMMA ProbeStepLeads ==
    ASSUME TypeOK, Inv, Origins, NEW x \in Slot, ProbeStep(x)
    PROVE  Leads
<1>1. call[x].at = "probe" /\ ~Attempts(x)
  BY DEF ProbeStep, ProbeAnswers, ProbeFails, Attempts, Attempting
<1>2. NoCall.silent = FALSE
  BY DEF NoCall
<1>3. CASE Finish(x) /\ UNCHANGED <<room, listen>>
  BY <1>1, <1>2, <1>3, NoCallFacts, IdleLeads DEF Finish
<1>4. CASE ~room.busy /\ Recover([room EXCEPT !.retry = FALSE], listen, x)
  <2>. DEFINE r == [room EXCEPT !.retry = FALSE]
  <2>1. Passed(r, listen) /\ r.busy = room.busy
    BY <1>1, RetryOff, Types DEF Fields
  <2>. HIDE DEF r
  <2>. QED
    BY <1>4, <2>1, RecoverLeads DEF r
<1>. QED
  BY <1>3, <1>4 DEF ProbeStep, ProbeAnswers, ProbeFails

LEMMA ReconnectLeads ==
    ASSUME TypeOK, Inv, Origins, NEW x \in Slot, ~Attempts(x),
           NEW r, Passed(r, listen), r.preferred = room.preferred,
           r.retry = room.retry, r.needsPin = room.needsPin,
           NEW probe \in BOOLEAN, Reconnect(r, x, probe)
    PROVE  Leads
<1>1. CASE room' = r /\ UNCHANGED <<call, listen>>
  <2>1. GoesOn
    BY <1>1, StillCovered DEF Passed, Current, Attempts
  <2>. QED
    BY <1>1, <2>1, HaltLeads DEF Passed
<1>2. CASE /\ room' = r /\ UNCHANGED listen
           /\ call' = [call EXCEPT ![x] = [NoCall EXCEPT !.at = "probe"]]
  <2>. DEFINE k == [NoCall EXCEPT !.at = "probe"]
  <2>1. k.at = "probe" /\ k.silent = FALSE
    BY DEF NoCall
  <2>2. call' = [call EXCEPT ![x] = k]
    BY <1>2
  <2>. HIDE DEF k
  <2>3. call'[x] = k /\ \A y \in Slot \ {x} : call'[y] = call[y]
    BY <2>2, Types
  <2>4. Origin(x)'
    BY <2>1, <2>3 DEF Origin
  <2>5. GoesOn
    BY <1>2, <2>3, StillCovered DEF Passed, Current, Attempts
  <2>. QED
    BY <1>2, <2>1, <2>3, <2>4, <2>5, StepLeads DEF Passed
<1>3. CASE ~r.busy /\ Recover([r EXCEPT !.retry = FALSE], listen, x)
  <2>. DEFINE q == [r EXCEPT !.retry = FALSE]
  <2>1. Passed(q, listen) /\ q.busy = r.busy
    BY DEF Passed, Fields
  <2>. HIDE DEF q
  <2>. QED
    BY <1>3, <2>1, RecoverLeads DEF q
<1>. QED
  BY <1>1, <1>2, <1>3 DEF Reconnect

LEMMA RetryFiresLeads ==
    ASSUME TypeOK, Inv, Origins, NEW x \in Slot, ~Attempts(x), RetryFires(x)
    PROVE  Leads
<1>. DEFINE r == [room EXCEPT !.retry = FALSE]
<1>1. /\ r \in Fields /\ Passed(r, listen) /\ r.connected = room.connected
  BY RetryOff, Types DEF Fields
<1>2. CASE ~r.busy /\ Recover(r, listen, x)
  BY <1>1, <1>2, RecoverLeads
<1>3. CASE r.connected /\ room' = r /\ UNCHANGED <<call, listen>>
  <2>1. ~raced => room.disposed \/ Current # {} \/ room.crossed
    BY <1>1, <1>3 DEF Inv, Calm, CalmInv
  <2>2. Current' = Current /\ room'.disposed = room.disposed
    BY <1>1, <1>3 DEF Current, Passed
  <2>3. GoesOn
    BY <1>1, <1>3, <2>1, <2>2 DEF GoesOn, Covered
  <2>. QED
    BY <1>1, <1>3, <2>3, HaltLeads DEF Passed
<1>4. CASE room' = Scheduled(r) /\ UNCHANGED <<call, listen>>
  <2>1. Passed(room', listen) /\ room'.retry = ~room'.disposed
    BY <1>1, <1>4, ScheduledFacts DEF Scheduled, Fields
  <2>2. GoesOn
    BY <2>1 DEF GoesOn, Covered
  <2>. QED
    BY <1>4, <2>1, <2>2, HaltLeads DEF Passed
<1>. HIDE DEF r
<1>. QED
  BY <1>2, <1>3, <1>4 DEF RetryFires, r

LEMMA LostLeads ==
    ASSUME TypeOK, Inv, Origins, NEW x \in Slot, ~Attempts(x), NEW l \in listen, Lost(x, l)
    PROVE  Leads
<1>. DEFINE r == [room EXCEPT !.connected = FALSE]
            L == listen \ {l}
<1>1. /\ r \in Fields /\ Passed(r, L)
  BY Types DEF Fields, Passed
<1>. HIDE DEF r
<1>2. CASE /\ l[2] # room.generation \/ room.disposed
           /\ listen' = L /\ UNCHANGED <<room, call>>
  <2>1. CASE room.disposed
    BY <1>2, <2>1, HaltLeads DEF GoesOn, Covered
  <2>2. CASE l[2] # room.generation
    <3>1. Current \subseteq Current'
      BY <1>2, <2>2 DEF Current
    <3>2. GoesOn
      BY <1>2, <3>1, StillCovered DEF Attempts
    <3>. QED
      BY <1>2, <3>2, HaltLeads
  <2>. QED
    BY <1>2, <2>1, <2>2
<1>3. CASE ~r.busy /\ Recover(r, L, x)
  BY <1>1, <1>3, RecoverLeads
<1>4. CASE room' = Scheduled(r) /\ UNCHANGED call
  <2>1. Passed(room', L) /\ room'.retry = ~room'.disposed
    BY <1>1, <1>4, ScheduledFacts DEF Scheduled, Fields
  <2>2. GoesOn
    BY <2>1 DEF GoesOn, Covered
  <2>. QED
    BY <1>4, <2>1, <2>2, HaltLeads DEF Passed
<1>. QED
  BY <1>2, <1>3, <1>4 DEF Lost, r

LEMMA BeginStepLeads ==
    ASSUME TypeOK, Inv, Origins, NEW x \in Slot, Begin(x)
    PROVE  Leads
<1>1. call[x].at = "none" /\ ~Attempts(x)
  BY DEF Begin, Attempts, Attempting
<1>2. Passed(room, listen) /\ NoCall.silent = FALSE
  BY AsItIs DEF NoCall
<1>3. CASE UserSearches(x)
  BY <1>2, <1>3, SearchLeads DEF UserSearches
<1>4. CASE UserAttaches(x)
  <2>1. PICK server \in room.servers : Attach(room, listen, x, server, FALSE, "user")
    BY <1>4 DEF UserAttaches
  <2>2. server \in Server
    BY Types DEF Fields
  <2>. QED
    BY <1>2, <2>1, <2>2, AttachLeads
<1>5. CASE LoginBegins(x)
  <2>. DEFINE k == [NoCall EXCEPT !.at = "login", !.by = "login", !.token = room.generation]
  <2>1. k.at = "login" /\ k.by = "login" /\ k.token = room.generation /\ k.silent = FALSE
    BY DEF NoCall
  <2>2. call' = [call EXCEPT ![x] = k]
    BY <1>5 DEF LoginBegins
  <2>. HIDE DEF k
  <2>3. call'[x] = k /\ \A y \in Slot \ {x} : call'[y] = call[y]
    BY <2>2, Types
  <2>4. /\ room'.generation = room.generation /\ room'.client = room.client
        /\ room'.selected = room.selected
    BY <1>5, Types DEF LoginBegins, Fields
  <2>5. Origin(x)' /\ Covered'
    BY <2>1, <2>3, <2>4 DEF Origin, Covered, Attempting
  <2>. QED
    BY <2>1, <2>3, <2>4, <2>5, StepLeads DEF GoesOn
<1>6. CASE NetworkChanges(x)
  BY <1>1, <1>2, <1>6, ReconnectLeads DEF NetworkChanges
<1>7. CASE ComesToFront(x)
  <2>. DEFINE r == [room EXCEPT !.foreground = TRUE]
  <2>1. Reconnect(r, x, FALSE)
    BY <1>7 DEF ComesToFront
  <2>2. /\ Passed(r, listen) /\ r.preferred = room.preferred
        /\ r.retry = room.retry /\ r.needsPin = room.needsPin
    BY Types DEF Fields, Passed
  <2>. HIDE DEF r
  <2>. QED
    BY <1>1, <2>1, <2>2, ReconnectLeads
<1>8. ASSUME NEW kind \in Transfers, TransferBegins(x, kind) PROVE Leads
  <2>. DEFINE k == [NoCall EXCEPT !.at = kind]
  <2>1. k.at = kind /\ k.silent = FALSE
    BY DEF NoCall
  <2>2. call' = [call EXCEPT ![x] = k] /\ UNCHANGED <<room, listen>>
    BY <1>8 DEF TransferBegins
  <2>. HIDE DEF k
  <2>. QED
    BY <1>1, <2>1, <2>2, IdleLeads
<1>9. CASE ManualBegins(x)
  <2>. DEFINE k == [NoCall EXCEPT !.at = "manual"]
  <2>1. k.at = "manual" /\ k.silent = FALSE
    BY DEF NoCall
  <2>2. call' = [call EXCEPT ![x] = k] /\ UNCHANGED <<room, listen>>
    BY <1>9 DEF ManualBegins
  <2>. HIDE DEF k
  <2>. QED
    BY <1>1, <2>1, <2>2, IdleLeads
<1>10. CASE RenameBegins(x)
  <2>. DEFINE k == [NoCall EXCEPT !.at = "rename"]
  <2>1. k.at = "rename" /\ k.silent = FALSE
    BY DEF NoCall
  <2>2. call' = [call EXCEPT ![x] = k] /\ UNCHANGED <<room, listen>>
    BY <1>10 DEF RenameBegins
  <2>. HIDE DEF k
  <2>. QED
    BY <1>1, <2>1, <2>2, IdleLeads
<1>. QED
  BY <1>1, <1>3, <1>4, <1>5, <1>6, <1>7, <1>8, <1>9, <1>10,
     RetryFiresLeads, LostLeads DEF Begin

LEMMA QuietLeads ==
    ASSUME Origins, UNCHANGED call,
           room'.generation = room.generation, room'.client = room.client,
           room'.selected = room.selected, GoesOn
    PROVE  Leads
<1>1. Origins'
  BY DEF Origins, Origin, Now
<1>2. \A x \in Slot : Asked(x)
  BY DEF Asked
<1>. QED
  BY <1>1, <1>2 DEF Leads

LEMMA OtherStepsLead ==
    ASSUME TypeOK, Inv, Origins,
           \/ \E x \in Slot : TransferEnds(x) \/ Expires(x)
           \/ \E w \in DOMAIN sock : SocketDrops(w) \/ LateOpens(w)
           \/ GoesToBack \/ Dispose
    PROVE  Leads
<1>1. ASSUME NEW x \in Slot, TransferEnds(x) PROVE Leads
  <2>1. ~Attempts(x) /\ Finish(x) /\ UNCHANGED <<room, listen>>
    BY <1>1 DEF TransferEnds, Attempts, Attempting, Transfers
  <2>2. NoCall.silent = FALSE
    BY DEF NoCall
  <2>. QED
    BY <2>1, <2>2, NoCallFacts, IdleLeads DEF Finish
<1>2. ASSUME NEW x \in Slot, Expires(x) PROVE Leads
  <2>1. /\ room'.generation = room.generation /\ room'.client = room.client
        /\ room'.selected = room.selected /\ room'.needsPin /\ Finish(x)
    BY <1>2, Types DEF Expires, Fields
  <2>2. GoesOn
    BY <2>1 DEF GoesOn, Covered
  <2>. QED
    BY <2>1, <2>2, HaltLeads
<1>3. ASSUME NEW w \in DOMAIN sock, SocketDrops(w) \/ LateOpens(w) PROVE Leads
  <2>1. UNCHANGED <<room, call, listen>>
    BY <1>3 DEF SocketDrops, LateOpens
  <2>2. GoesOn
    BY <2>1, StillCovered DEF Current, Attempts
  <2>. QED
    BY <2>1, <2>2, QuietLeads
<1>4. CASE GoesToBack
  <2>1. room' = [room EXCEPT !.foreground = FALSE] /\ UNCHANGED <<call, listen>>
    BY <1>4 DEF GoesToBack
  <2>2. /\ room'.generation = room.generation /\ room'.client = room.client
        /\ room'.selected = room.selected /\ room'.preferred = room.preferred
        /\ room'.disposed = room.disposed /\ room'.retry = room.retry
        /\ room'.needsPin = room.needsPin
    BY <2>1, Types DEF Fields
  <2>3. GoesOn
    BY <2>1, <2>2, StillCovered DEF Current, Attempts
  <2>. QED
    BY <2>1, <2>2, <2>3, QuietLeads
<1>5. CASE Dispose
  <2>. USE NumberFacts
  <2>1. /\ room'.generation = room.generation + 1 /\ room'.disposed
        /\ UNCHANGED call
    BY <1>5, Types DEF Dispose, Fields
  <2>2. \A y \in Slot : ~Now(y)'
    BY <2>1 DEF Inv, Numbers, Now
  <2>3. Origins'
    BY <2>1, <2>2 DEF Origins, Origin
  <2>4. (\A x \in Slot : Asked(x)) /\ GoesOn
    BY <2>1 DEF Asked, GoesOn, Covered
  <2>. QED
    BY <2>3, <2>4 DEF Leads
<1>. QED
  BY <1>1, <1>2, <1>3, <1>4, <1>5

LEMMA EveryStepLeads == TypeOK /\ Inv /\ Origins /\ Next => Leads
<1>. SUFFICES ASSUME TypeOK, Inv, Origins, Next PROVE Leads
  OBVIOUS
<1>1. ASSUME NEW x \in Slot,
             \/ Begin(x) \/ AttachStep(x) \/ OpenStep(x) \/ SearchStep(x) \/ LoginStep(x)
             \/ AskStep(x) \/ ProbeStep(x)
      PROVE  Leads
  BY <1>1, BeginStepLeads, AttachStepLeads, OpenStepLeads, SearchStepLeads,
     LoginStepLeads, AskStepLeads, ProbeStepLeads
<1>. QED
  BY <1>1, OtherStepsLead DEF Next

LEMMA OriginsHold == Spec => []Origins
<1>1. Init => Origins
  <2>1. NoCall.at = "none" /\ ~NoCall.silent /\ ~NoCall.choose
    BY DEF NoCall
  <2>. QED
    BY <2>1, NoCallFacts DEF Init, Origins, Origin, Call
<1>2. TypeOK /\ Inv /\ Origins /\ [Next]_vars => Origins'
  <2>1. UNCHANGED vars /\ Origins => Origins'
    BY DEF Origins, Origin, Now
  <2>. QED
    BY <2>1, EveryStepLeads DEF Leads
<1>. QED
  BY <1>1, <1>2, Invariance, PTL DEF Spec

\* What the app attaches to without being asked is the selected or the preferred server,
\* if there is any.
THEOREM OnlyTheSameServer == Spec => NeverAnotherServer
<1>1. TypeOK /\ Inv /\ Origins /\ [Next]_vars =>
        [\A x \in Slot :
           /\ call'[x].at = "info" /\ call[x].at # "info"
           /\ call'[x].by \in {"search", "recover"}
           => room.preferred \in {Nobody, call'[x].server} \/ room.selected = call'[x].server]_vars
  BY EveryStepLeads DEF Leads, Asked
<1>. QED
  BY <1>1, Invariance, OriginsHold, PTL DEF Spec, NeverAnotherServer

\* Whatever ends, something goes on that leads to the next attempt, until a login fails
\* to connect, a 401 has crossed a login and left connected behind, or manual or rename
\* attaches while another attempt goes on.
THEOREM ItKeepsTrying == Spec => KeepsTrying
<1>1. TypeOK /\ Inv /\ Origins /\ [Next]_vars =>
        [Covered => \/ Covered' \/ raced \/ (room.crossed /\ room.connected)
                    \/ \E x \in Slot : call[x].by = "login" /\ call'[x].at = "none"]_vars
  BY EveryStepLeads DEF Leads, GoesOn, LoginEnds
<1>. QED
  BY <1>1, Invariance, OriginsHold, PTL DEF Spec, KeepsTrying
=============================================================================
