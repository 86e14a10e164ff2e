# LanRoom: verification project

LanRoom (repository *Three-end-transmission*) is a small Go server that puts the
devices of a local network in one room: group chat, private messages and file
transfer, over a WebSocket and an HTTP API.  A web page and an Android app are
its clients.  This directory holds TLA+ models of it, TLC configurations that
check them on small instances, and theorems proved with TLAPS for all instances.
Paths below are relative to the repository.

## 1. Inventory

| Part | State | Operations | Talks to | What must hold |
|---|---|---|---|---|
| Message hub, `internal/hub/hub.go` | `clients`, `history`, `known` under one `RWMutex`; a bounded `send` channel per client | Register, Unregister, SendMessage, deliver, deliverSlow, ReadPump, WritePump, addToHistory | every client over its socket; goroutines through the lock and the channels | no send on a closed channel; a message is neither lost, doubled nor shown to others; each sender's messages in order; who joins late gets the history; nothing stays behind a dead link; the device list is true |
| WebSocket entry, `server.go` handleWebSocket | none | upgrade, NewClient, Register, start the pumps | hub | Register ends before the pumps start |
| Uploads and files, `internal/server/upload.go`, `server.go` | `uploads`, `files` (sync.Map), `mu` and `updatedAt` of a session, `.part` and final files on disk | create, PUT chunk, GET offset, DELETE, finish, one-shot upload, download | clients over HTTP, disk | the file is the client's bytes; an acknowledged offset is never taken back; a file is offered only whole; nothing on disk is forgotten |
| Retention, `server.go`, `upload.go` | the ticker's cutoff, the session it waits for | purgeExpiredFiles, purgeStaleUploads, removeOrphanUploads | the maps and locks above | expired things go, live ones stay |
| Room PIN, `internal/server/auth.go` | `sessions`, `fails` | handleAuth, requireAuth, prune | all HTTP handlers | a session ends with its lifetime or the server; failures are counted within their window |
| Addresses, `netinfo.go`, `netutil/lanip.go` | none | rawClientIP, AdvertiseIPv4Addresses | auth, hub, info | the address of the client behind trusted proxies |
| Identity and discovery, `internal/discovery` | the identity file, per-address quotas | Identity, the UDP responder | disk, LAN | one stable identity per data directory |
| Web client, `web/static/app.js` | `ws`, `reconnectTimer`, `deviceId`, `sendTarget`, `transfers`, the upload records in localStorage, chat log | connect and its callbacks, reconnectIfStale, enterChat, leaveChat, submitPIN, openUploadSession, uploadResumable, uploadAndSend, waitForOpen | hub, uploads, auth, info | one connection at a time, closed by nobody but the user; it comes back; the own device is no peer; every upload ends, can be resumed, and is announced to whom it was meant for |
| Mobile app, `mobile/lib/room.dart`, `client.dart`, `discovery.dart` | `busy`, `connected`, `needsPin`, `_generation`, timers, the pending upload on disk | search, attach, login, _open, _lost, resumeUpload, cancelUpload, download | hub, uploads, Android | the newest attempt wins; never stuck busy; a lost connection is retried; one chat message per file |
| Android native part | pending results of system dialogs | permission, pick, save, keepAlive | the Flutter channel | every call is answered once |
| Configuration and start, `main.go`, `config.go` | none after start | | | |

The hard behaviour is in four kinds of places: the hub's goroutines, which share one
readers-writer lock and send on channels that another goroutine may close; the
upload handlers, which look a session up, wait for its lock and then act on files;
the cleanup, which takes the same locks; and the two clients, whose asynchronous
functions interleave at every `await`.

## 2. Modules

| Module | Models | Extends / instantiates |
|---|---|---|
| `Hub` | `hub.go` whole, handleWebSocket, and what a page does with a frame (`app.js` onmessage) | |
| `MCHub` | constants for TLC | extends `Hub` |
| `HubProofs` | types, locks, privacy of `Hub`: five theorems | extends `Hub`, `TLAPS`, `SequenceTheorems` |
| `HubDeliveryProofs` | the true device list reaches everyone | extends `HubProofs` |
| `HubMessageProofs` | each message once, in order, and to late joiners: three theorems | extends `HubDeliveryProofs`, `FiniteSetTheorems` |
| `UploadSpec` | the abstract upload service: what one file id goes through | |
| `Uploads` | `upload.go` whole, downloads, cleanup, crash and restart | instantiates `UploadSpec` under a refinement mapping |
| `MCUploads` | constants for TLC | extends `Uploads` |
| `UploadsProofs` | the inductive invariant of `Uploads`, six theorems | extends `Uploads`, `TLAPS`, `SequenceTheorems` |
| `UploadsRefinement` | the proof that `Uploads` implements `UploadSpec` | extends `UploadsProofs` |
| `Room` | the connection of the mobile app: `room.dart` without transfers, `client.dart`, `preferredServer` | |
| `MCRoom` | constants and symmetry for TLC | extends `Room` |
| `RoomProofs` | the room's six invariants and its two action properties: eight theorems | extends `Room`, `FiniteSetTheorems`, `SequenceTheorems` |
| `WebPage` | the connection of a page of the web client, and its list of devices: `app.js` | |
| `WebPageProofs` | four theorems about `WebPage` | extends `WebPage`, `TLAPS` |
| `WebUpload` | the uploads of a page: `app.js` from the choice of a file to the message | instantiates `UploadSpec` as the server |
| `WebUploadProofs` | five invariants of `WebUpload`, and that its server is `UploadSpec` | extends `WebUpload`, `FiniteSetTheorems` |

### Hub

Each connection `c` (a WebSocket that never comes back once ended) has these
tasks: `Main(c)`, the HTTP handler that runs Register and then becomes ReadPump;
`Leave(c)`, the broadcast made by whoever removed `c` from `h.clients`; its
WritePump (`writer[c]`); and any number of deliverSlow goroutines (`slow`).

* A section under `Lock` is one step (Register, Store, Remove); it waits until no
  delivery holds the read lock (`NoReader`).  A section under `RLock` that touches
  one channel or only reads is one step too: all that other readers can do
  meanwhile is send, and the model orders such sends in every way.  `deliver` holds
  `RLock` across all clients, so it is BeginDeliver, one DeliverTo per client in any order (a Go
  map is ranged over in any order) and EndDeliver, and the lock it holds is what
  keeps Unregister out.
* sendHistory is ReadCutoff, Snapshot, SendHistory: the cutoff is computed before
  the lock, the frame is queued after it.  broadcastPresence is ListDevices, then a
  delivery.  These gaps are where the interesting interleavings are.
* A full queue starts an element of `slow`, which retries, gives up at the end of
  its window (`Expire`) and disconnects (`StillThere`, `Disconnect`).
* `link[c]` is the network path.  LinkDown makes reads and writes fail at some later
  point: ReadFails stands for the pong deadline, WriteFails for the write deadline,
  WriteLost for a frame that the kernel took and nobody got.
* `history` is a set, and a message is its sender, a number, its recipients and its
  time.  `asked`, `chat`, `rosters` are ghosts: no guard reads them.
* `view[c]` is what the page shows; a history frame replaces it (`app.js`
  826-834), which matters for EveryMemberShows.

What is fused or abstracted: the two locks of SendMessage (the names of the
recipients, then addToHistory) are ReadMessage and Store, with the names taken in the first step; frames that ReadPump ignores
(bad JSON, other types, no kind) are no step; `Expire` happens only to connections
in `Flaky`, since a client that keeps reading empties its queue long before three
seconds pass.

### Uploads

`req[r]` is the request that handler `r` serves and the place it has come to;
`uploads`, `files` are the sync.Maps, `holder` the mutexes of the sessions, `part` and
`final` the two files an id can have.  A byte is its own position in the client's file, so a
lost, repeated or swapped byte shows as `part # Bytes(n)`.

* `Lookup` (uploads.Load), `LookupFile` (files.Load) and the step under the lock are
  separate, so a session may finish, be cancelled or expire while a request waits.
* A PUT holds the lock over `Copy` steps of one byte, since the body arrives at the
  client's pace; CopyFails leaves the prefix that arrived, and an oversized body is
  written one byte past the limit before CopyEnds cuts it.
* `Finish` (rename, uploads.Delete) and `Register` (files.Store, the response) are two steps.
  GET and DELETE under the lock do nothing another request can see halfway: the
  map entry and the file they remove are looked at under that lock only.
* The cleanup takes its cutoff, visits the files and then the sessions, waiting for
  the lock of each (`PurgeVisit`, `PurgeUpload`).
* `Crash` loses the maps; `Restart` is removeOrphanUploads.

* `Touch` is the end of a chunk: `updatedAt`, and the history field `touched` of the cleanup, which remembers the ids a chunk of
  which has ended since the cleanup began.  No guard reads it.

Assumed: os.Remove and os.Truncate succeed; the code ignores their errors (`upload.go` 228, 264, 305).  os.Create and
os.OpenFile may fail only where nothing has changed yet, os.Rename anywhere.

Left out: names, MIME types, response headers, and requests refused before they touch
state (wrong method, malformed id or JSON, a size over the limit).  The deletion of a map entry
and of its file in `PurgeFile` are one step: a download between them answers like one before or after.

`UploadSpec` says what a client may rely on for one id: unused, open (the offset only grows,
up to the declared size), done exactly when complete, gone for good.  `Uploads`
maps its state to it (`Phase`, `Offset`): bytes of a chunk count when its request ends.

### Room

`room` is the record of the fields of class Room.  Dart runs one thing at a time between two
`await`s, so each asynchronous call in progress is an entry of `call` that stands at one `await` (`at`), and a
step takes it to its next one, through every function it calls or returns to meanwhile: an attach that
fails inside `_recover` goes on, in the same step, with the search or the timer that `_recover` turns to.  These
shared continuations (`Attach`, `Search`, `FallBack`, `Return`, `Throw`) are operators that take the
fields as their caller leaves them.

| `at` | Waits in | For |
|---|---|---|
| discover | search | the permission, the replies, the check of each server |
| info | attach | two requests for `/api/info`, the stored cookie |
| close, connect, hangs, save1, save2 | _open | the old socket, the new one (at `hangs` with a handshake that will outlive the 8 s), the two writes |
| login, cookie | login | the answer, the write of the cookie |
| manual, rename | the functions of that name | the probe, the write of the nickname |
| probe | reconnect | `/api/info` after a change of the network |
| upload, download | resumeUpload, download | its end, or a 401 (`_handleExpired`) |

* A client (`LanClient`) is the generation of the attach that made it.  `sock` has every WebSocket and its
  client; `client.close()` closes only the last one its client opened in time (`SocketOf`), as the code does.
* `.timeout` stops the waiting and not the handshake.  ConnectHangs leaves a socket that is `late` and `waits`; as long as its client is in use
  it may open at any time after connect has given up (`LateOpens`), and no field of the app names it.  A client that is closed
  breaks off its handshakes (`http.close(force: true)`).
* One upload and one download may run side by side (`uploading`, `downloading` are separate), and the 401 of
  either is handled whichever client it was for and whatever has begun since (`Expires`).
* `listen` has the subscriptions with the `token` their callbacks compare; when a socket is closed, by
  whichever side, its `onDone` comes later (`Lost`).
* Timers fire at any moment while set, and the two seconds of debouncing are part of NetworkChanges.
* The guards of UserSearches, UserAttaches and LoginBegins include what the screen offers (`main.dart`).
* An await that waits for nothing outside the isolate (the cancel of a subscription) is no place to stop at.
  The model starts where `initialize` has begun to search.
* Two ghosts: `raced`, manual or rename attached while another attempt was under way, and the field `crossed`, a 401 was handled in the middle
  of an attempt and no attach or search has begun since (section 6).

### WebPage

JavaScript runs one handler at a time, so a handler, or the part of it between two awaits, is one step.

| State | In `app.js` |
|---|---|
| `inChat` | isInChat(); `chatName` is set and cleared with it |
| `ws`, `net` | `ws`, and what has become of each WebSocket the page ever made: `lost` is closed before onclose is called, `silent` is cut without notice, `aborted` is closed by the page during its handshake |
| `timer`, `strays` | the timer `reconnectTimer` names, and timers that it named once and that still run |
| `ask` | callbacks of timers that wait for loadConnectionInfo |
| `joining`, `pinRow`, `boot`, `auto` | the join button, the PIN row, the initialisation at the end of the file |
| `up`, `session` | the server runs, and takes the cookie of the page |
| `devices` | `deviceId`, `devicesSignature` and the list as it is drawn |

* A socket that is given up has `onclose` cleared but not `onerror`; a browser reports the failure of a
  handshake that the page broke off later (`AbortReported`), in no fixed order with the events of the next socket.
* `Fires` looks at isInChat, `InfoArrives` brings the answer, `GoesOn` acts on it without looking again.  A
  request that fails counts as "no PIN needed" (`.catch(() => null)`).
* `OnClose` overwrites `reconnectTimer` without clearing it, which is where `strays` come from.
* Delays are left out: a timer fires at any moment while it runs.
* `raced`, `muted`, `greeted` and the fields `late` and `early` are history; no guard reads them.

### WebUpload

`job[t]` is a loop of uploadAndSend calls (paste, file dialog, drop); each is at one await.

| `at` | Waits in | For |
|---|---|---|
| query, create | openUploadSession | GET of the saved upload, POST |
| put, last | uploadResumable | the PUT of a chunk; at `last` the server has all bytes and finishes the file |
| backoff, check | uploadResumable | the pause, then GET for the offset |
| wait | uploadAndSend | waitForOpen |

* The server is `UploadSpec` with the answers `upload.go` gives in each phase, the 404 for a request that
  was in while another finished the upload included (`Missing`, section 6).  `UsesService` checks that
  everything the page does to it, chunks that come late included, is a behaviour of `UploadSpec`; `Uploads`
  implements the same `UploadSpec`, and that is how the two models are composed.
* `loose` has requests nobody waits for: the DELETE of a cancelled upload, and chunks that failed for the
  page and arrive later.
* `store` is localStorage; only it outlives `Reloads`.
* `conn` is what WebPage says in detail; the loops only ask isOpen and isInChat.
* `wrong` collects what must not happen at the one moment a message is sent or a failure is shown
  (`Announce`, `Fails`); `lost`, `shared`, `aim`, `twin` are history too.

## 3. Runs

| Run | Asks | Bounds |
|---|---|---|
| HubSlow | TypeOK, NoPanic, LockInv, Conserved, AccurateArrived, NothingLeftBehind | 2 devices; queues of 2; one message; `c2` flaky; the clock stands |
| HubHistory | SenderOrder, LateJoinerSeesFresh, IntentPrivacy, PrivacyInv | 2 connections, 3 devices (one never online); 2 messages; four recipient lists; at most 1 recipient; clock 0..2, retention 1; queues of 8 |
| HubDelivery | EventuallyShown, with fairness | 2 messages, queues of 2, live links |
| UploadsSafe | TypeOK, PrefixIntegrity, AckDurable, FileComplete, DiskOwned, PurgeSparesActive, ImplementsService | 2 handlers, 1 id, files of 0 or 3 bytes, chunks of 2, clock 0..1 |
| UploadsLive | Answered, Expires, with fairness | 2 handlers, 1 id, files of 0 or 1 byte, clock 0..1 |
| Room | TypeOK, BusyReleased, FramesOfSelected, OneSubscription, ConnectedIsHeard, NoOrphan, NeverAnotherServer, KeepsTrying | 2 calls at a time, 3 attempts, 3 sockets, one server that is discovered and one manual one |
| WebPage | TypeOK, OneLiveSocket, SelfIsNoPeer, NoSelfKick, BackOnline, with fairness | 2 sockets that may still report, 1 waiting callback, 1 forgotten timer, one other device, a PIN, 3 upsets |
| WebUpload | TypeOK, AnnouncedRight, RunningListed, ResumableAfterReload, FailsForReason, EachFileEnds, UsesService, with fairness | 2 loops, 1 file of 2 chunks, 2 uploads, 1 retry, a list of 1, 2 targets, 1 upset |
| HubPresence, HubJoinGap, UploadsStall, UploadsFinished | one statement of the documentation each, which the code does not keep (section 6) | as small as shows it |

Why the bounds are enough.  Two connections give every pair of tasks that can meet
on one client; with queues of 2 the third frame (presence of a joiner, a message, presence
of a leaver) overflows, so deliverSlow runs in every way, several at once included.  Where
an order is checked the queue has room for every frame the run can make (8), since
a queue that overflows gives up the order.  A clock of 0..2 with retention 1 has a message that is fresh, one
exactly of retention age, and one that is too old.  Three bytes in chunks of two give a full
chunk, a last short chunk and an oversized one; two handlers give two clients that write
the same chunk, or one that writes while the other cancels or asks; with retention 0
and a clock of 0..1 both a fresh and an expired session exist, and one that has expired when a chunk of it ends while
the cleanup waits: PurgeSparesActive says that the cleanup, whose cutoff is older than the wait, does not take it away.


For Room, two calls at a time are the one that is overtaken and the one that overtakes, or a transfer that meets a 401 and the attempt
it falls into; three attempts are the search at the start, a connection and the one that replaces it, each with a login or none;
three sockets give an old one, one whose handshake hangs and a new one.  A manual server is one that has no identity, so it is
neither discovered nor searched for; the discovered one is the preferred one, or not.

For WebPage, an upset is anything that comes from outside and could go on for ever: a connection that breaks or is
cut, a refused handshake, a lost answer, the end of the server or the session, a return to the front.  Three give every pair and what follows it, for example a
lost connection, a return to the front while the callback waits, and a loss of the new connection.  Two sockets are the one given up and the new
one; the callback that waits is overtaken by the user or by a return to the front.  Two callbacks that wait at the same time are
beyond this run and within the theorems of section 5.

For WebUpload, an upset is a restart, an expired upload, a late chunk, a change of the target or a file received; reloads,
failed requests, cancellations and lost connections are not counted.  One file that both loops may send gives twin uploads, and one
after the other gives resumption; two chunks give a first and a last one; one retry gives a failure that passes, one that comes back
and the end; a list of one is over its limit with the second entry.

`CHECK_DEADLOCK FALSE` stands in every configuration because the system may come to rest: every
client has come and gone, every id is used, the app is disposed, or the page is out of the chat.  For the hub, NothingLeftBehind says that such a rest
is a good one.

Symmetry is used in Room only, over the slots that hold calls; no liveness is checked there.

## 4. Fairness

*Hub.*  Weak fairness for each task, WritePump and the deliverSlow goroutines of each connection: the
Go scheduler runs every runnable goroutine and an RWMutex does not let readers overtake a
waiting writer forever.  Nothing is assumed of the environment: clients need not join, send
or stay, the clock need not move.  A frame is written in the end only while the link is up.

*Uploads.*  Weak fairness for handler steps and for the cleanup; strong fairness for the steps that
take a session's mutex, as `sync.Mutex` hands itself to a waiter that has starved for a millisecond.
`BodyFairness` is an assumption about clients (a request body ends or its connection breaks), not about the server: it is
in `FairSpec`, which UploadsLive uses, and absent from `ServerFairSpec`, with which UploadsStall
shows what depends on it.

*Web client.*  Weak fairness for what the browser does by itself: a socket that connects is opened or refused, an end is
reported, timers fire, requests end.  For WebPage also HubStarts: without it nobody comes back.  `Noticed` has none, as a silent cut
may go unnoticed for as long as the page does not send, and BackOnline therefore speaks of the connection the page takes for open.
For WebUpload each loop goes on (`Goes`), which is the same assumption; neither the server nor the user need do anything.

## 5. Theorems

In `HubProofs`, for any sets of connections and devices, any recipient lists,
queue sizes, quotas and clock, from the named assumptions in `Hub` only (`DeviceOfAssumption`,
`BadAssumption`, `RawListsAssumption`, `NumberAssumption`).

* `TypeCorrect`: `Spec => []TypeOK`.  TypeOK is inductive as it stands: besides the types
  it says which frame a task holds where its next step needs one.
* `PanicFree`: `Spec => [](NoPanic /\ LockInv)`.  NoPanic alone is not inductive.  LockInv adds
  why it holds: members' channels are open, and a delivery in progress visits members only.
  The first is kept because a connection registers once; the second because Remove
  waits for every delivery (`NoReader`).
* `Private`: `Spec => [](IntentPrivacy /\ PrivacyInv)`.  PrivacyInv follows a directed message through
  the places it can be (a task's body, the history, a history frame, a delivery, a slow
  goroutine, a queue): its recipients are among those its sender named, and each frame on its way to a
  client is for that client.  The step that matters is ReadMessage: `Acceptable` is what
  keeps an empty list of recipients from meaning everyone.
* `LocksRespected` and `RecipientsSound` state the two strengthenings by themselves.
* `NothingHalfDead`: `Spec => []NoneHalfDead`.  A connection ends in parts, and any of ReadPump, WritePump, deliverSlow may be first.
  `LifeInv` says who has still to do the rest: a connection that has left `h.clients` is closed, or task `Leave(c)` is announcing its departure
  and closes it at the end (EndDeliver); a handler that reads has started its writer; a writer that has ended has closed the socket, which ends the handler.
  NoneHalfDead is NothingLeftBehind without ENABLED: `Resting` lists what each goroutine waits for, and that the hub is resting exactly when
  no step of Work is enabled is the conjunct of NothingLeftBehind that only TLC checks.

In `HubDeliveryProofs` and `HubMessageProofs`, from the same assumptions:

* `TrueListArrives`: `Spec => []AccurateArrived`.  The property speaks of a quiet hub; the invariant behind it, `Arriving`, of every state: a healthy
  client has been sent the list that is true now, or it is in its channel or with a deliverSlow for it, or a task has listed the devices as they
  are and has still to come to the client, or some task has yet to list them.  It is kept because every change of membership puts a
  task before its `ListDevices` in the same critical section (Register, and AfterRemove).
* `NeitherLostNorDoubled`: `Spec => []Conserved`.  Four places can hold a copy of a message for a client; `Held` counts them.  `Ledger`: no
  client has two copies, and one only of a message that has been stored (`Past`).  `Kept`: who was settled and is healthy has one.  Neither is
  inductive without `Origins` (a message is in the hands of its own sender's handler, with the last number drawn, so addToHistory never meets a copy of
  the message it stores) and `ReplayFirst` (the history frame, which replaces the screen, comes before any message stored
  since, and no deliverSlow carries one).  Infinite sets of clients are allowed, so the copies are counted by `Tally` (none, one, more) and
  turned into the cardinalities of Conserved at the end.
* `OrderKept`: `Spec /\ [](slow = {}) => []SenderOrder`.  deliverSlow overtakes, so the order holds only where no channel overflows (which is how the run
  checks it).  `Ordered` says that a sender's numbers grow along the way: screen, channel, delivery.
* `LateJoinersServed`: `Spec /\ []RoomForHistory => []LateJoinerSeesFresh`.  enqueueJSON drops a history frame that meets a full channel, so the theorem is
  about behaviours in which it meets none, like the run.  `Finds` follows the message: the newcomer has not looked yet, holds it in its snapshot, has the frame in its channel, or has
  been shown it; `Single`: there is one history frame at most, so none wipes it away; `Retained`: what is fresh is in the history.

In `UploadsProofs`, for any sets of handlers and ids, any sizes, chunk size, limit and retention, from `UploadsAssumption`
(the chunk size is not 0, and no declared size is over the limit):

* `Invariant`: `Spec => []Inv`.  PrefixIntegrity and the others say what is true of an id between requests, and none is
  inductive: while a chunk is being written the `.part` file is ahead of every offset told, and while an upload is being finished its id
  is in neither map.  Inv says who is responsible.  `Owns(r)` are the places where a request has an id's files
  for itself (it creates, writes or finishes it), `Alone` says that an id has one owner at most, and `Work(r)` what the owner
  has written so far, place by place (`Copying`: the prefix up to the offset of the chunk plus what has arrived).  `State(i)` is
  the rest of the id: what an upload nobody is writing, a file, or an id never drawn looks like.
* The lock is what keeps `Alone`: a PUT becomes an owner only when nobody holds the session, and for that one must know that no other
  owner does without the lock.  The owners without one are the requests that create an upload, so `Reached(i)`
  says of an id that others may ask for that it is not being created any more; it holds of what `Lookup` finds
  in the map, of every request on its way to the lock, and of the sessions the cleanup will visit.
* Each step is `Local(R, T)`: it changes the requests R and the ids T and nothing else.  `LocalStep` is the frame: such a step
  preserves Inv if it re-establishes `Asks` and `Work` of R and `State` of T.  There is one lemma per action.
* `TypeCorrect`, `PrefixKept`, `FilesWhole`, `OffsetsDurable`, `DiskAccounted` follow from Inv; `CleanupSpares` is an action
  property, from Inv and one more invariant, `Young`: the cutoff is not after the clock, and the cleanup has heard of no chunk whose upload
  is older than the cutoff.  It rests on the order in the code: the end of a chunk writes `updatedAt` before the lock is released
  (`RequestSteps`: every other step only makes an upload younger), and the cleanup reads it with the lock held (`PurgeSteps`).

In `UploadsRefinement`, from the same assumption:

* `Implements`: `Spec => ImplementsService`.  `View` says, from Inv, which phase and offset each id shows: by the place of its owner, or
  by the maps if it has none.  A step upon one id follows the abstract service there (`Follows`: it stays, opens, grows, completes,
  is deposited or vanishes) and leaves the other ids as they are (`OthersStay`), hence is a step of UploadSpec or a stutter
  (`FollowRefines`).  A crash is one Vanish of every id drawn so far.

In `WebPageProofs`, for any numbers of sockets, callbacks, forgotten timers and upsets, any devices and lists of them, with a PIN or
without, from `PageAssumption`:

* `TypeCorrect`: `Spec => []TypeOK`, inductive as it stands.  TypeOK is split by who writes the variables (`SocketTyped`, `TimerTyped`, `CallTyped`,
  `FormTyped`, `HubTyped`, `ListTyped`), so that each action proves only the parts it touches.
* `OneConnection`: `Spec => []OneLiveSocket`.  By itself the invariant is not inductive: a callback that has
  not been overtaken connects only because the user is still in the chat, and to know that one needs `Calm`: as long as nothing has gone
  on late, no timer is forgotten, and a timer or a waiting callback is there only in the chat and only without a socket.  `Calm` in turn needs
  OneLiveSocket: a socket that ends is `ws`, so no timer runs and no callback waits when onclose starts one.
* `NeverKicked`: `Spec => NoSelfKick`, from the same invariant, step by step: who closes an open socket is
  the user, or enters the chat twice, or is a callback that goes on late.
* `OwnDevice`: `Spec => []SelfIsNoPeer`, strengthened by "the id is known once a welcome has come", which holds since
  leaveChat forgets the signature of the list and not the id.

In `RoomProofs`, for any servers, any number of calls at once, of attempts and of sockets, from `RoomAssumption` (one attempt at least: the
generation begins at 1):

* `Invariance`: `Spec => [](TypeOK /\ Inv)`.  Every call of attach, search and login may have been overtaken at each of its awaits, and only some
  places look (`Stale`).  The invariant has two halves.  `Numbers` and `Standing` hold of every call, late or not: no token is newer than
  the generation, and a call of the present generation works for the client, the socket and the server in use.  FramesOfSelected and BusyReleased
  need no more than that, so they hold where manual and rename race with an attempt, too.
* `CalmInv` holds until such a race, or dispose.  There is one attempt at most, it is of the present generation and holds busy, and
  whenever it is about to connect (`Connecting`), every socket is shut but for late ones, which nobody listens to (`AllShut`): an old socket is shut when the attempt begins, and
  a handshake that opened in time has ended the connecting.  `InTime`: what is listened to did open in time.  A 401 may clear connected at any moment, so
  a subscription may be there without it; the other way round, `Unsaid` says that while an attempt goes on
  connected is not set, unless a 401 has put the question beside it (`crossed`).  OneSubscription, ConnectedIsHeard and NoOrphan follow,
  and NoOrphan after dispose from `AllShut`.
* The proof follows the code's shared steps.  `Passed`, `MayEnd` and `Leaves` are the contracts between a caller and `Attach`, `Search`, `Recover`,
  `FallBack`, `Return`, `Throw` and `OpenSocket`; there is one lemma per step, and the lemmas of the actions only show that the contract is met.
* `TypeCorrect`, `BusyIsReleased`, `FramesAreOfTheSelected`, `OneIsHeard`, `ConnectedMeansHeard`, `NoneIsOrphan`: TypeOK, BusyReleased,
  FramesOfSelected, OneSubscription, ConnectedIsHeard, NoOrphan.
* `OnlyTheSameServer` and `ItKeepsTrying`: `Spec => NeverAnotherServer` and `Spec => KeepsTrying`, by a second pass over the same steps (`Leads`).  They need `Origins`,
  what a call knows of where it comes from: it is silent only for `_recover`, which goes on after it fails; a search that
  lets the user choose has cleared the selected server; an attempt that asks for the server's info has a client to open a socket for.

In `WebUploadProofs`, for any numbers of loops, uploads, retries and upsets, any files (one at least), lengths and
chunks, any limit of the list and any targets, from `UploadAssumption`:

* `Invariant`: `Spec => []IInv`.  The five properties say what the user sees, and none is inductive by itself.  What they have in
  common is who may be at an upload.  `OneFile`: an id stands in the record of one file at most, and only loops at that file have it; two loops
  with the same id have it from the record (`Starts`), so it is shared.  `Twins`: two loops at one file both know it.  `Records`: a loop that
  is alone at its file is at the upload the record names.  `Deletes`: the id of a DELETE on its way is in no record and of no loop
  alone with it, since cancelling removes the record in the same step; without this a late DELETE could
  take away an upload the page resumes later.  `Knows` says for each place what is known of the id there.
* A step of a loop takes it from its place to another record j; `Moves(t, j)` is what all of them have in common (the upload stays the same or is
  let go, its record stays if it goes on), and `MovesInvariant` is proved once for it.  Beginning, opening, the server's steps, and
  leaving or reloading (`StopsInvariant`), which stop many loops at once, have lemmas of their own.
* `TrimmedKeeps`: whatever the limit, what runs stays in the list.  It rests on `RankNumbers`: counting the members of a finite set
  of positions up to each of them numbers them from 1 on, each number once.
* `TypeCorrect`, `AnnouncesRight`, `ListsWhatRuns`, `ResumesAfterReload`, `MissesForReason`: TypeOK, AnnouncedRight, RunningListed, ResumableAfterReload,
  FailsForReason.
* `TalksToService`: `Spec => UsesService`.  Opening is Open, a chunk (late ones too) Grow or a stutter, a late DELETE, an expiry or a
  restart Vanish of one id or of all.  With `Implements` of UploadsRefinement, the page and the server are shown against one specification
  for every value of the constants.

Only model-checked: the first conjunct of NothingLeftBehind (it uses ENABLED), EachFileEnds of WebUpload, and all other liveness (BackOnline among it), which
TLAPS does not reach.  Where a channel of the hub overflows, the code promises neither SenderOrder nor LateJoinerSeesFresh.

## 6. Where the code and its documents disagree

* **HubJoinGap.**  `docs/usage.md:44` promises that the others see a message at once.  A client that
  is still registering is a member already: a message sent between its history snapshot and its
  history frame reaches the page first, and the frame, which replaces the page's messages, wipes it out until
  the next reconnection.
* **HubPresence.**  `docs/usage.md:38` promises that devices online see each other.  Two presence broadcasts,
  each of which reads the list under one lock and sends it under another, can reach a client in
  the wrong order; the stale list stays until the next change.  AccurateArrived (HubSlow) shows that
  a healthy client has been sent the list that is true at least once.  It does not show when: a client that was sent an equal
  list earlier satisfies it.
* **UploadsStall.**  `README.en.md:26` promises that files expire.  The cleanup waits for a session's lock, which a
  PUT holds for as long as its body takes, and there is no limit on that (`main.go:125`).
* **UploadsFinished.**  `upload.go:203` means a finished upload to answer with its file.  A PUT or GET that found
  the session and waits for the lock while another chunk finishes it answers 404, as does
  a request between `uploads.Delete` and `files.Store`.

**Overlapping attempts in the app.**  `manual` and `rename` test `busy` before their await and attach after it
(`room.dart` 270 and 294, 468 and 477).  When that attach lands in the middle of another attempt, TLC finds
the following as soon as the exemption `raced` is taken out of the property named.

* OneSubscription, NoOrphan: a login whose cookie is being written calls `_open(_generation)` with the
  generation of the new attempt and connects next to it.  Two sockets are open on one client and both
  subscriptions pass the token test, so each message is listed twice, and the first socket is never closed.
* ConnectedIsHeard: an attempt that waits for its writes sets `connected` afterwards without looking at its
  token (`room.dart` 400); its socket has been closed by then.  If the newer attempt fails, the app shows
  that it is connected and, because it does, no timer tries again.

**Late answers in the app.**  Two things need no overlap of manual or rename.

* ConnectedIsHeard, KeepsTrying (`crossed`): an upload and a download may each meet a 401, and a download first waits for its file
  (`room.dart` 748-751).  The first 401 asks for the PIN; if the second is handled while the login that follows is connecting, the
  app ends up connected and asks for the PIN once more.  That login cancels the subscription and leaves `connected` set,
  so if its connection fails, the app shows that it is connected without a socket, and a timer that fires finds `connected` and gives up.  The same 401
  in the middle of a search leaves the question for the PIN with no client, and `login` returns at once.  The next attach or search puts all of this right.
* NoOrphan (`late`): connect gives up after 8 s (`client.dart` 93) and the handshake goes on.  If it succeeds after all while its client is
  in use, the socket stays open, `client.socket` does not name it, and nothing closes or hears it until the server
  or the network drops it; meanwhile the phone counts as a second connection of its device.

Without any overlap, a login that is accepted and whose connection then fails (`room.dart` 381) starts no
timer: the exception that KeepsTrying names.  The app comes back when it is brought to the front or
the network changes.

**The connection of the page.**  TLC finds the following as soon as the exemption named is taken out.

* OneLiveSocket, NoSelfKick (`raced`): the callback of the reconnect timer looks at isInChat only before its await (`app.js`
  789-798).  If the user leaves meanwhile, it connects all the same, as "null", and the page is in the room while it shows the join
  screen; if the return to the front has opened a connection, it closes that one; and an answer from before
  a new session throws a user out who has just given the PIN.
* NoSelfKick (`raced`): enterChat leaves the timer alone.  With `?auto=1`, a user who joins before the
  initialisation has ended and loses the connection is entered a second time by it (1642), and the timer of the first time
  closes the connection of the second.
* BackOnline (`muted`): when reconnectIfStale gives up a socket that is still connecting, its error event may come after the
  new socket has opened; onerror then shows "reconnecting" and disables sending, and nothing sets it right before the next close.
* SelfIsNoPeer (`early`): a list of devices may reach the page before its welcome (`hub.go` 124).  The own
  device is drawn as one to choose then, and is not drawn anew by an equal list.

reconnectIfStale looks at `readyState` only, so that a connection that was cut silently is not noticed on the return to the front, which
is what the comment at `app.js:854` says it is for.

**The uploads of the page.**

* FailsForReason (`shared`): the same file sent twice at a time makes both loops share one upload.  Cancelling one deletes it, and the
  other fails with 404.
* FailsForReason (`phase[i] = "done"`): the consequence of UploadsFinished: a check that comes in while a chunk given up before
  finishes the upload is told 404, and the upload counts as failed although the server has the file.
* ResumableAfterReload speaks of uploads that are open.  openUploadSession drops the record of the saved upload
  on any answer but 200 (`app.js` 965), 401 and 500 too, while the comment at 1032 keeps it when the PIN is needed.
* A cancellation during the pause before a retry takes effect when the pause ends, up to 30 seconds
  later; until then RunningListed exempts it.  A 5xx answer to the check ends the upload without the retries left.
* A user who leaves and enters again while a message waits in waitForOpen has it sent in the new session; its recipients are still the
  right ones (AnnouncedRight).

Seen in the same traces and not given a run: the welcome need not be the first
frame of a connection (`docs/api.md:18`), and a DELETE that waits for the last chunk's lock answers
204 although the file stays (`docs/api.md:46`).

## 7. Plan

In this order, most important first.  The operations of a module are added one at a time, each with its mutant.

1. `Transfer` (mobile upload task): resumeUpload, cancelUpload, pickFile, restart of the app, over
   `UploadSpec` instead of the whole server and next to `Room`.  Properties: at most one chat message per file, the saved
   job never outlives its file, cancel wins.
2. `Identity`: the identity file with two processes and crashes.
3. `Retention`: Hub's history and Uploads' files over one clock: how long a message in the history may name a file that is gone.

## 8. Not modelled, and why

Rendering, theme, emoji, the copy buttons, downloads and folder packing of the page, the vendored zip library, styles, and the
widgets of the app: no protocol state.  In WebUpload, empty files and a failing rename on the server are left to
Uploads; an upload whose id the page never learns costs nothing but an expiry.  Configuration: pure parsing, fixed before anything
runs.  The HTTP upgrade, origin checks, QR codes and headers, and the choice of addresses: request-local.  The room PIN is modelled as
a client meets it; the counting of failures per address is not.  The Android native part is behind the platform
channel, which Room leaves out.  The other parts of section 1 are on the plan.
