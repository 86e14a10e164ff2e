------------------------------ MODULE Uploads ------------------------------
(***************************************************************************)
(* Resumable and one-shot uploads, downloads, and the periodic cleanup:    *)
(* internal/server/upload.go with the file parts of server.go.             *)
(*                                                                         *)
(* s.uploads and s.files are sync.Maps: one step per Load, Store, Delete.  *)
(* sess.mu is a mutex (holder): a section under it that no one can see     *)
(* inside is one step; a PUT holds it while it reads the request body.     *)
(* The bytes of a file are the numbers 1, 2, ..., so that order, loss and  *)
(* repetition show; a client sends the bytes that belong at its offset.    *)
(***************************************************************************)
EXTENDS Naturals, Sequences, FiniteSets

CONSTANTS
    Slot,          \* request handlers that may run at the same time
    Id,            \* random ids; one is never drawn twice
    Sizes,         \* sizes clients declare, none over the limit
    ChunkSize,     \* UploadChunkSize
    MaxUpload,     \* cfg.MaxUploadBytes
    Retention,     \* cfg.Retention
    MaxClock,      \* bound: last value of the clock
    Ops,           \* bound: the requests clients make
    Nobody,        \* no id, no slot
    Absent         \* no such file

ASSUME UploadsAssumption ==
    /\ ChunkSize \in Nat \ {0} /\ MaxUpload \in Nat
    /\ Sizes \subseteq 0..MaxUpload
    /\ Retention \in Nat /\ MaxClock \in Nat
    /\ Ops \subseteq {"create", "form", "get", "put", "delete", "download"}
    /\ Nobody \notin Id \cup Slot /\ Absent \notin Seq(Nat)

VARIABLES
    up,       \* the server process runs
    uploads,  \* ids in s.uploads
    files,    \* ids in s.files
    size,     \* sess.size, then rec.Size
    stamp,    \* sess.updatedAt, then rec.CreatedAt
    holder,   \* who holds sess.mu
    part,     \* disk: <id>.part
    final,    \* disk: <id>
    used,     \* ids drawn so far
    req,      \* the request each slot serves
    purge,    \* the cleanup goroutine; touched is a ghost, see Touch
    now,      \* the clock
    acked     \* ghost: the largest offset a response has told a client

maps == <<uploads, files, size, stamp>>
disk == <<part, final>>
vars == <<up, maps, holder, disk, used, req, purge, now, acked>>

Bytes(n) == [k \in 1..n |-> k]
Min2(a, b) == IF a < b THEN a ELSE b
Max2(a, b) == IF a > b THEN a ELSE b

Idle == [at |-> "idle", op |-> "none", id |-> Nobody, offset |-> 0, len |-> 0,
         written |-> 0, status |-> 0]
NoPurge == [at |-> "idle", id |-> Nobody, cutoff |-> 0, files |-> {}, uploads |-> {},
            touched |-> {}]

Init ==
    /\ up = TRUE /\ uploads = {} /\ files = {} /\ used = {} /\ now = 0
    /\ size = [i \in Id |-> 0] /\ stamp = [i \in Id |-> 0]
    /\ holder = [i \in Id |-> Nobody]
    /\ part = [i \in Id |-> Absent] /\ final = [i \in Id |-> Absent]
    /\ req = [r \in Slot |-> Idle]
    /\ purge = NoPurge
    /\ acked = [i \in Id |-> 0]

---------------------------------------------------------------------------
(* Requests *)

At(r, l)   == req[r].at = l
Goto(r, l) == req' = [req EXCEPT ![r].at = l]
Answer(r, s) == req' = [req EXCEPT ![r] =
    [Idle EXCEPT !.at = "answered", !.op = req[r].op, !.id = req[r].id, !.status = s]]

\* Mutant: sess.mu is not taken.
FreeAlways(i) == TRUE
Free(i) == holder[i] = Nobody

\* A response tells the client that the first n bytes are in.
Acknowledge(i, n) == acked' = [acked EXCEPT ![i] = Max2(@, n)]

\* The client has its answer, or has stopped waiting for it.
Close(r) ==
    /\ At(r, "answered")
    /\ req' = [req EXCEPT ![r] = Idle]
    /\ UNCHANGED <<up, maps, holder, disk, used, purge, now, acked>>

\* A request for an id some response has named; a PUT names an offset and
\* brings a body of any length.
Begin(r) ==
    /\ up /\ At(r, "idle")
    /\ \E op \in Ops \ {"create", "form"}, i \in used :
       \E o \in IF op = "put" THEN 0..size[i] ELSE {0} :
       \E n \in IF op = "put" THEN 0..(ChunkSize + 1) ELSE {0} :
          req' = [req EXCEPT ![r] =
            [Idle EXCEPT !.at = "lookup", !.op = op, !.id = i, !.offset = o, !.len = n]]
    /\ UNCHANGED <<up, maps, holder, disk, used, purge, now, acked>>

---------------------------------------------------------------------------
(* handleUploadCreate, and the end of an upload: finishUpload *)

\* os.Create of the .part file.
Create(r) ==
    /\ up /\ At(r, "idle") /\ "create" \in Ops
    /\ \E i \in Id \ used, n \in Sizes :
          /\ used' = used \cup {i}
          /\ size' = [size EXCEPT ![i] = n]
          /\ stamp' = [stamp EXCEPT ![i] = now]
          /\ part' = [part EXCEPT ![i] = <<>>]
          /\ req' = [req EXCEPT ![r] =
               [Idle EXCEPT !.at = IF n = 0 THEN "finish" ELSE "publish",
                            !.op = "create", !.id = i]]
    /\ UNCHANGED <<up, uploads, files, holder, final, purge, now, acked>>

Publish(r) ==
    /\ At(r, "publish")
    /\ uploads' = uploads \cup {req[r].id}
    /\ Answer(r, 201)
    /\ UNCHANGED <<up, files, size, stamp, holder, disk, used, purge, now, acked>>

\* Mutant: the lock is not released.
ReleaseNever(i, r) == UNCHANGED holder

Release(i, r) == holder' = [holder EXCEPT ![i] = IF @ = r THEN Nobody ELSE @]

\* os.Rename and uploads.Delete.
Finish(r) ==
    LET i == req[r].id
    IN  /\ At(r, "finish")
        /\ final' = [final EXCEPT ![i] = part[i]]
        /\ part' = [part EXCEPT ![i] = Absent]
        /\ uploads' = uploads \ {i}
        /\ Goto(r, "register")
        /\ UNCHANGED <<up, files, size, stamp, holder, used, purge, now, acked>>

\* os.Rename fails: a PUT leaves the upload open, a create leaves its .part.
FinishFails(r) ==
    /\ At(r, "finish")
    /\ Answer(r, 500)
    /\ Release(req[r].id, r)
    /\ UNCHANGED <<up, maps, disk, used, purge, now, acked>>

\* registerFile, then the response.
Register(r) ==
    LET i == req[r].id
    IN  /\ At(r, "register")
        /\ files' = files \cup {i}
        /\ stamp' = [stamp EXCEPT ![i] = now]
        /\ Acknowledge(i, size[i])
        /\ Release(i, r)
        /\ Answer(r, IF req[r].op = "create" THEN 201 ELSE 200)
        /\ UNCHANGED <<up, uploads, size, disk, used, purge, now>>

---------------------------------------------------------------------------
(* handleUploadSession *)

\* s.uploads.Load; a download looks in s.files at once (handleDownload).
Lookup(r) ==
    /\ At(r, "lookup")
    /\ Goto(r, IF req[r].op # "download" /\ req[r].id \in uploads
               THEN req[r].op ELSE "lookupFile")
    /\ UNCHANGED <<up, maps, holder, disk, used, purge, now, acked>>

\* s.files.Load: a finished upload answers for its session, except to DELETE.
LookupFile(r) ==
    LET i == req[r].id
    IN  /\ At(r, "lookupFile")
        /\ \/ /\ i \in files /\ req[r].op = "download"
              /\ Goto(r, "serve")
              /\ UNCHANGED acked
           \/ /\ i \in files /\ req[r].op \in {"get", "put"}
              /\ Acknowledge(i, size[i]) /\ Answer(r, 200)
           \/ /\ i \notin files \/ req[r].op = "delete"
              /\ Answer(r, 404)
              /\ UNCHANGED acked
        /\ UNCHANGED <<up, maps, holder, disk, used, purge, now>>

\* http.ServeFile opens the path.
Serve(r) ==
    /\ At(r, "serve")
    /\ Answer(r, IF final[req[r].id] = Absent THEN 404 ELSE 200)
    /\ UNCHANGED <<up, maps, holder, disk, used, purge, now, acked>>

Get(r) ==
    LET i == req[r].id
    IN  /\ At(r, "get") /\ Free(i)
        /\ \/ part[i] = Absent /\ Answer(r, 404) /\ UNCHANGED acked
           \/ part[i] # Absent /\ Answer(r, 200) /\ Acknowledge(i, Len(part[i]))
        /\ UNCHANGED <<up, maps, holder, disk, used, purge, now>>

\* Mutant: the .part file is left on disk.
CancelForgets(r) ==
    LET i == req[r].id
    IN  /\ At(r, "delete") /\ Free(i)
        /\ uploads' = uploads \ {i}
        /\ Answer(r, 204)
        /\ UNCHANGED <<up, files, size, stamp, holder, disk, used, purge, now, acked>>

Cancel(r) ==
    LET i == req[r].id
    IN  /\ At(r, "delete") /\ Free(i)
        /\ uploads' = uploads \ {i}
        /\ part' = [part EXCEPT ![i] = Absent]
        /\ Answer(r, 204)
        /\ UNCHANGED <<up, files, size, stamp, holder, final, used, purge, now, acked>>

---------------------------------------------------------------------------
(* putChunk *)

Limit(r) == Min2(ChunkSize, size[req[r].id] - req[r].offset)
Overflow(r) == req[r].written > Limit(r)

\* Mutant: the offset is not compared with the size of the .part file.
MatchesAny(r) == TRUE
Matches(r) == Len(part[req[r].id]) = req[r].offset

\* Mutant: a chunk shorter than the chunk size is taken for the last one.
CompleteWhenShort(r) == req[r].written < ChunkSize
Complete(r) == req[r].offset + req[r].written = size[req[r].id]

\* Mutant: what an oversized chunk wrote stays.
CutNothing(p, n) == p
Cut(p, n) == SubSeq(p, 1, n)

\* sess.mu.Lock, os.Stat, the comparison of the offset, and os.OpenFile, which
\* may fail.
Put(r) ==
    LET i == req[r].id
    IN  /\ At(r, "put") /\ Free(i)
        /\ \/ /\ part[i] = Absent
              /\ Answer(r, 404)
              /\ UNCHANGED <<holder, acked>>
           \/ /\ part[i] # Absent /\ ~Matches(r)
              /\ Answer(r, 409) /\ Acknowledge(i, Len(part[i]))
              /\ UNCHANGED holder
           \/ /\ part[i] # Absent /\ Matches(r)
              /\ Answer(r, 500)
              /\ UNCHANGED <<holder, acked>>
           \/ /\ part[i] # Absent /\ Matches(r)
              /\ Goto(r, "copy")
              /\ holder' = [holder EXCEPT ![i] = r]
              /\ UNCHANGED acked
        /\ UNCHANGED <<up, maps, disk, used, purge, now>>

\* io.Copy appends one byte; one more than the limit is read, to see overflow.
Copy(r) ==
    LET i == req[r].id
        n == req[r].written + 1
    IN  /\ At(r, "copy")
        /\ n <= Min2(req[r].len, Limit(r) + 1)
        /\ part' = [part EXCEPT ![i] = Append(@, req[r].offset + n)]
        /\ req' = [req EXCEPT ![r].written = n]
        /\ UNCHANGED <<up, maps, holder, final, used, purge, now, acked>>

\* A chunk has ended: updatedAt.  The cleanup, if one runs, ought to have heard
\* of it whenever it looks: touched remembers.
Touch(i) ==
    /\ stamp' = [stamp EXCEPT ![i] = now]
    /\ purge' = IF purge.at = "idle" THEN purge
                ELSE [purge EXCEPT !.touched = @ \cup {i}]

\* The body has been read: too long, complete, or one more chunk of it.
CopyEnds(r) ==
    LET i == req[r].id
    IN  /\ At(r, "copy")
        /\ req[r].written = Min2(req[r].len, Limit(r) + 1)
        /\ Touch(i)
        /\ \/ /\ Overflow(r)
              /\ part' = [part EXCEPT ![i] = Cut(@, req[r].offset)]
              /\ Answer(r, 413) /\ Release(i, r)
              /\ UNCHANGED acked
           \/ /\ ~Overflow(r) /\ Complete(r)
              /\ Goto(r, "finish")
              /\ UNCHANGED <<part, holder, acked>>
           \/ /\ ~Overflow(r) /\ ~Complete(r)
              /\ Acknowledge(i, req[r].offset + req[r].written)
              /\ Answer(r, 200) /\ Release(i, r)
              /\ UNCHANGED part
        /\ UNCHANGED <<up, uploads, files, size, final, used, now>>

\* The body breaks off, or a write fails; what was written stays.
CopyFails(r) ==
    /\ At(r, "copy") /\ ~Overflow(r)
    /\ Touch(req[r].id)
    /\ Answer(r, 400)
    /\ Release(req[r].id, r)
    /\ UNCHANGED <<up, uploads, files, size, disk, used, now, acked>>

---------------------------------------------------------------------------
(* handleUpload: one multipart request *)

Form(r) ==
    /\ up /\ At(r, "idle") /\ "form" \in Ops
    /\ \E i \in Id \ used, n \in 0..(MaxUpload + 1) :
          /\ used' = used \cup {i}
          /\ final' = [final EXCEPT ![i] = <<>>]
          /\ req' = [req EXCEPT ![r] =
               [Idle EXCEPT !.at = "form", !.op = "form", !.id = i, !.len = n]]
    /\ UNCHANGED <<up, maps, holder, part, purge, now, acked>>

FormCopy(r) ==
    LET n == req[r].written + 1
    IN  /\ At(r, "form") /\ n <= req[r].len
        /\ final' = [final EXCEPT ![req[r].id] = Append(@, n)]
        /\ req' = [req EXCEPT ![r].written = n]
        /\ UNCHANGED <<up, maps, holder, part, used, purge, now, acked>>

\* The part ends within the limit: registerFile.
FormEnds(r) ==
    LET i == req[r].id
    IN  /\ At(r, "form") /\ req[r].written = req[r].len /\ req[r].len <= MaxUpload
        /\ files' = files \cup {i}
        /\ size' = [size EXCEPT ![i] = req[r].len]
        /\ stamp' = [stamp EXCEPT ![i] = now]
        /\ Acknowledge(i, req[r].len)
        /\ Answer(r, 200)
        /\ UNCHANGED <<up, uploads, holder, disk, used, purge, now>>

\* It is too long, or breaks off: the file is removed.
FormFails(r) ==
    /\ At(r, "form")
    /\ final' = [final EXCEPT ![req[r].id] = Absent]
    /\ Answer(r, IF req[r].written > MaxUpload THEN 413 ELSE 500)
    /\ UNCHANGED <<up, maps, holder, part, used, purge, now, acked>>

---------------------------------------------------------------------------
(* StartFileCleanup, purgeExpiredFiles, purgeStaleUploads *)

Stale(i) == stamp[i] + Retention < purge.cutoff

\* Mutant: a single cleanup when the server starts, no ticker.
PurgeStartOnce ==
    /\ up /\ purge.at = "idle" /\ now = 0
    /\ purge' = [NoPurge EXCEPT !.at = "files", !.cutoff = now, !.files = files]
    /\ UNCHANGED <<up, maps, holder, disk, used, req, now, acked>>

\* Range visits the keys present when it starts.  A key stored later may be
\* visited too, but is newer than the cutoff.
PurgeStart ==
    /\ up /\ purge.at = "idle"
    /\ purge' = [NoPurge EXCEPT !.at = "files", !.cutoff = now, !.files = files]
    /\ UNCHANGED <<up, maps, holder, disk, used, req, now, acked>>

PurgeFile(i) ==
    /\ purge.at = "files" /\ i \in purge.files
    /\ purge' = [purge EXCEPT !.files = @ \ {i}]
    /\ \/ /\ i \in files /\ Stale(i)
          /\ files' = files \ {i}
          /\ final' = [final EXCEPT ![i] = Absent]
       \/ /\ i \notin files \/ ~Stale(i)
          /\ UNCHANGED <<files, final>>
    /\ UNCHANGED <<up, uploads, size, stamp, holder, part, used, req, now, acked>>

PurgeFilesDone ==
    /\ purge.at = "files" /\ purge.files = {}
    /\ purge' = [purge EXCEPT !.at = "uploads", !.uploads = uploads]
    /\ UNCHANGED <<up, maps, holder, disk, used, req, now, acked>>

\* Mutant: the age is read before the lock is waited for; the cutoff carries
\* what was decided.
PurgeVisitDecides(i) ==
    /\ purge.at = "uploads" /\ i \in purge.uploads
    /\ purge' = [purge EXCEPT !.at = "lock", !.id = i, !.uploads = @ \ {i},
                    !.cutoff = IF Stale(i) THEN MaxClock + Retention + 1 ELSE 0]
    /\ UNCHANGED <<up, maps, holder, disk, used, req, now, acked>>

\* Range reaches a session and waits for its lock.
PurgeVisit(i) ==
    /\ purge.at = "uploads" /\ i \in purge.uploads
    /\ purge' = [purge EXCEPT !.at = "lock", !.id = i, !.uploads = @ \ {i}]
    /\ UNCHANGED <<up, maps, holder, disk, used, req, now, acked>>

PurgeUpload ==
    LET i == purge.id
    IN  /\ purge.at = "lock" /\ Free(i)
        /\ purge' = [purge EXCEPT !.at = "uploads", !.id = Nobody]
        /\ \/ /\ Stale(i)
              /\ uploads' = uploads \ {i}
              /\ part' = [part EXCEPT ![i] = Absent]
           \/ /\ ~Stale(i)
              /\ UNCHANGED <<uploads, part>>
        /\ UNCHANGED <<up, files, size, stamp, holder, final, used, req, now, acked>>

PurgeEnds ==
    /\ purge.at = "uploads" /\ purge.uploads = {}
    /\ purge' = NoPurge
    /\ UNCHANGED <<up, maps, holder, disk, used, req, now, acked>>

---------------------------------------------------------------------------
(* The process and the clock *)

Crash ==
    /\ up
    /\ up' = FALSE
    /\ uploads' = {} /\ files' = {}
    /\ holder' = [i \in Id |-> Nobody]
    /\ req' = [r \in Slot |-> Idle]
    /\ purge' = NoPurge
    /\ acked' = [i \in Id |-> 0]
    /\ UNCHANGED <<size, stamp, disk, used, now>>

\* New: removeOrphanUploads clears the directory of what the last run left.
Restart ==
    /\ ~up
    /\ up' = TRUE
    /\ part' = [i \in Id |-> Absent] /\ final' = [i \in Id |-> Absent]
    /\ UNCHANGED <<maps, holder, used, req, purge, now, acked>>

Tick ==
    /\ now < MaxClock
    /\ now' = now + 1
    /\ UNCHANGED <<up, maps, holder, disk, used, req, purge, acked>>

---------------------------------------------------------------------------
ClientStep(r) == Close(r) \/ Begin(r) \/ Create(r) \/ Form(r)

\* Steps that wait for bytes from the client.
BodyStep(r) == Copy(r) \/ CopyFails(r) \/ FormCopy(r) \/ FormFails(r)

\* Steps that wait for the session's lock.
LockStep(r) == Get(r) \/ Cancel(r) \/ Put(r)

ServerStep(r) == \/ Publish(r) \/ Lookup(r) \/ LookupFile(r) \/ Serve(r)
                 \/ CopyEnds(r) \/ FormEnds(r)
                 \/ Finish(r) \/ FinishFails(r) \/ Register(r)

PurgeStep == \/ PurgeStart \/ PurgeFilesDone \/ PurgeEnds \/ PurgeUpload
             \/ \E i \in Id : PurgeFile(i) \/ PurgeVisit(i)

Next == \/ \E r \in Slot : ClientStep(r) \/ BodyStep(r) \/ LockStep(r) \/ ServerStep(r)
        \/ PurgeStep \/ Crash \/ Restart \/ Tick

Spec == Init /\ [][Next]_vars

\* The scheduler runs handlers and the cleanup ticker; sync.Mutex hands itself
\* to a waiter in the end, however often others take it (SF).
ServerFairness ==
    /\ \A r \in Slot : WF_vars(ServerStep(r)) /\ SF_vars(LockStep(r))
    /\ WF_vars(PurgeStep) /\ SF_vars(PurgeUpload)

\* A client sends the body it has begun or its connection breaks.
BodyFairness == \A r \in Slot : WF_vars(BodyStep(r))

ServerFairSpec == Spec /\ ServerFairness
FairSpec == ServerFairSpec /\ BodyFairness

---------------------------------------------------------------------------
(* Properties *)

Request == [at: {"idle", "answered", "lookup", "lookupFile", "serve", "get", "put",
                 "delete", "copy", "publish", "finish", "register", "form"},
            op: {"none", "create", "form", "get", "put", "delete", "download"},
            id: Id \cup {Nobody}, offset: Nat, len: Nat, written: Nat, status: Nat]

\* Types; and the request that appends to an upload is the one that holds it.
TypeOK ==
    /\ up \in BOOLEAN /\ now \in Nat
    /\ uploads \subseteq Id /\ files \subseteq Id /\ used \subseteq Id
    /\ size \in [Id -> Nat] /\ stamp \in [Id -> Nat] /\ acked \in [Id -> Nat]
    /\ holder \in [Id -> Slot \cup {Nobody}]
    /\ part \in [Id -> Seq(Nat) \cup {Absent}]
    /\ final \in [Id -> Seq(Nat) \cup {Absent}]
    /\ req \in [Slot -> Request]
    /\ purge \in [at: {"idle", "files", "uploads", "lock"}, id: Id \cup {Nobody},
                  cutoff: Nat, files: SUBSET Id, uploads: SUBSET Id,
                  touched: SUBSET Id]
    /\ \A r \in Slot : At(r, "copy") => holder[req[r].id] = r

\* An unfinished upload holds exactly the first bytes of the file, in order and
\* once each, whatever chunks were interrupted, repeated, oversized or sent by
\* two clients at once (putChunk).
PrefixIntegrity ==
    \A i \in uploads : part[i] # Absent /\ part[i] = Bytes(Len(part[i]))

\* What can be downloaded is the whole file: a half-written or longer one is
\* never registered (finishUpload, handleUpload).
FileComplete == \A i \in files : final[i] = Bytes(size[i])

\* An offset that a response has told a client is never taken back while the
\* upload or its file lives: the client may forget those bytes (putChunk, GET).
AckDurable ==
    /\ \A i \in uploads : acked[i] <= Len(part[i])
    /\ \A i \in files : acked[i] <= size[i]

\* While the server runs, each file in its directory is one that some map or
\* some request in progress will lead to removing; the exception is the .part
\* of an empty upload whose rename failed (handleUploadCreate).
Serving(i, places) == \E r \in Slot : req[r].id = i /\ req[r].at \in places

DiskOwned ==
    up => \A i \in Id :
        /\ part[i] # Absent => \/ i \in uploads
                               \/ Serving(i, {"publish", "finish"})
                               \/ size[i] = 0
        /\ final[i] # Absent => i \in files \/ Serving(i, {"register", "form"})

\* A live upload is not thrown away: once a chunk of it has ended while a cleanup
\* runs, no later step of that cleanup removes the upload or its file, however
\* old it was when the cleanup reached it and waited for its lock
\* (purgeStaleUploads: the age is read with the lock held).
PurgeSparesActive ==
    [][ up /\ up' /\ purge' # purge
        => \A i \in purge.touched \cap (uploads \cup files) : i \in uploads' \cup files' ]_vars

\* Every request is answered, once its body ends.
Answered == \A r \in Slot : req[r].at # "idle" ~> req[r].at \in {"idle", "answered"}

\* README: files expire after the retention period.  A registered file that is
\* past it is removed in the end (StartFileCleanup).
Expires == \A i \in Id : i \in files /\ stamp[i] + Retention < now ~> i \notin files

\* upload.go: a finished upload answers GET and PUT with its file, because the
\* client may have missed the response that said so.
FinishedIsFound ==
    [][ \A r \in Slot :
          /\ req[r].at # "answered" /\ req'[r].at = "answered"
          /\ req[r].op \in {"get", "put"} /\ req[r].id \in files
          => req'[r].status # 404 ]_vars

---------------------------------------------------------------------------
(* The abstract service *)

Phase(i) ==
    IF i \in files THEN "done"
    ELSE IF i \in uploads \/ Serving(i, {"publish", "finish", "register"}) THEN "open"
    ELSE IF i \notin used \/ Serving(i, {"form"}) THEN "unused"
    ELSE "gone"

\* The bytes of a chunk count once its request ends.
Offset(i) ==
    IF i \in files \/ Serving(i, {"register"}) THEN size[i]
    ELSE IF Phase(i) # "open" THEN 0
    ELSE IF Serving(i, {"copy"})
         THEN (req[CHOOSE r \in Slot : At(r, "copy") /\ req[r].id = i]).offset
    ELSE Len(part[i])

Service == INSTANCE UploadSpec WITH
    Sizes  <- 0..MaxUpload,
    phase  <- [i \in Id |-> Phase(i)],
    length <- [i \in Id |-> size[i]],
    offset <- [i \in Id |-> Offset(i)]

\* What clients see of an id follows the abstract service: offsets only grow, a
\* file appears when its last byte is in, and an id that is gone stays gone.
ImplementsService == Service!Spec
=============================================================================
