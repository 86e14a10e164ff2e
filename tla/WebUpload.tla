----------------------------- MODULE WebUpload -----------------------------
(***************************************************************************)
(* The uploads of a page of the web client (web/static/app.js), from the   *)
(* choice of a file to the chat message that announces it, over the upload *)
(* service that UploadSpec describes.                                      *)
(*                                                                         *)
(* Files are sent by loops that run side by side: one for each paste, each *)
(* choice in the file dialog and each drop.  A loop stands at one await    *)
(* (at): a request, the pause before a retry, or waitForOpen; a step takes *)
(* it to its next one.  Of the connection the page knows whether it is in  *)
(* the chat and whether its socket is open (module WebPage).               *)
(***************************************************************************)
EXTENDS Naturals, FiniteSets, Sequences

CONSTANTS
    MaxLoops,      \* bound: loops at work at a time
    File,          \* the files of the user, by the key of their record
    MaxId,         \* bound: uploads the server opens
    Length, Chunk, \* bytes of a file, bytes of a request
    MaxRetries,    \* UPLOAD_MAX_RETRIES
    Limit,         \* TRANSFER_LIMIT
    Target,        \* whom the user can send to, Everyone among them
    Everyone,
    MaxUpsets      \* bound: restarts, expired uploads, reloads, changes of the target

ASSUME UploadAssumption ==
    /\ MaxLoops \in Nat /\ MaxId \in Nat /\ MaxRetries \in Nat /\ Limit \in Nat
    /\ Length \in Nat \ {0} /\ Chunk \in Nat \ {0}
    /\ Everyone \in Target /\ File # {} /\ MaxUpsets \in Nat

VARIABLES
    job,     \* the file each loop is at
    store,   \* localStorage: the upload id kept for a file, 0 for none
    conn,    \* "out" of the chat, "off" or "on" line in it
    target,  \* sendTarget
    list,    \* the transfers: the loop of one that runs, 0 for one that has ended
    phase,   \* the server: unused, open, done or gone
    offset,  \* the server: the bytes it has
    loose,   \* requests that nobody waits for and the server may still get
    upsets,  \* how often things have gone wrong
    wrong,   \* history: what was wrong with messages sent and failures reported
    lost,    \* history: uploads that the server has dropped by itself
    shared   \* history: uploads that two loops were at, at the same time

serverVars == <<phase, offset>>
pageVars == <<store, conn, target, list>>
historyVars == <<wrong, lost, shared>>
vars == <<job, pageVars, serverVars, loose, upsets, historyVars>>

Loop == 1..MaxLoops
Id == 1..MaxId

\* at "last" the request has brought the last byte.  early: the server found the
\* upload open as the request came.  to is whom the message will be for, aim whom the
\* user chose (history); twin: another loop has been at the same file (history).
NoJob == [at |-> "idle", file |-> CHOOSE f \in File : TRUE, id |-> 0, off |-> 0,
          fails |-> 0, abort |-> FALSE, to |-> Everyone, aim |-> Everyone,
          early |-> FALSE, twin |-> FALSE]

Init ==
    /\ job = [t \in Loop |-> NoJob]
    /\ store = [f \in File |-> 0] /\ conn = "off" /\ target = Everyone /\ list = <<>>
    /\ phase = [i \in Id |-> "unused"] /\ offset = [i \in Id |-> 0]
    /\ loose = {} /\ upsets = 0
    /\ wrong = {} /\ lost = {} /\ shared = {}

---------------------------------------------------------------------------
(* The list of transfers *)

Running(L) == {k \in DOMAIN L : L[k] # 0}

\* The entries a list of Limit has room for.
Kept(L) == {k \in DOMAIN L : \/ k \in Running(L)
                             \/ Cardinality(Running(L)) + Cardinality((1..k) \ Running(L)) <= Limit}

\* Mutant: the oldest go, whatever they are.
NewestOf(L) == SubSeq(L, 1, IF Len(L) < Limit THEN Len(L) ELSE Limit)

\* The while of addTransfer: the oldest that have ended go, none that runs; what is
\* kept stays in its order (the nth entry is the one with n kept up to it).
Trimmed(L) ==
    LET Rank(k) == Cardinality({j \in Kept(L) : j <= k})
    IN  [n \in 1..Cardinality(Kept(L)) |-> L[CHOOSE k \in Kept(L) : Rank(k) = n]]

\* addTransfer
Added(x) == Trimmed(<<x>> \o list)

\* createUploadCard: the entry is "up" or "retry" as long as the upload goes on.
CreateUploadCard(t) == list' = Added(t)

\* updateTransfer with a state that is neither "up" nor "retry".
Ended(t) == [k \in DOMAIN list |-> IF list[k] = t THEN 0 ELSE list[k]]

---------------------------------------------------------------------------
(* Requests, and what a job comes to *)

Upset == upsets < MaxUpsets /\ upsets' = upsets + 1

\* xhrRequest for upload i
Sent(j, at, i) == [j EXCEPT !.at = at, !.id = i, !.early = i # 0 /\ phase[i] = "open"]

Put(j, off) == [Sent(j, "put", j.id) EXCEPT !.off = off]

\* storageGet(storeKey); the key is the file's name, size and date.
Saved(f) == store[f]

\* storageRemove(storeKey)
Forget(t) == store' = [store EXCEPT ![job[t].file] = 0]

CurrentRecipients == target

\* setSendTarget
SetSendTarget(to) == target' = to

\* sendWS does not send without a connection.
CanSend == conn = "on"

\* uploadAndSend up to its first await.
Starts(t, f) ==
    /\ job[t].at = "idle" /\ CanSend
    /\ \A u \in Loop : u < t => job[u].at # "idle"
    /\ LET same == {u \in Loop : job[u].at # "idle" /\ job[u].file = f}
           begun == Sent([NoJob EXCEPT !.file = f, !.to = CurrentRecipients,
                                       !.aim = target, !.twin = same # {}],
                         IF Saved(f) # 0 THEN "query" ELSE "create", Saved(f))
       IN job' = [u \in Loop |-> IF u = t THEN begun
                                 ELSE [job[u] EXCEPT !.twin = @ \/ u \in same]]
    /\ CreateUploadCard(t)
    /\ shared' = shared \cup {i \in {Saved(f)} \ {0} :
                               \E u \in Loop : job[u].at # "idle" /\ job[u].id = i}
    \* bound: an id for everyone who may need one
    /\ Cardinality({u \in Loop : job[u].at \in {"query", "create"}})
         < Cardinality({i \in Id : phase[i] = "unused"})
    /\ UNCHANGED <<store, conn, target, serverVars, loose, upsets, wrong, lost>>

\* The job is over: the card goes and the transfer has its last state.
End(t) ==
    /\ job' = [job EXCEPT ![t] = NoJob]
    /\ list' = Ended(t)

\* Mutant: whom the message is for is asked when it is sent.
ToCurrent(t) == target

\* to of uploadAndSend, asked before the upload begins.
ToOf(t) == job[t].to

\* sendWS(payload, to); payload names the file the server has returned.
Announce(t) ==
    /\ wrong' = wrong \cup {w \in {"part", "target", "canceled"} :
                     \/ w = "part" /\ phase[job[t].id] # "done" /\ job[t].id \notin lost
                     \/ w = "target" /\ ToOf(t) # job[t].aim
                     \/ w = "canceled" /\ job[t].abort}
    /\ End(t)

\* uploadResumable returns; without a connection the message waits in waitForOpen.
Uploaded(t) ==
    /\ Forget(t)
    /\ IF CanSend THEN Announce(t)
       ELSE /\ job' = [job EXCEPT ![t].at = "wait", ![t].early = FALSE, ![t].fails = 0,
                                  ![t].off = 0]
            /\ UNCHANGED <<list, wrong>>

\* httpError: a failure that may pass; "none" is a request without an answer.
Retryable(a) == a \in {"none", "400", "5xx"}

\* Mutant: the record goes with every failure that is final.
KeepsIfRetryable(a) == Retryable(a)

\* The record outlives a, so that the file can go on once the PIN has been given.
KeepsRecord(a) == Retryable(a) \/ a = "401"

\* The user is told of the failure a, wrongly: the record is not there to go on with,
\* or the server has no reason not to know the upload.
Fails(t, a) ==
    /\ End(t)
    /\ LET i == job[t].id
           reason == i \in lost \cup shared \/ phase[i] = "done" IN
       wrong' = wrong \cup
          {w \in {"record", "missing"} :
              \/ w = "record" /\ a # "404" /\ store'[job[t].file] # i /\ ~job[t].twin
              \/ w = "missing" /\ a = "404" /\ ~reason}

\* On with the while at off, after fails failures.
GoesOn(t, off, fails) ==
    job' = [job EXCEPT ![t] = [Put(@, off) EXCEPT !.fails = fails]]

---------------------------------------------------------------------------
(* The server.  It answers a request as it comes: what other requests change  *)
(* before the answer is read shows in the answer to the next one.             *)

At(t, places) == job[t].at \in places

\* The last byte is written, the file not yet offered; the handler holds the lock.
Finishing(i) == phase[i] = "open" /\ offset[i] = Length

IsOpen(i) == phase[i] = "open" /\ ~Finishing(i)

\* 404.  A request that has found the upload open and waits for the lock while
\* another one finishes it is told so too.
Missing(t) == phase[job[t].id] = "gone" \/ (phase[job[t].id] = "done" /\ job[t].early)

\* Mutant: the server writes wherever the client says.
TakenAnywhere(i, off) ==
    IF ~IsOpen(i) THEN {offset[i]}
    ELSE off..(IF off + Chunk < Length THEN off + Chunk ELSE Length)

\* How far a chunk sent at off may take upload i; a body that breaks off leaves a prefix.
Taken(i, off) == IF ~IsOpen(i) \/ off # offset[i] THEN {offset[i]}
                 ELSE off..(IF off + Chunk < Length THEN off + Chunk ELSE Length)

Complete(i) ==
    /\ Finishing(i) /\ phase' = [phase EXCEPT ![i] = "done"]
    /\ UNCHANGED <<job, pageVars, offset, loose, upsets, historyVars>>

\* A request that its sender has given up arrives after all.
LooseArrives(q) ==
    /\ q \in loose /\ loose' = loose \ {q} /\ ~Finishing(q.id)
    /\ \/ /\ q.op = "delete" /\ IsOpen(q.id)
          /\ phase' = [phase EXCEPT ![q.id] = "gone"]
          /\ offset' = [offset EXCEPT ![q.id] = 0]
       \/ q.op = "delete" /\ ~IsOpen(q.id) /\ UNCHANGED serverVars
       \/ /\ q.op = "put" /\ UNCHANGED phase
          /\ \E n \in Taken(q.id, q.off) : offset' = [offset EXCEPT ![q.id] = n]
    /\ UNCHANGED <<job, pageVars, upsets, historyVars>>

\* The requests of the loops T are given up, and more are sent that nobody waits
\* for.  A chunk that was on its way may be carried out all the same, now or later.
GivenUp(T, more) ==
    \/ loose' = loose \cup more /\ UNCHANGED upsets
    \/ /\ Upset
       /\ \E t \in T : /\ At(t, {"put"})
                      /\ loose' = loose \cup more \cup
                                   {[op |-> "put", id |-> job[t].id, off |-> job[t].off]}

Drop(S) ==
    /\ phase' = [i \in Id |-> IF i \in S THEN "gone" ELSE phase[i]]
    /\ offset' = [i \in Id |-> IF i \in S THEN 0 ELSE offset[i]]
    /\ lost' = lost \cup S

\* The server starts again: its maps are gone, and every connection to it.
Restarts ==
    /\ Upset /\ Drop({i \in Id : phase[i] # "unused"})
    /\ loose' = {} /\ conn' = IF conn = "on" THEN "off" ELSE conn
    /\ UNCHANGED <<job, store, target, list, wrong, shared>>

\* The cleanup removes an upload or a file.
Expires(i) ==
    /\ IsOpen(i) \/ phase[i] = "done"
    /\ Upset /\ Drop({i})
    /\ UNCHANGED <<job, pageVars, loose, wrong, shared>>

---------------------------------------------------------------------------
(* openUploadSession: nothing here is retried *)

\* The saved upload is there and goes on.
Resumes(t) ==
    /\ At(t, {"query"}) /\ IsOpen(job[t].id)
    /\ GoesOn(t, offset[job[t].id], 0)
    /\ UNCHANGED <<pageVars, serverVars, loose, upsets, historyVars>>

\* Any other answer drops the record: 404, but 401 and 500 too.
StartsOver(t) ==
    /\ At(t, {"query"})
    /\ Forget(t)
    /\ job' = [job EXCEPT ![t] = Sent(@, "create", 0)]
    /\ UNCHANGED <<conn, target, list, serverVars, loose, upsets, historyVars>>

\* storageSet(storeKey, uploadId)
Stored(t, i) == [store EXCEPT ![job[t].file] = i]

Created(t) ==
    /\ At(t, {"create"})
    /\ \E i \in Id :
         /\ phase[i] = "unused" /\ \A k \in Id : k < i => phase[k] # "unused"
         /\ phase' = [phase EXCEPT ![i] = "open"]
         /\ job' = [job EXCEPT ![t] = [@ EXCEPT !.at = "put", !.id = i, !.early = TRUE]]
         /\ store' = Stored(t, i)
    /\ UNCHANGED <<conn, target, list, offset, loose, upsets, historyVars>>

\* No answer, or not 201.  An id that the page does not learn is left out.
NotOpened(t) ==
    /\ At(t, {"query", "create"})
    /\ End(t)
    /\ UNCHANGED <<store, conn, target, serverVars, loose, upsets, historyVars>>

---------------------------------------------------------------------------
(* The while of uploadResumable *)

\* 200 forgives the failures.  The last chunk waits until the file is offered.
ChunkTaken(t) ==
    LET i == job[t].id
        n == job[t].off + Chunk
    IN /\ At(t, {"put"}) /\ IsOpen(i) /\ job[t].off = offset[i]
       /\ offset' = [offset EXCEPT ![i] = IF n < Length THEN n ELSE Length]
       /\ IF n < Length THEN GoesOn(t, n, 0) ELSE job' = [job EXCEPT ![t].at = "last"]
       /\ UNCHANGED <<pageVars, phase, loose, upsets, historyVars>>

\* 409: on from where the server is, with the failures there were.
Conflict(t) ==
    /\ At(t, {"put"}) /\ IsOpen(job[t].id) /\ job[t].off # offset[job[t].id]
    /\ GoesOn(t, offset[job[t].id], job[t].fails)
    /\ UNCHANGED <<pageVars, serverVars, loose, upsets, historyVars>>

\* An upload that is done answers every request with its file.
FileIsThere(t) ==
    /\ At(t, {"query", "put", "last", "check"}) /\ phase[job[t].id] = "done"
    /\ Uploaded(t)
    /\ UNCHANGED <<conn, target, serverVars, loose, upsets, lost, shared>>

\* Mutant: a failure does not count.
TriesForEver(n) == n

\* failures++
OneMore(n) == n + 1

\* Mutant: one retry too many.
ExhaustedLate(n) == n > MaxRetries + 1

Exhausted(n) == n > MaxRetries

\* The chunk failed in a way that may pass (no answer, 400, 5xx): a pause, or the
\* end; the record stays.
ChunkFailed(t) ==
    /\ At(t, {"put", "last"}) /\ UNCHANGED store
    /\ GivenUp({t}, {})
    /\ IF Exhausted(OneMore(job[t].fails))
       THEN Fails(t, "none")
       ELSE /\ job' = [job EXCEPT ![t].at = "backoff", ![t].early = FALSE,
                                  ![t].fails = OneMore(@)]
            /\ UNCHANGED <<list, wrong>>
    /\ UNCHANGED <<conn, target, serverVars, lost, shared>>

\* An error is thrown past the retries: a chunk refused for good, and whatever the
\* check is answered, if it is answered.
Throws(t, a) ==
    /\ \/ At(t, {"put"}) /\ ~Retryable(a)
       \/ At(t, {"check"}) /\ a # "none"
    /\ a = "404" => Missing(t)
    /\ IF KeepsRecord(a) THEN UNCHANGED store ELSE Forget(t)
    /\ Fails(t, a)
    /\ UNCHANGED <<conn, target, serverVars, loose, upsets, lost, shared>>

\* The sleep ends; only now a loop that was cancelled in it takes notice.
WakesUp(t) ==
    /\ At(t, {"backoff"}) /\ ~job[t].abort
    /\ job' = [job EXCEPT ![t] = Sent(@, "check", @.id)]
    /\ UNCHANGED <<pageVars, serverVars, loose, upsets, historyVars>>

\* The answer of the check; without one the chunk is sent again from where it was.
Checked(t) ==
    /\ At(t, {"check"})
    /\ \/ IsOpen(job[t].id) /\ GoesOn(t, offset[job[t].id], job[t].fails)
       \/ GoesOn(t, job[t].off, job[t].fails)
    /\ UNCHANGED <<pageVars, serverVars, loose, upsets, historyVars>>

---------------------------------------------------------------------------
(* Cancelling *)

Delete(i) == [op |-> "delete", id |-> i, off |-> 0]

\* Mutant: the record stays until the upload is found to be gone.
CancelKeeps(T) == store

\* storageRemove for what the loops T were sending.
CancelForgets(T) == [f \in File |-> IF \E t \in T : job[t].file = f THEN 0 ELSE store[f]]

\* The AbortError in uploadResumable, with the DELETE nobody waits for.
CancelUpload(t) ==
    /\ store' = CancelForgets({t})
    /\ GivenUp({t}, {Delete(job[t].id)})
    /\ End(t)

\* The cancel button of the card.  While the session is opened no id is known yet.
UserCancels(t) ==
    /\ \/ At(t, {"put", "last", "check"}) /\ CancelUpload(t)
       \/ At(t, {"query", "create"}) /\ End(t) /\ UNCHANGED <<store, loose, upsets>>
       \/ /\ At(t, {"backoff"}) /\ ~job[t].abort
          /\ job' = [job EXCEPT ![t].abort = TRUE] /\ UNCHANGED <<store, list, loose, upsets>>
    /\ UNCHANGED <<conn, target, serverVars, historyVars>>

WakesCanceled(t) ==
    /\ At(t, {"backoff"}) /\ job[t].abort
    /\ CancelUpload(t)
    /\ UNCHANGED <<conn, target, serverVars, historyVars>>

---------------------------------------------------------------------------
(* After the upload, and around it *)

\* waitForOpen: it looks again every 500 ms, whatever has come in between.
WaitEnds(t) ==
    /\ At(t, {"wait"})
    /\ IF CanSend THEN Announce(t) ELSE End(t) /\ UNCHANGED wrong
    /\ UNCHANGED <<store, conn, target, serverVars, loose, upsets, lost, shared>>

\* leaveChat: every upload that can be cancelled is, the list is emptied.
Leaves ==
    /\ conn # "out" /\ conn' = "out" /\ SetSendTarget(Everyone) /\ list' = <<>>
    /\ LET began == {t \in Loop : At(t, {"put", "last", "check"})} IN
       /\ job' = [t \in Loop |->
                    IF t \in began \/ At(t, {"query", "create"}) THEN NoJob
                    ELSE [job[t] EXCEPT !.abort = @ \/ At(t, {"backoff"})]]
       /\ store' = CancelForgets(began)
       /\ GivenUp(began, {Delete(job[t].id) : t \in began})
    /\ UNCHANGED <<serverVars, historyVars>>

Enters ==
    /\ conn = "out" /\ conn' = "off"
    /\ UNCHANGED <<job, store, target, list, serverVars, loose, upsets, historyVars>>

\* What module WebPage says in detail: the socket opens and is lost.
Connects ==
    /\ conn # "out" /\ conn' = IF conn = "on" THEN "off" ELSE "on"
    /\ UNCHANGED <<job, store, target, list, serverVars, loose, upsets, historyVars>>

\* A click on a device, or on what takes the choice back; an upset, to bound it.
Chooses(to) ==
    /\ conn # "out" /\ target # to /\ SetSendTarget(to) /\ Upset
    /\ UNCHANGED <<job, store, conn, list, serverVars, loose, historyVars>>

\* A file from somebody else, in ws.onmessage.
Receives ==
    /\ conn = "on" /\ list' = Added(0) /\ Upset
    /\ UNCHANGED <<job, store, conn, target, serverVars, loose, historyVars>>

\* The page is loaded again: only localStorage outlives it.
Reloads ==
    /\ job' = [t \in Loop |-> NoJob]
    /\ conn' = "off" /\ target' = Everyone /\ list' = <<>>
    /\ GivenUp(Loop, {})
    /\ UNCHANGED <<store, serverVars, historyVars>>

---------------------------------------------------------------------------
Opening(t) == Resumes(t) \/ StartsOver(t) \/ Created(t) \/ NotOpened(t)
Sending(t) == \/ ChunkTaken(t) \/ Conflict(t) \/ FileIsThere(t) \/ ChunkFailed(t)
              \/ WakesUp(t) \/ Checked(t) \/ WakesCanceled(t)
              \/ \E a \in {"401", "404", "5xx"} : Throws(t, a)
Goes(t) == Opening(t) \/ Sending(t) \/ WaitEnds(t)

Next ==
    \/ \E t \in Loop : Goes(t) \/ UserCancels(t) \/ \E f \in File : Starts(t, f)
    \/ \E i \in Id : Complete(i) \/ Expires(i)
    \/ \E q \in loose : LooseArrives(q)
    \/ \E to \in Target : Chooses(to)
    \/ Leaves \/ Enters \/ Connects \/ Receives \/ Reloads \/ Restarts

\* The browser runs what can go on, and every request is answered or breaks (each
\* step of Goes(t) changes job[t]).
Fairness == \A t \in Loop : WF_(job[t])(Goes(t))

Spec == Init /\ [][Next]_vars /\ Fairness

---------------------------------------------------------------------------
(* Properties *)

\* The variables have their types, a loop that sends or asks has an upload, and
\* one that has sent the last byte waits for nothing but the end of it.
TypeOK ==
    /\ job \in [Loop -> [at : {"idle", "query", "create", "put", "last", "backoff", "check", "wait"},
                         file : File, id : Id \cup {0}, off : 0..Length, fails : 0..MaxRetries,
                         abort : BOOLEAN, to : Target, aim : Target, early : BOOLEAN,
                         twin : BOOLEAN]]
    /\ store \in [File -> Id \cup {0}] /\ conn \in {"out", "off", "on"} /\ target \in Target
    /\ list \in Seq(Loop \cup {0})
    /\ phase \in [Id -> {"unused", "open", "done", "gone"}] /\ offset \in [Id -> 0..Length]
    /\ loose \subseteq [op : {"put", "delete"}, id : Id, off : 0..Length]
    /\ upsets \in 0..MaxUpsets /\ lost \subseteq Id /\ shared \subseteq Id
    /\ wrong \subseteq {"part", "target", "canceled", "record", "missing"}
    /\ \A t \in Loop : /\ At(t, {"query", "put", "last", "backoff", "check", "wait"})
                         => job[t].id # 0 /\ phase[job[t].id] # "unused"
                      /\ At(t, {"last"}) => phase[job[t].id] # "open" \/ Finishing(job[t].id)

\* A message names a file that the server has whole (or has dropped since by
\* itself), goes to whom the user had chosen when the upload began, and is not of
\* an upload that was cancelled.
AnnouncedRight == wrong \cap {"part", "target", "canceled"} = {}

\* An upload that goes on is in the list of transfers, however many came after it,
\* until it is cancelled or the user leaves the chat.
RunningListed ==
    \A t \in Loop : job[t].at \notin {"idle", "wait"} /\ ~job[t].abort
                    => \E k \in DOMAIN list : list[k] = t

\* While a file is being sent, and after its retries have been used up or the PIN
\* was asked for, the page could be loaded again and would resume: the record of the
\* file names the upload.  Not so when the same file is sent twice at a time.
ResumableAfterReload ==
    /\ \A t \in Loop : At(t, {"put", "last", "backoff", "check"}) /\ ~job[t].twin
                       => store[job[t].file] = job[t].id
    /\ "record" \notin wrong

\* The server does not know an upload that is being sent only if it has dropped it
\* by itself, or was just finishing it for a request given up before, or if two
\* loops have sent it at the same time and one was cancelled.
FailsForReason == "missing" \notin wrong

\* Every file that is begun comes to an end, announced, failed or cancelled: at any
\* time each loop will yet be idle.
EachFileEnds == \A t \in Loop : []<>(job[t].at = "idle")

\* Whatever the page does, and whatever comes late from it, the server it talks to
\* is the abstract service that module Uploads implements: an upload only grows, is
\* offered when it is whole, and is never back once gone.
S == INSTANCE UploadSpec WITH
        Sizes <- {Length},
        length <- [i \in Id |-> IF phase[i] = "unused" THEN 0 ELSE Length]
UsesService == S!Spec

=============================================================================
