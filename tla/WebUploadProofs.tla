-------------------------- MODULE WebUploadProofs --------------------------
(***************************************************************************)
(* What holds of the uploads of a page for every number of loops, files    *)
(* and uploads, every length and chunk, and whatever comes in between: the *)
(* invariant of module WebUpload, the safety properties it implies, and    *)
(* that the service the page talks to is the one of UploadSpec.            *)
(***************************************************************************)
EXTENDS WebUpload, FiniteSetTheorems, TLAPS

---------------------------------------------------------------------------
(* The list of transfers *)

Entry == Loop \cup {0}

\* Numbering the members of a finite set of numbers from 1 on meets each number once.
LEMMA RankNumbers ==
    ASSUME NEW K, IsFiniteSet(K), K \subseteq Nat
    PROVE  LET Rank(k) == Cardinality({j \in K : j <= k})
           IN  /\ Cardinality(K) \in Nat
               /\ \A k \in K : Rank(k) \in 1..Cardinality(K)
               /\ \A j, k \in K : Rank(j) = Rank(k) => j = k
               /\ \A n \in 1..Cardinality(K) : \E k \in K : Rank(k) = n
<1>. DEFINE Upto(k) == {j \in K : j <= k}
            Rank(k) == Cardinality(Upto(k))
            c == Cardinality(K)
<1>1. c \in Nat
  BY FS_CardinalityType
<1>2. ASSUME NEW k \in K
      PROVE  IsFiniteSet(Upto(k)) /\ Rank(k) \in 1..c
  <2>1. Upto(k) \in SUBSET K /\ k \in Upto(k)
    OBVIOUS
  <2>2. IsFiniteSet(Upto(k)) /\ Rank(k) <= c
    BY <2>1, FS_Subset
  <2>3. Rank(k) \in Nat
    BY <2>2, FS_CardinalityType
  <2>4. Rank(k) # 0
    BY <2>1, <2>2, FS_EmptySet
  <2>. QED
    BY <1>1, <2>2, <2>3, <2>4
<1>3. ASSUME NEW j \in K, NEW k \in K, Rank(j) = Rank(k), j <= k
      PROVE  j = k
  <2>1. Upto(j) \in SUBSET Upto(k)
    <3>1. \A i \in K : i <= j => i <= k
      <4>1. j \in Nat /\ k \in Nat /\ j <= k /\ K \subseteq Nat
        BY <1>3
      <4>. QED
        BY <4>1
    <3>. QED
      BY <3>1
  <2>2. Upto(j) = Upto(k)
    BY <1>2, <1>3, <2>1, FS_Subset
  <2>3. k \in Upto(k)
    OBVIOUS
  <2>. QED
    BY <1>3, <2>2, <2>3
<1>4. \A j, k \in K : Rank(j) = Rank(k) => j = k
  <2>1. \A j, k \in K : j <= k \/ k <= j
    OBVIOUS
  <2>. QED
    BY <1>3, <2>1
<1>5. ASSUME NEW n \in 1..c, \A k \in K : Rank(k) # n
      PROVE  FALSE
  <2>. DEFINE T == (1..c) \ {n}
              f == [k \in K |-> Rank(k)]
  <2>1. IsFiniteSet(1..c) /\ Cardinality(1..c) = c
    BY <1>1, FS_Interval
  <2>2. IsFiniteSet(T) /\ Cardinality(T) = c - 1
    BY <2>1, FS_RemoveElement
  <2>3. f \in [K -> T]
    BY <1>2, <1>5
  <2>4. Cardinality(T) < Cardinality(K)
    BY <1>1, <2>2
  <2>5. \A k \in K : f[k] = Rank(k)
    OBVIOUS
  <2>. HIDE DEF T, f
  <2>6. \E x, y \in K : x # y /\ f[x] = f[y]
    BY <2>2, <2>3, <2>4, FS_PigeonHole
  <2>. QED
    BY <1>4, <2>5, <2>6
<1>. QED
  BY <1>1, <1>2, <1>4, <1>5

\* What addTransfer drops is never a transfer that runs.
LEMMA TrimmedKeeps ==
    ASSUME NEW L \in Seq(Entry)
    PROVE  /\ Trimmed(L) \in Seq(Entry)
           /\ \A k \in DOMAIN L : L[k] # 0 => \E n \in DOMAIN Trimmed(L) : Trimmed(L)[n] = L[k]
<1>. DEFINE K == Kept(L)
            Rank(k) == Cardinality({j \in K : j <= k})
            Place(n) == CHOOSE k \in K : Rank(k) = n
<1>1. K \subseteq 1..Len(L) /\ Len(L) \in Nat /\ \A k \in 1..Len(L) : L[k] \in Entry
  BY DEF Kept
<1>2. IsFiniteSet(K) /\ K \subseteq Nat
  <2>1. IsFiniteSet(1..Len(L))
    BY <1>1, FS_Interval
  <2>. QED
    BY <1>1, <2>1, FS_Subset
<1>3. /\ Cardinality(K) \in Nat
      /\ \A k \in K : Rank(k) \in 1..Cardinality(K)
      /\ \A j, k \in K : Rank(j) = Rank(k) => j = k
      /\ \A n \in 1..Cardinality(K) : \E k \in K : Rank(k) = n
  <2>. HIDE DEF K
  <2>. QED
    BY <1>2, RankNumbers
<1>4. Trimmed(L) = [n \in 1..Cardinality(K) |-> L[Place(n)]]
  BY DEF Trimmed
<1>. HIDE DEF K, Rank
<1>5. \A n \in 1..Cardinality(K) : Place(n) \in K /\ Rank(Place(n)) = n
  BY <1>3
<1>. HIDE DEF Place
<1>6. Trimmed(L) \in Seq(Entry)
  <2>1. \A n \in 1..Cardinality(K) : L[Place(n)] \in Entry
    BY <1>1, <1>5
  <2>2. Trimmed(L) \in [1..Cardinality(K) -> Entry]
    BY <1>4, <2>1
  <2>. QED
    BY <1>3, <2>2
<1>7. ASSUME NEW k \in DOMAIN L, L[k] # 0
      PROVE  \E n \in DOMAIN Trimmed(L) : Trimmed(L)[n] = L[k]
  <2>1. k \in K
    BY <1>7 DEF K, Kept, Running
  <2>2. Rank(k) \in 1..Cardinality(K)
    BY <1>3, <2>1
  <2>3. Place(Rank(k)) = k
    BY <1>3, <1>5, <2>1, <2>2
  <2>. QED
    BY <1>4, <2>2, <2>3
<1>. QED
  BY <1>6, <1>7

\* Some entry of the list L is the one of loop t.
Listed(t, L) == \E k \in DOMAIN L : L[k] = t

LEMMA AddedKeeps ==
    ASSUME list \in Seq(Entry), NEW x \in Entry
    PROVE  /\ Added(x) \in Seq(Entry)
           /\ \A t \in Loop : Listed(t, list) \/ t = x => Listed(t, Added(x))
<1>. DEFINE L == <<x>> \o list
<1>1. /\ L \in Seq(Entry) /\ L[1] = x /\ 1 \in DOMAIN L
      /\ \A k \in DOMAIN list : k + 1 \in DOMAIN L /\ L[k + 1] = list[k]
  OBVIOUS
<1>2. ASSUME NEW t \in Loop, Listed(t, list) \/ t = x
      PROVE  Listed(t, Added(x))
  <2>1. PICK k \in DOMAIN L : L[k] = t
    BY <1>1, <1>2 DEF Listed
  <2>2. t # 0
    BY DEF Loop
  <2>. HIDE DEF L
  <2>3. \E n \in DOMAIN Trimmed(L) : Trimmed(L)[n] = L[k]
    BY <1>1, <2>1, <2>2, TrimmedKeeps
  <2>. QED
    BY <2>1, <2>3 DEF Listed, Added, L
<1>3. Added(x) \in Seq(Entry)
  BY <1>1, TrimmedKeeps DEF Added
<1>. QED
  BY <1>2, <1>3

LEMMA EndedKeeps ==
    ASSUME list \in Seq(Entry), NEW t \in Loop
    PROVE  /\ Ended(t) \in Seq(Entry)
           /\ \A u \in Loop : u # t /\ Listed(u, list) => Listed(u, Ended(t))
BY DEF Ended, Listed, Entry

---------------------------------------------------------------------------
(* The invariant *)

Job == [at : {"idle", "query", "create", "put", "last", "backoff", "check", "wait"},
        file : File, id : Id \cup {0}, off : 0..Length, fails : 0..MaxRetries,
        abort : BOOLEAN, to : Target, aim : Target, early : BOOLEAN, twin : BOOLEAN]

Request == [op : {"put", "delete"}, id : Id, off : 0..Length]

\* The first conjuncts of TypeOK.
Types ==
    /\ job \in [Loop -> Job]
    /\ store \in [File -> Id \cup {0}] /\ conn \in {"out", "off", "on"} /\ target \in Target
    /\ list \in Seq(Entry)
    /\ phase \in [Id -> {"unused", "open", "done", "gone"}] /\ offset \in [Id -> 0..Length]
    /\ loose \subseteq Request
    /\ upsets \in 0..MaxUpsets /\ lost \subseteq Id /\ shared \subseteq Id

\* Where a loop has an upload that goes on.
Begun == {"query", "put", "last", "backoff", "check"}

\* Why the server may not know upload i.
Excused(i) == i \in lost \cup shared

\* What is known of upload i of a loop or of a record.
Opened(i) == phase[i] # "unused" /\ (phase[i] = "gone" => Excused(i))

\* What a loop knows of its upload.
Knows(t) ==
    /\ job[t].id = 0 <=> At(t, {"idle", "create"})
    /\ job[t].id # 0 => Opened(job[t].id)
    /\ job[t].to = job[t].aim
    /\ job[t].abort => At(t, {"backoff"})
    /\ At(t, {"wait"}) => phase[job[t].id] = "done" \/ job[t].id \in lost
    /\ At(t, {"last"}) => phase[job[t].id] # "open" \/ offset[job[t].id] = Length

\* An upload is of one file, and two loops are at it only if it is shared.
OneFile ==
    /\ \A f \in File : store[f] # 0 => Opened(store[f])
    /\ \A f, g \in File : store[f] # 0 /\ store[f] = store[g] => f = g
    /\ \A t \in Loop, f \in File : job[t].id # 0 /\ store[f] = job[t].id => f = job[t].file
    /\ \A t, u \in Loop : t # u /\ job[t].id # 0 /\ job[t].id = job[u].id =>
          job[t].file = job[u].file /\ job[t].id \in shared

\* Loops at the same file know that they are not alone.
Twins == \A t, u \in Loop :
    t # u /\ ~At(t, {"idle"}) /\ ~At(u, {"idle"}) /\ job[t].file = job[u].file => job[t].twin

\* The record of a file names the upload of the loop that is alone at it.
Records == \A t \in Loop : At(t, Begun) /\ ~job[t].twin => store[job[t].file] = job[t].id

\* A cancelled upload is in no record, and of no loop that is alone at it.
Deletes == \A q \in loose : q.op = "delete" =>
    /\ phase[q.id] # "unused"
    /\ \A f \in File : store[f] # q.id
    /\ \A t \in Loop : job[t].id = q.id => q.id \in shared

Showing == \A t \in Loop : job[t].at \notin {"idle", "wait"} /\ ~job[t].abort => Listed(t, list)

IInv == /\ Types /\ (\A t \in Loop : Knows(t)) /\ OneFile /\ Twins /\ Records /\ Deletes
        /\ Showing /\ wrong = {}

LEMMA ImpliesTypeOK == IInv => TypeOK
<1>. SUFFICES ASSUME IInv PROVE TypeOK
  OBVIOUS
<1>1. ASSUME NEW t \in Loop
      PROVE  /\ At(t, {"query", "put", "last", "backoff", "check", "wait"})
                  => job[t].id # 0 /\ phase[job[t].id] # "unused"
             /\ At(t, {"last"}) => phase[job[t].id] # "open" \/ Finishing(job[t].id)
  <2>1. Knows(t)
    BY DEF IInv
  <2>2. job[t].at \in {"idle", "query", "create", "put", "last", "backoff", "check", "wait"}
    BY DEF IInv, Types, Job
  <2>. QED
    BY <2>1, <2>2 DEF Knows, At, Opened, Finishing
<1>. QED
  BY <1>1 DEF IInv, Types, TypeOK, Job, Request, Entry

LEMMA NoJobType == NoJob \in Job
<1>1. PICK f \in File : TRUE
  BY UploadAssumption
<1>2. (CHOOSE g \in File : TRUE) \in File
  BY <1>1
<1>. QED
  BY <1>2, UploadAssumption DEF NoJob, Job

LEMMA InitInvariant == Init => IInv
<1>. SUFFICES ASSUME Init PROVE IInv
  OBVIOUS
<1>1. \A t \in Loop : job[t] = NoJob
  BY DEF Init
<1>2. NoJob.at = "idle" /\ NoJob.id = 0 /\ NoJob.to = NoJob.aim /\ ~NoJob.abort
  BY DEF NoJob
<1>3. Types
  BY NoJobType, UploadAssumption DEF Init, Types
<1>4. \A t \in Loop : Knows(t)
  BY <1>1, <1>2 DEF Knows, At
<1>5. \A f \in File : store[f] = 0
  BY DEF Init
<1>6. OneFile /\ Twins /\ Records /\ Deletes /\ Showing
  BY <1>1, <1>2, <1>5 DEF OneFile, Twins, Records, Deletes, Showing, At, Begun, Init
<1>. QED
  BY <1>3, <1>4, <1>6 DEF IInv, Init

---------------------------------------------------------------------------
(* A step of one loop *)

\* Loop t goes from where it stands to j.  Its upload stays the same or is let go;
\* the record stays or is forgotten, and has to stay if the upload goes on.
Moves(t, j) ==
    /\ ~At(t, {"idle"}) /\ j \in Job /\ job' = [job EXCEPT ![t] = j]
    /\ j.id \in {job[t].id, 0} /\ (j.id = 0 <=> j.at \in {"idle", "create"})
    /\ j.to = j.aim /\ (j.abort => j.at = "backoff")
    /\ j.at # "idle" => j.file = job[t].file /\ j.twin = job[t].twin
    /\ j.at = "wait" => phase[job[t].id] = "done" \/ job[t].id \in lost
    /\ j.at = "last" => phase[job[t].id] # "open" \/ offset'[job[t].id] = Length
    /\ store' = store \/ store' = [store EXCEPT ![job[t].file] = 0]
    /\ j.at \in Begun => At(t, Begun) /\ store' = store
    /\ loose' \subseteq Request
    /\ \A q \in loose' \ loose : q.op = "delete" =>
          q.id = job[t].id /\ job[t].id # 0 /\ j.id = 0 /\ store'[job[t].file] = 0
    /\ list' \in Seq(Entry) /\ \A u \in Loop \ {t} : Listed(u, list) => Listed(u, list')
    /\ j.at \notin {"idle", "wait"} /\ ~j.abort =>
          list' = list /\ ~At(t, {"wait"}) /\ ~job[t].abort
    /\ wrong' = {} /\ upsets' \in 0..MaxUpsets
    /\ offset' \in [Id -> 0..Length] /\ \A i \in Id : offset[i] = Length => offset'[i] = Length
    /\ UNCHANGED <<conn, target, phase, lost, shared>>

LEMMA MovesInvariant ==
    ASSUME IInv, NEW t \in Loop, NEW j, Moves(t, j)
    PROVE  IInv'
<1>1. /\ job \in [Loop -> Job] /\ job' = [job EXCEPT ![t] = j] /\ j \in Job
      /\ job'[t] = j /\ \A u \in Loop \ {t} : job'[u] = job[u]
  BY DEF IInv, Types, Moves
<1>2. Types'
  BY <1>1 DEF IInv, Types, Moves
<1>3. \A i : Opened(i)' <=> Opened(i)
  BY DEF Moves, Opened, Excused
<1>4. \A f \in File : store'[f] = store[f] \/ store'[f] = 0
  BY DEF IInv, Types, Moves
<1>5. job[t].id \in Id \cup {0} /\ \A u \in Loop : job[u].id \in Id \cup {0}
  BY <1>1 DEF Job
<1>6. ASSUME NEW u \in Loop PROVE Knows(u)'
  <2>1. CASE u = t
    <3>1. j.id # 0 => j.id = job[t].id /\ Opened(j.id)
      BY DEF Moves, IInv, Knows
    <3>2. /\ j.id = 0 <=> j.at \in {"idle", "create"}
          /\ j.to = j.aim /\ (j.abort => j.at = "backoff")
          /\ j.at = "wait" => phase[job[t].id] = "done" \/ job[t].id \in lost
          /\ j.at = "last" => phase[job[t].id] # "open" \/ offset'[job[t].id] = Length
          /\ phase' = phase /\ lost' = lost
      BY DEF Moves
    <3>. QED
      BY <1>1, <1>3, <2>1, <3>1, <3>2 DEF Knows, At
  <2>2. CASE u # t
    <3>1. Knows(u) /\ job'[u] = job[u]
      BY <1>1, <2>2 DEF IInv
    <3>2. phase' = phase /\ lost' = lost
      BY DEF Moves
    <3>3. At(u, {"last"}) => job[u].id \in Id
      BY <1>5, <3>1 DEF Knows, At
    <3>4. \A i \in Id : offset[i] = Length => offset'[i] = Length
      BY DEF Moves
    <3>. QED
      BY <1>3, <3>1, <3>2, <3>3, <3>4 DEF Knows, At
  <2>. QED
    BY <2>1, <2>2
<1>7. OneFile'
  <2>0. OneFile /\ shared' = shared
    BY DEF IInv, Moves
  <2>1. \A f \in File : store'[f] # 0 => Opened(store[f])'
    <3>1. \A f \in File : store'[f] # 0 => store'[f] = store[f] /\ Opened(store[f])
      BY <1>4, <2>0 DEF OneFile
    <3>. QED
      BY <3>1 DEF Moves, Opened, Excused
  <2>2. \A f, g \in File : store'[f] # 0 /\ store'[f] = store'[g] => f = g
    BY <1>4, <2>0 DEF OneFile
  <2>3. /\ j.id # 0 => j.id = job[t].id /\ j.file = job[t].file
    BY DEF Moves
  <2>4. \A u \in Loop : job'[u].id # 0 => job'[u].id = job[u].id /\ job'[u].file = job[u].file
    BY <1>1, <2>3
  <2>5. ASSUME NEW u \in Loop, NEW f \in File, job'[u].id # 0, store'[f] = job'[u].id
        PROVE  f = job'[u].file
    BY <1>4, <2>0, <2>4, <2>5 DEF OneFile
  <2>6. ASSUME NEW v \in Loop, NEW u \in Loop, v # u, job'[v].id # 0, job'[v].id = job'[u].id
        PROVE  job'[v].file = job'[u].file /\ job'[v].id \in shared'
    BY <2>0, <2>4, <2>6 DEF OneFile
  <2>. QED
    BY <2>1, <2>2, <2>5, <2>6 DEF OneFile
<1>8. Twins'
  <2>1. j.at # "idle" => j.file = job[t].file /\ j.twin = job[t].twin /\ ~At(t, {"idle"})
    BY DEF Moves
  <2>2. \A u \in Loop : job'[u].at # "idle" =>
          job'[u].file = job[u].file /\ job'[u].twin = job[u].twin /\ ~At(u, {"idle"})
    BY <1>1, <2>1 DEF At
  <2>. QED
    BY <2>2 DEF IInv, Twins, At
<1>9. Records'
  <2>1. ASSUME NEW u \in Loop, At(u, Begun)', ~job'[u].twin
        PROVE  store'[job'[u].file] = job'[u].id
    <3>1. CASE u = t
      <4>1. /\ j.at \in Begun /\ ~j.twin
        BY <1>1, <2>1, <3>1 DEF At
      <4>2. /\ At(t, Begun) /\ store' = store /\ j.file = job[t].file /\ ~job[t].twin
            /\ j.id = job[t].id
        BY <4>1 DEF Moves, Begun
      <4>. QED
        BY <1>1, <3>1, <4>2 DEF IInv, Records
    <3>2. CASE u # t
      <4>1. At(u, Begun) /\ ~job[u].twin /\ store[job[u].file] = job[u].id /\ job'[u] = job[u]
        BY <1>1, <2>1, <3>2 DEF At, IInv, Records
      <4>2. job[u].file # job[t].file
        BY <3>2, <4>1 DEF IInv, Twins, Moves, At, Begun
      <4>3. store'[job[u].file] = store[job[u].file]
        BY <1>1, <4>2 DEF Moves, IInv, Types, Job
      <4>. QED
        BY <4>1, <4>3
    <3>. QED
      BY <3>1, <3>2
  <2>. QED
    BY <2>1 DEF Records
<1>10. Deletes'
  <2>1. ASSUME NEW q \in loose', q.op = "delete"
        PROVE  /\ phase'[q.id] # "unused"
               /\ \A f \in File : store'[f] # q.id
               /\ \A u \in Loop : job'[u].id = q.id => q.id \in shared'
    <3>0. q.id \in Id /\ q.id # 0 /\ phase' = phase /\ shared' = shared
      BY DEF Moves, Request, Id
    <3>1. CASE q \in loose
      <4>1. /\ phase[q.id] # "unused" /\ \A f \in File : store[f] # q.id
            /\ \A u \in Loop : job[u].id = q.id => q.id \in shared
        BY <2>1, <3>1 DEF IInv, Deletes
      <4>2. \A u \in Loop : job'[u].id \in {job[u].id, 0}
        BY <1>1 DEF Moves
      <4>. QED
        BY <1>4, <3>0, <4>1, <4>2
    <3>2. CASE q \notin loose
      <4>1. q.id = job[t].id /\ j.id = 0 /\ store'[job[t].file] = 0
        BY <2>1, <3>2 DEF Moves
      <4>2. phase[q.id] # "unused"
        BY <3>0, <4>1 DEF IInv, Knows, Opened
      <4>3. \A f \in File : store'[f] # q.id
        BY <1>4, <3>0, <4>1 DEF IInv, OneFile
      <4>4. ASSUME NEW u \in Loop, job'[u].id = q.id PROVE q.id \in shared
        <5>1. u # t /\ job[u].id = q.id
          BY <1>1, <3>0, <4>1, <4>4
        <5>. QED
          BY <3>0, <4>1, <5>1 DEF IInv, OneFile
      <4>. QED
        BY <3>0, <4>2, <4>3, <4>4
    <3>. QED
      BY <3>1, <3>2
  <2>. QED
    BY <2>1 DEF Deletes
<1>11. Showing'
  <2>1. ASSUME NEW u \in Loop, job'[u].at \notin {"idle", "wait"}, ~job'[u].abort
        PROVE  Listed(u, list')
    <3>1. CASE u = t
      BY <1>1, <2>1, <3>1 DEF Moves, IInv, Showing, At
    <3>2. CASE u # t
      BY <1>1, <2>1, <3>2 DEF Moves, IInv, Showing
    <3>. QED
      BY <3>1, <3>2
  <2>. QED
    BY <2>1 DEF Showing, Listed
<1>. QED
  BY <1>2, <1>6, <1>7, <1>8, <1>9, <1>10, <1>11 DEF IInv, Moves
---------------------------------------------------------------------------
(* What the steps of a loop have in common *)

LEMMA JobFacts ==
    ASSUME IInv, NEW t \in Loop
    PROVE  /\ job[t] \in Job /\ Knows(t)
           /\ job[t].id \in Id \cup {0} /\ job[t].file \in File /\ job[t].off \in 0..Length
           /\ (~At(t, {"idle", "create"}) => job[t].id \in Id)
BY DEF IInv, Types, Job, Knows

\* A request given up is one that was sent.
LEMMA GivenUpFacts ==
    ASSUME IInv, NEW T \in SUBSET Loop, NEW more, more \subseteq Request, GivenUp(T, more)
    PROVE  /\ loose' \subseteq Request
           /\ \A q \in loose' \ loose : q.op = "delete" => q \in more
           /\ upsets' \in 0..MaxUpsets
<1>1. loose \subseteq Request /\ upsets \in 0..MaxUpsets /\ MaxUpsets \in Nat
  BY UploadAssumption DEF IInv, Types
<1>2. CASE loose' = loose \cup more /\ UNCHANGED upsets
  BY <1>1, <1>2
<1>3. CASE /\ Upset
           /\ \E t \in T : /\ At(t, {"put"})
                           /\ loose' = loose \cup more \cup
                                        {[op |-> "put", id |-> job[t].id, off |-> job[t].off]}
  <2>1. PICK t \in T : /\ At(t, {"put"})
                       /\ loose' = loose \cup more \cup
                                    {[op |-> "put", id |-> job[t].id, off |-> job[t].off]}
    BY <1>3
  <2>2. job[t].id \in Id /\ job[t].off \in 0..Length
    BY <2>1, JobFacts DEF At
  <2>. DEFINE q == [op |-> "put", id |-> job[t].id, off |-> job[t].off]
  <2>3. q \in Request /\ q.op = "put"
    BY <2>2 DEF Request
  <2>4. upsets' \in 0..MaxUpsets
    BY <1>1, <1>3 DEF Upset
  <2>. HIDE DEF q
  <2>. QED
    BY <1>1, <2>1, <2>3, <2>4 DEF q
<1>. QED
  BY <1>2, <1>3 DEF GivenUp

\* The upload goes on, in another place.
LEMMA OnMoves ==
    ASSUME IInv, NEW t \in Loop, At(t, Begun), NEW j \in Job, job' = [job EXCEPT ![t] = j],
           j.at \in {"put", "last", "backoff", "check"},
           j.id = job[t].id, j.file = job[t].file, j.twin = job[t].twin,
           j.to = job[t].to, j.aim = job[t].aim,
           j.abort => j.at = "backoff", ~j.abort => ~job[t].abort,
           j.at = "last" => phase[job[t].id] # "open" \/ offset'[job[t].id] = Length,
           loose' \subseteq Request, \A q \in loose' \ loose : q.op # "delete",
           upsets' \in 0..MaxUpsets,
           offset' \in [Id -> 0..Length], \A i \in Id : offset[i] = Length => offset'[i] = Length,
           UNCHANGED <<pageVars, phase, historyVars>>
    PROVE  Moves(t, j)
<1>1. job[t].at \in Begun /\ Knows(t) /\ list \in Seq(Entry) /\ wrong = {}
  BY JobFacts DEF At, IInv, Types
<1>2. ~At(t, {"idle"}) /\ ~At(t, {"wait"}) /\ j.id # 0 /\ j.at \notin {"idle", "create", "wait"}
      /\ j.to = j.aim
  BY <1>1 DEF Knows, At, Begun
<1>3. UNCHANGED <<conn, target, phase, lost, shared, store, list, wrong>>
  BY DEF pageVars, historyVars
<1>. QED
  BY <1>1, <1>2, <1>3 DEF Moves

\* The loop is over.
LEMMA EndMoves ==
    ASSUME IInv, NEW t \in Loop, ~At(t, {"idle"}), End(t),
           store' = store \/ store' = [store EXCEPT ![job[t].file] = 0],
           loose' \subseteq Request,
           \A q \in loose' \ loose : q.op = "delete" =>
             q.id = job[t].id /\ job[t].id # 0 /\ store'[job[t].file] = 0,
           wrong' = {}, upsets' \in 0..MaxUpsets,
           UNCHANGED <<conn, target, serverVars, lost, shared>>
    PROVE  Moves(t, NoJob)
<1>1. /\ NoJob.at = "idle" /\ NoJob.id = 0 /\ NoJob.to = NoJob.aim /\ ~NoJob.abort
      /\ NoJob \in Job
  BY NoJobType DEF NoJob
<1>2. /\ list' \in Seq(Entry)
      /\ \A u \in Loop \ {t} : Listed(u, list) => Listed(u, list')
  <2>1. list \in Seq(Entry) /\ list' = Ended(t)
    BY DEF IInv, Types, End
  <2>2. \A L : L = Ended(t) => /\ L \in Seq(Entry)
                               /\ \A u \in Loop \ {t} : Listed(u, list) => Listed(u, L)
    BY <2>1, EndedKeeps
  <2>. QED
    BY <2>1, <2>2 DEF Listed
<1>3. job' = [job EXCEPT ![t] = NoJob] /\ UNCHANGED <<conn, target, phase, offset, lost, shared>>
  BY DEF End, serverVars
<1>4. offset' \in [Id -> 0..Length] /\ \A i \in Id : offset[i] = Length => offset'[i] = Length
  BY <1>3 DEF IInv, Types
<1>. HIDE DEF NoJob
<1>. QED
  BY <1>1, <1>2, <1>3, <1>4, Zenon DEF Moves, Begun

\* What is announced is what the user wants to hear of.
LEMMA AnnounceQuiet ==
    ASSUME IInv, NEW t \in Loop, ~At(t, {"backoff"}), Announce(t),
           phase[job[t].id] = "done" \/ job[t].id \in lost
    PROVE  wrong' = {}
<1>1. Knows(t) /\ wrong = {}
  BY JobFacts DEF IInv
<1>. QED
  BY <1>1 DEF Announce, Knows, ToOf

\* What fails can go on later, unless the server has let go of it.
LEMMA FailsQuiet ==
    ASSUME IInv, NEW t \in Loop, At(t, Begun), NEW a, Fails(t, a),
           a # "404" => store' = store, a = "404" => Missing(t)
    PROVE  wrong' = {}
<1>1. Knows(t) /\ wrong = {} /\ (~job[t].twin => store[job[t].file] = job[t].id)
  BY JobFacts DEF IInv, Records
<1>2. a = "404" => job[t].id \in lost \cup shared \/ phase[job[t].id] = "done"
  BY <1>1 DEF Missing, Knows, Opened, Excused, At, Begun
<1>. QED
  BY <1>1, <1>2 DEF Fails
---------------------------------------------------------------------------
(* The steps of a loop *)

LEMMA Unchanging ==
    ASSUME IInv
    PROVE  /\ loose \subseteq Request /\ upsets \in 0..MaxUpsets /\ wrong = {}
           /\ offset \in [Id -> 0..Length] /\ store \in [File -> Id \cup {0}]
           /\ list \in Seq(Entry) /\ job \in [Loop -> Job]
BY DEF IInv, Types

\* On with the while.
LEMMA GoesOnInvariant ==
    ASSUME IInv, NEW t \in Loop, At(t, {"query", "put", "check"}),
           NEW off \in 0..Length, NEW fails \in 0..MaxRetries, GoesOn(t, off, fails),
           offset' \in [Id -> 0..Length], \A i \in Id : offset[i] = Length => offset'[i] = Length,
           UNCHANGED <<pageVars, phase, loose, upsets, historyVars>>
    PROVE  IInv'
<1>. DEFINE j == [Put(job[t], off) EXCEPT !.fails = fails]
<1>1. job[t] \in Job /\ ~job[t].abort
  BY JobFacts DEF Knows, At
<1>2. /\ j \in Job /\ j.at = "put" /\ j.id = job[t].id /\ j.file = job[t].file
      /\ j.twin = job[t].twin /\ j.to = job[t].to /\ j.aim = job[t].aim
      /\ j.abort = job[t].abort
  BY <1>1 DEF Put, Sent, Job
<1>3. job' = [job EXCEPT ![t] = j]
  BY DEF GoesOn, Put, Sent
<1>. HIDE DEF j
<1>4. At(t, Begun)
  BY DEF At, Begun
<1>5. Moves(t, j)
  BY <1>1, <1>2, <1>3, <1>4, Unchanging, OnMoves
<1>. QED
  BY <1>5, MovesInvariant

LEMMA ResumesInvariant ==
    ASSUME IInv, NEW t \in Loop, Resumes(t)
    PROVE  IInv'
<1>1. job[t].id \in Id
  BY JobFacts DEF Resumes, At
<1>2. offset[job[t].id] \in 0..Length /\ 0 \in 0..MaxRetries
  BY <1>1, Unchanging, UploadAssumption
<1>3. At(t, {"query", "put", "check"})
  BY DEF Resumes, At
<1>. QED
  BY <1>2, <1>3, Unchanging, GoesOnInvariant DEF Resumes, serverVars

LEMMA ConflictInvariant ==
    ASSUME IInv, NEW t \in Loop, Conflict(t)
    PROVE  IInv'
<1>1. job[t].id \in Id /\ job[t] \in Job
  BY JobFacts DEF Conflict, At
<1>2. offset[job[t].id] \in 0..Length /\ job[t].fails \in 0..MaxRetries
  BY <1>1, Unchanging DEF Job
<1>3. At(t, {"query", "put", "check"})
  BY DEF Conflict, At
<1>. QED
  BY <1>2, <1>3, Unchanging, GoesOnInvariant DEF Conflict, serverVars

LEMMA CheckedInvariant ==
    ASSUME IInv, NEW t \in Loop, Checked(t)
    PROVE  IInv'
<1>1. job[t].id \in Id /\ job[t] \in Job
  BY JobFacts DEF Checked, At
<1>2. /\ offset[job[t].id] \in 0..Length /\ job[t].fails \in 0..MaxRetries
      /\ job[t].off \in 0..Length
  BY <1>1, Unchanging DEF Job
<1>3. At(t, {"query", "put", "check"})
  BY DEF Checked, At
<1>. QED
  BY <1>2, <1>3, Unchanging, GoesOnInvariant DEF Checked, serverVars

LEMMA ChunkTakenInvariant ==
    ASSUME IInv, NEW t \in Loop, ChunkTaken(t)
    PROVE  IInv'
<1>. DEFINE i == job[t].id
            n == job[t].off + Chunk
<1>1. i \in Id /\ job[t] \in Job /\ job[t].off \in 0..Length /\ Knows(t) /\ At(t, Begun)
      /\ n \in Nat /\ Length \in Nat
  BY JobFacts, UploadAssumption DEF ChunkTaken, At, Begun
<1>2. /\ offset' = [offset EXCEPT ![i] = IF n < Length THEN n ELSE Length]
      /\ job[t].off = offset[i] /\ Chunk \in Nat
      /\ UNCHANGED <<pageVars, phase, loose, upsets, historyVars>>
  BY UploadAssumption DEF ChunkTaken
<1>3. /\ offset' \in [Id -> 0..Length]
      /\ \A k \in Id : offset[k] = Length => offset'[k] = Length
  BY <1>1, <1>2, Unchanging
<1>4. CASE n < Length
  <2>1. GoesOn(t, n, 0) /\ n \in 0..Length /\ 0 \in 0..MaxRetries
    BY <1>1, <1>4, UploadAssumption DEF ChunkTaken
  <2>2. At(t, {"query", "put", "check"})
    BY DEF ChunkTaken, At
  <2>. HIDE DEF n
  <2>. QED
    BY <1>2, <1>3, <2>1, <2>2, GoesOnInvariant
<1>5. CASE ~(n < Length)
  <2>. DEFINE j == [job[t] EXCEPT !.at = "last"]
  <2>1. job' = [job EXCEPT ![t] = j] /\ offset'[i] = Length
    BY <1>1, <1>2, <1>5, Unchanging DEF ChunkTaken
  <2>2. /\ j \in Job /\ j.at = "last" /\ j.id = job[t].id /\ j.file = job[t].file
        /\ j.twin = job[t].twin /\ j.to = job[t].to /\ j.aim = job[t].aim
        /\ j.abort = job[t].abort
    BY <1>1 DEF Job
  <2>3. ~j.abort
    BY <1>1, <2>2 DEF Knows, At, ChunkTaken
  <2>. HIDE DEF j
  <2>4. Moves(t, j)
    BY <1>1, <1>2, <1>3, <2>1, <2>2, <2>3, Unchanging, OnMoves
  <2>. QED
    BY <2>4, MovesInvariant
<1>. QED
  BY <1>4, <1>5

LEMMA WakesUpInvariant ==
    ASSUME IInv, NEW t \in Loop, WakesUp(t)
    PROVE  IInv'
<1>. DEFINE j == Sent(job[t], "check", job[t].id)
<1>1. job[t] \in Job /\ ~job[t].abort /\ At(t, Begun)
  BY JobFacts DEF WakesUp, At, Begun
<1>2. /\ j \in Job /\ j.at = "check" /\ j.id = job[t].id /\ j.file = job[t].file
      /\ j.twin = job[t].twin /\ j.to = job[t].to /\ j.aim = job[t].aim
      /\ j.abort = job[t].abort
  BY <1>1 DEF Sent, Job
<1>3. job' = [job EXCEPT ![t] = j]
  BY DEF WakesUp
<1>. HIDE DEF j
<1>4. Moves(t, j)
  BY <1>1, <1>2, <1>3, Unchanging, OnMoves DEF WakesUp, serverVars
<1>. QED
  BY <1>4, MovesInvariant

LEMMA StartsOverInvariant ==
    ASSUME IInv, NEW t \in Loop, StartsOver(t)
    PROVE  IInv'
<1>. DEFINE j == Sent(job[t], "create", 0)
<1>1. job[t] \in Job /\ Knows(t) /\ job[t].at = "query"
  BY JobFacts DEF StartsOver, At
<1>2. /\ j \in Job /\ j.at = "create" /\ j.id = 0 /\ j.file = job[t].file
      /\ j.twin = job[t].twin /\ j.to = job[t].to /\ j.aim = job[t].aim
      /\ j.abort = job[t].abort
  BY <1>1 DEF Sent, Job
<1>3. job' = [job EXCEPT ![t] = j] /\ store' = [store EXCEPT ![job[t].file] = 0]
      /\ UNCHANGED <<conn, target, list, phase, offset, loose, upsets, wrong, lost, shared>>
  BY DEF StartsOver, Forget, serverVars, historyVars
<1>. HIDE DEF j
<1>4. Moves(t, j)
  BY <1>1, <1>2, <1>3, Unchanging DEF Moves, Knows, At, Begun
<1>. QED
  BY <1>4, MovesInvariant

LEMMA NotOpenedInvariant ==
    ASSUME IInv, NEW t \in Loop, NotOpened(t)
    PROVE  IInv'
<1>1. ~At(t, {"idle"}) /\ End(t)
      /\ UNCHANGED <<store, conn, target, serverVars, loose, upsets, wrong, lost, shared>>
  BY DEF NotOpened, At, historyVars
<1>2. Moves(t, NoJob)
  BY <1>1, Unchanging, EndMoves
<1>. QED
  BY <1>2, MovesInvariant

LEMMA FileIsThereInvariant ==
    ASSUME IInv, NEW t \in Loop, FileIsThere(t)
    PROVE  IInv'
<1>1. /\ job[t] \in Job /\ Knows(t) /\ job[t].id \in Id /\ ~At(t, {"idle"})
      /\ ~At(t, {"wait"}) /\ ~At(t, {"backoff"}) /\ phase[job[t].id] = "done"
  BY JobFacts DEF FileIsThere, At
<1>2. store' = [store EXCEPT ![job[t].file] = 0]
      /\ UNCHANGED <<conn, target, serverVars, loose, upsets, lost, shared>>
  BY DEF FileIsThere, Uploaded, Forget
<1>3. CASE CanSend
  <2>1. Announce(t)
    BY <1>3 DEF FileIsThere, Uploaded
  <2>2. wrong' = {} /\ End(t)
    BY <1>1, <2>1, AnnounceQuiet DEF Announce
  <2>3. Moves(t, NoJob)
    BY <1>1, <1>2, <2>2, Unchanging, EndMoves
  <2>. QED
    BY <2>3, MovesInvariant
<1>4. CASE ~CanSend
  <2>. DEFINE j == [job[t] EXCEPT !.at = "wait", !.early = FALSE, !.fails = 0, !.off = 0]
  <2>1. /\ job' = [job EXCEPT ![t].at = "wait", ![t].early = FALSE, ![t].fails = 0, ![t].off = 0]
        /\ UNCHANGED <<list, wrong>>
    BY <1>4 DEF FileIsThere, Uploaded
  <2>2. job' = [job EXCEPT ![t] = j]
    BY <1>1, <2>1, Unchanging
  <2>3. /\ j \in Job /\ j.at = "wait" /\ j.id = job[t].id /\ j.file = job[t].file
        /\ j.twin = job[t].twin /\ j.to = job[t].to /\ j.aim = job[t].aim
        /\ j.abort = job[t].abort
    <3>1. 0 \in 0..MaxRetries /\ 0 \in 0..Length
      BY UploadAssumption
    <3>. QED
      BY <1>1, <3>1 DEF Job
  <2>. HIDE DEF j
  <2>4. job[t].id # 0 /\ ~job[t].abort /\ UNCHANGED <<phase, offset>>
    BY <1>1, <1>2 DEF Knows, Id, serverVars
  <2>5. Moves(t, j)
    BY <1>1, <1>2, <2>1, <2>2, <2>3, <2>4, Unchanging DEF Moves, Knows, Begun
  <2>. QED
    BY <2>5, MovesInvariant
<1>. QED
  BY <1>3, <1>4

LEMMA ChunkFailedInvariant ==
    ASSUME IInv, NEW t \in Loop, ChunkFailed(t)
    PROVE  IInv'
<1>1. /\ job[t] \in Job /\ Knows(t) /\ job[t].id \in Id /\ ~At(t, {"idle"})
      /\ ~At(t, {"backoff"}) /\ At(t, Begun)
  BY JobFacts DEF ChunkFailed, At, Begun
<1>2. UNCHANGED <<store, conn, target, serverVars, lost, shared>>
  BY DEF ChunkFailed
<1>3. /\ loose' \subseteq Request /\ \A q \in loose' \ loose : q.op # "delete"
      /\ upsets' \in 0..MaxUpsets
  <2>1. GivenUp({t}, {}) /\ {t} \in SUBSET Loop /\ {} \subseteq Request
    BY DEF ChunkFailed
  <2>. QED
    BY <2>1, GivenUpFacts
<1>4. CASE Exhausted(OneMore(job[t].fails))
  <2>1. Fails(t, "none") /\ End(t)
    BY <1>4 DEF ChunkFailed, Fails
  <2>2. wrong' = {}
    BY <1>1, <1>2, <2>1, FailsQuiet
  <2>3. Moves(t, NoJob)
    BY <1>1, <1>2, <1>3, <2>1, <2>2, EndMoves
  <2>. QED
    BY <2>3, MovesInvariant
<1>5. CASE ~Exhausted(OneMore(job[t].fails))
  <2>. DEFINE j == [job[t] EXCEPT !.at = "backoff", !.early = FALSE, !.fails = OneMore(@)]
  <2>1. /\ job' = [job EXCEPT ![t].at = "backoff", ![t].early = FALSE, ![t].fails = OneMore(@)]
        /\ UNCHANGED <<list, wrong>>
    BY <1>5 DEF ChunkFailed
  <2>2. job' = [job EXCEPT ![t] = j]
    BY <1>1, <2>1, Unchanging
  <2>3. OneMore(job[t].fails) \in 0..MaxRetries
    BY <1>1, <1>5, UploadAssumption DEF Job, OneMore, Exhausted
  <2>4. /\ j \in Job /\ j.at = "backoff" /\ j.id = job[t].id /\ j.file = job[t].file
        /\ j.twin = job[t].twin /\ j.to = job[t].to /\ j.aim = job[t].aim
        /\ j.abort = job[t].abort
    BY <1>1, <2>3 DEF Job
  <2>. HIDE DEF j
  <2>5. Moves(t, j)
    <3>1. UNCHANGED <<pageVars, phase, historyVars, offset>>
      BY <1>2, <2>1 DEF pageVars, serverVars, historyVars
    <3>2. ~job[t].abort
      BY <1>1 DEF Knows
    <3>3. offset' \in [Id -> 0..Length] /\ \A i \in Id : offset[i] = Length => offset'[i] = Length
      BY <3>1, Unchanging
    <3>. HIDE DEF pageVars, historyVars
    <3>. QED
      BY <1>1, <1>3, <2>2, <2>4, <3>1, <3>2, <3>3, OnMoves
  <2>. QED
    BY <2>5, MovesInvariant
<1>. QED
  BY <1>4, <1>5

LEMMA ThrowsInvariant ==
    ASSUME IInv, NEW t \in Loop, NEW a \in {"401", "404", "5xx"}, Throws(t, a)
    PROVE  IInv'
<1>1. /\ At(t, Begun) /\ ~At(t, {"idle"}) /\ Fails(t, a) /\ End(t)
      /\ a = "404" => Missing(t)
      /\ UNCHANGED <<conn, target, serverVars, loose, upsets, lost, shared>>
  BY DEF Throws, At, Begun, Fails
<1>2. /\ store' = store \/ store' = [store EXCEPT ![job[t].file] = 0]
      /\ a # "404" => store' = store
  BY DEF Throws, KeepsRecord, Retryable, Forget
<1>3. wrong' = {}
  BY <1>1, <1>2, FailsQuiet
<1>4. Moves(t, NoJob)
  BY <1>1, <1>2, <1>3, Unchanging, EndMoves
<1>. QED
  BY <1>4, MovesInvariant
LEMMA CancelInvariant ==
    ASSUME IInv, NEW t \in Loop, At(t, Begun), CancelUpload(t),
           UNCHANGED <<conn, target, serverVars, historyVars>>
    PROVE  IInv'
<1>1. job[t] \in Job /\ job[t].id \in Id /\ job[t].id # 0 /\ ~At(t, {"idle"})
  BY JobFacts DEF At, Begun, Id
<1>. DEFINE d == Delete(job[t].id)
<1>2. d \in Request /\ d.id = job[t].id
  BY <1>1, UploadAssumption DEF Delete, Request
<1>3. GivenUp({t}, {d}) /\ End(t)
  BY DEF CancelUpload
<1>. HIDE DEF d
<1>4. /\ loose' \subseteq Request /\ upsets' \in 0..MaxUpsets
      /\ \A q \in loose' \ loose : q.op = "delete" => q = d
  <2>1. {t} \in SUBSET Loop /\ {d} \subseteq Request
    BY <1>2
  <2>. QED
    BY <1>3, <2>1, GivenUpFacts
<1>5. store' = [store EXCEPT ![job[t].file] = 0] /\ store'[job[t].file] = 0
  BY <1>1, Unchanging DEF CancelUpload, CancelForgets, Job
<1>6. Moves(t, NoJob)
  BY <1>1, <1>2, <1>3, <1>4, <1>5, Unchanging, EndMoves DEF historyVars
<1>. QED
  BY <1>6, MovesInvariant

LEMMA WakesCanceledInvariant ==
    ASSUME IInv, NEW t \in Loop, WakesCanceled(t)
    PROVE  IInv'
<1>1. At(t, Begun)
  BY DEF WakesCanceled, At, Begun
<1>. QED
  BY <1>1, CancelInvariant DEF WakesCanceled

LEMMA UserCancelsInvariant ==
    ASSUME IInv, NEW t \in Loop, UserCancels(t)
    PROVE  IInv'
<1>0. UNCHANGED <<conn, target, serverVars, historyVars>>
  BY DEF UserCancels
<1>1. CASE At(t, {"put", "last", "check"}) /\ CancelUpload(t)
  <2>1. At(t, Begun)
    BY <1>1 DEF At, Begun
  <2>. QED
    BY <1>0, <1>1, <2>1, CancelInvariant
<1>2. CASE At(t, {"query", "create"}) /\ End(t) /\ UNCHANGED <<store, loose, upsets>>
  <2>1. ~At(t, {"idle"})
    BY <1>2 DEF At
  <2>2. Moves(t, NoJob)
    BY <1>0, <1>2, <2>1, Unchanging, EndMoves DEF historyVars
  <2>. QED
    BY <2>2, MovesInvariant
<1>3. CASE /\ At(t, {"backoff"}) /\ ~job[t].abort
           /\ job' = [job EXCEPT ![t].abort = TRUE] /\ UNCHANGED <<store, list, loose, upsets>>
  <2>. DEFINE j == [job[t] EXCEPT !.abort = TRUE]
  <2>1. job[t] \in Job /\ At(t, Begun) /\ job[t].at = "backoff"
    BY <1>3, JobFacts DEF At, Begun
  <2>2. /\ j \in Job /\ j.at = "backoff" /\ j.id = job[t].id /\ j.file = job[t].file
        /\ j.twin = job[t].twin /\ j.to = job[t].to /\ j.aim = job[t].aim
    BY <2>1 DEF Job
  <2>3. j.abort
    BY <2>1 DEF Job
  <2>4. job' = [job EXCEPT ![t] = j]
    BY <1>3, Unchanging
  <2>. HIDE DEF j
  <2>5. Moves(t, j)
    BY <1>0, <1>3, <2>1, <2>2, <2>3, <2>4, Unchanging, OnMoves
        DEF pageVars, serverVars, historyVars
  <2>. QED
    BY <2>5, MovesInvariant
<1>. QED
  BY <1>1, <1>2, <1>3 DEF UserCancels

LEMMA WaitEndsInvariant ==
    ASSUME IInv, NEW t \in Loop, WaitEnds(t)
    PROVE  IInv'
<1>1. /\ Knows(t) /\ ~At(t, {"idle"}) /\ ~At(t, {"backoff"})
      /\ UNCHANGED <<store, conn, target, serverVars, loose, upsets, lost, shared>>
  BY JobFacts DEF WaitEnds, At
<1>2. phase[job[t].id] = "done" \/ job[t].id \in lost
  BY <1>1 DEF Knows, WaitEnds
<1>3. End(t) /\ wrong' = {}
  BY <1>1, <1>2, Unchanging, AnnounceQuiet DEF WaitEnds, Announce
<1>4. Moves(t, NoJob)
  BY <1>1, <1>3, Unchanging, EndMoves
<1>. QED
  BY <1>4, MovesInvariant

\* The upload is opened, and the record names it.
LEMMA CreatedInvariant ==
    ASSUME IInv, NEW t \in Loop, Created(t)
    PROVE  IInv'
<1>1. PICK i \in Id :
         /\ phase[i] = "unused"
         /\ phase' = [phase EXCEPT ![i] = "open"]
         /\ job' = [job EXCEPT ![t] = [@ EXCEPT !.at = "put", !.id = i, !.early = TRUE]]
         /\ store' = [store EXCEPT ![job[t].file] = i]
  BY DEF Created, Stored
<1>. DEFINE j == [job[t] EXCEPT !.at = "put", !.id = i, !.early = TRUE]
<1>2. /\ job[t] \in Job /\ Knows(t) /\ At(t, {"create"}) /\ job[t].file \in File
      /\ i # 0 /\ UNCHANGED <<conn, target, list, offset, loose, upsets, wrong, lost, shared>>
  BY JobFacts DEF Created, historyVars, Id
<1>3. /\ j \in Job /\ j.at = "put" /\ j.id = i /\ j.file = job[t].file
      /\ j.twin = job[t].twin /\ j.to = job[t].to /\ j.aim = job[t].aim
      /\ j.abort = job[t].abort
  BY <1>2 DEF Job
<1>4. job' = [job EXCEPT ![t] = j]
  BY <1>1
<1>. HIDE DEF j
<1>5. job'[t] = j /\ \A u \in Loop \ {t} : job'[u] = job[u]
  BY <1>4, Unchanging
<1>6. /\ store'[job[t].file] = i
      /\ \A f \in File \ {job[t].file} : store'[f] = store[f]
  BY <1>1, <1>2, Unchanging
<1>7. /\ \A k : Opened(k) /\ k \in Id => k # i /\ phase'[k] = phase[k]
      /\ phase \in [Id -> {"unused", "open", "done", "gone"}]
      /\ phase'[i] = "open" /\ \A k \in Id \ {i} : phase'[k] = phase[k]
  BY <1>1 DEF Opened, IInv, Types
<1>8. /\ \A u \in Loop : job[u].id # i
      /\ \A f \in File : store[f] # i
      /\ \A q \in loose : q.op = "delete" => q.id # i /\ q.id \in Id
  <2>1. \A u \in Loop : job[u].id # i
    BY <1>2, <1>7, JobFacts DEF Knows
  <2>2. \A f \in File : store[f] # i
    BY <1>2, <1>7 DEF IInv, OneFile
  <2>3. \A q \in loose : q.op = "delete" => q.id # i /\ q.id \in Id
    BY <1>1, Unchanging DEF IInv, Deletes, Request
  <2>. QED
    BY <2>1, <2>2, <2>3
<1>9. Types'
  BY <1>1, <1>2, <1>3, <1>4 DEF IInv, Types
<1>10. ASSUME NEW u \in Loop PROVE Knows(u)'
  <2>1. CASE u = t
    BY <1>2, <1>3, <1>5, <1>7, <2>1 DEF Knows, At, Opened
  <2>2. CASE u # t
    <3>1. Knows(u) /\ job'[u] = job[u] /\ job[u].id \in Id \cup {0}
      BY <1>5, <2>2, JobFacts
    <3>2. job[u].id # 0 => phase'[job[u].id] = phase[job[u].id]
      BY <1>7, <1>8, <3>1
    <3>3. At(u, {"wait", "last"}) => job[u].id # 0
      BY <3>1 DEF Knows, At
    <3>. QED
      BY <1>2, <3>1, <3>2, <3>3 DEF Knows, At, Opened, Excused
  <2>. QED
    BY <2>1, <2>2
<1>11. OneFile'
  <2>0. OneFile /\ \A f \in File : store[f] \in Id \cup {0}
    BY Unchanging DEF IInv
  <2>1. ASSUME NEW f \in File, store'[f] # 0 PROVE Opened(store[f])'
    <3>1. CASE f = job[t].file
      BY <1>6, <1>7, <3>1 DEF Opened
    <3>2. CASE f # job[t].file
      <4>1. store'[f] = store[f] /\ Opened(store[f]) /\ store[f] \in Id
        BY <1>6, <2>0, <2>1, <3>2 DEF OneFile
      <4>. QED
        BY <1>2, <1>7, <4>1 DEF Opened, Excused
    <3>. QED
      BY <3>1, <3>2
  <2>2. \A f, g \in File : store'[f] # 0 /\ store'[f] = store'[g] => f = g
    BY <1>6, <1>8, <2>0 DEF OneFile
  <2>3. \A u \in Loop, f \in File : job'[u].id # 0 /\ store'[f] = job'[u].id => f = job'[u].file
    BY <1>3, <1>5, <1>6, <1>8, <2>0 DEF OneFile
  <2>4. \A v, u \in Loop : v # u /\ job'[v].id # 0 /\ job'[v].id = job'[u].id =>
          job'[v].file = job'[u].file /\ job'[v].id \in shared'
    BY <1>2, <1>3, <1>5, <1>8, <2>0 DEF OneFile
  <2>. QED
    BY <2>1, <2>2, <2>3, <2>4 DEF OneFile
<1>12. Twins'
  <2>1. \A u \in Loop : job'[u].file = job[u].file /\ job'[u].twin = job[u].twin
                        /\ (job'[u].at = "idle" <=> job[u].at = "idle")
    BY <1>2, <1>3, <1>5 DEF At
  <2>. QED
    BY <2>1 DEF IInv, Twins, At
<1>13. Records'
  <2>1. ASSUME NEW u \in Loop, At(u, Begun)', ~job'[u].twin
        PROVE  store'[job'[u].file] = job'[u].id
    <3>1. CASE u = t
      BY <1>3, <1>5, <1>6, <3>1
    <3>2. CASE u # t
      <4>1. At(u, Begun) /\ ~job[u].twin /\ store[job[u].file] = job[u].id /\ job'[u] = job[u]
        BY <1>5, <2>1, <3>2 DEF At, IInv, Records
      <4>2. job[u].file # job[t].file
        BY <1>2, <3>2, <4>1 DEF IInv, Twins, At, Begun
      <4>. QED
        BY <1>6, <4>1, <4>2, JobFacts
    <3>. QED
      BY <3>1, <3>2
  <2>. QED
    BY <2>1 DEF Records
<1>14. Deletes'
  <2>1. ASSUME NEW q \in loose, q.op = "delete"
        PROVE  /\ phase'[q.id] # "unused"
               /\ \A f \in File : store'[f] # q.id
               /\ \A u \in Loop : job'[u].id = q.id => q.id \in shared'
    BY <1>2, <1>3, <1>5, <1>6, <1>7, <1>8, <2>1 DEF IInv, Deletes
  <2>. QED
    BY <1>2, <2>1 DEF Deletes
<1>15. Showing'
  BY <1>2, <1>3, <1>5 DEF IInv, Showing, Listed, At
<1>. QED
  BY <1>2, <1>9, <1>10, <1>11, <1>12, <1>13, <1>14, <1>15 DEF IInv
\* The loop begins with what the record says.
LEMMA StartsInvariant ==
    ASSUME IInv, NEW t \in Loop, NEW f \in File, Starts(t, f)
    PROVE  IInv'
<1>. DEFINE same == {u \in Loop : job[u].at # "idle" /\ job[u].file = f}
            at == IF store[f] # 0 THEN "query" ELSE "create"
            begun == Sent([NoJob EXCEPT !.file = f, !.to = target,
                                        !.aim = target, !.twin = same # {}],
                          at, store[f])
<1>1. /\ job[t].at = "idle"
      /\ job' = [u \in Loop |-> IF u = t THEN begun
                                ELSE [job[u] EXCEPT !.twin = @ \/ u \in same]]
      /\ list' = Added(t)
      /\ UNCHANGED <<store, conn, target, serverVars, loose, upsets, wrong, lost>>
      /\ shared' = shared \cup {i \in {store[f]} \ {0} :
                                  \E u \in Loop : job[u].at # "idle" /\ job[u].id = i}
  BY DEF Starts, Saved, CurrentRecipients, CreateUploadCard, At
<1>2. store[f] \in Id \cup {0} /\ target \in Target /\ ~NoJob.abort /\ NoJob \in Job
  BY NoJobType DEF IInv, Types, NoJob
<1>3. /\ begun \in Job /\ begun.at = at /\ begun.id = store[f] /\ begun.file = f
      /\ begun.to = begun.aim /\ ~begun.abort /\ begun.twin = (same # {})
  BY <1>2 DEF Sent, Job
<1>. HIDE DEF begun
<1>4. /\ job'[t] = begun
      /\ \A u \in Loop \ {t} : job'[u] = [job[u] EXCEPT !.twin = @ \/ u \in same]
  BY <1>1
<1>5. ASSUME NEW u \in Loop \ {t}
      PROVE  /\ job'[u] \in Job
             /\ job'[u].at = job[u].at /\ job'[u].id = job[u].id /\ job'[u].file = job[u].file
             /\ job'[u].to = job[u].to /\ job'[u].aim = job[u].aim
             /\ job'[u].abort = job[u].abort
             /\ job'[u].twin = (job[u].twin \/ u \in same)
  <2>. DEFINE b == job[u].twin \/ u \in same
  <2>1. job'[u] = [job[u] EXCEPT !.twin = b] /\ job[u] \in Job /\ b \in BOOLEAN
    BY <1>4, JobFacts
  <2>2. b = (job[u].twin \/ u \in same)
    OBVIOUS
  <2>. HIDE DEF b
  <2>3. /\ job'[u] \in Job
        /\ job'[u].at = job[u].at /\ job'[u].id = job[u].id /\ job'[u].file = job[u].file
        /\ job'[u].to = job[u].to /\ job'[u].aim = job[u].aim
        /\ job'[u].abort = job[u].abort
        /\ job'[u].twin = b
    BY <2>1 DEF Job
  <2>. QED
    BY <2>2, <2>3
<1>6. Added(t) \in Seq(Entry) /\ \A u \in Loop : Listed(u, list) \/ u = t => Listed(u, Added(t))
  BY Unchanging, AddedKeeps DEF Entry
<1>7. shared' \subseteq Id /\ shared \subseteq shared'
  BY <1>1, <1>2 DEF IInv, Types
<1>8. UNCHANGED <<phase, offset, lost, loose, store>>
  BY <1>1 DEF serverVars
<1>. HIDE DEF same
<1>9. Types'
  <2>1. job' \in [Loop -> Job]
    BY <1>1, <1>3, <1>4, <1>5
  <2>. QED
    BY <1>1, <1>6, <1>7, <1>8, <2>1 DEF IInv, Types
<1>10. \A k : Opened(k) => Opened(k)'
  BY <1>7, <1>8 DEF Opened, Excused
<1>11. store[f] # 0 => Opened(store[f])
  BY DEF IInv, OneFile
<1>12. ASSUME NEW u \in Loop PROVE Knows(u)'
  <2>1. CASE u = t
    <3>1. job'[u] = begun /\ begun.id = store[f] /\ (begun.id # 0 => Opened(store[f])')
      BY <1>3, <1>4, <1>8, <1>10, <1>11, <2>1
    <3>2. (job[u].id # 0 => Opened(job[u].id))'
      BY <1>8, <3>1 DEF Opened, Excused
    <3>. QED
      BY <1>3, <3>1, <3>2 DEF Knows, At
  <2>2. CASE u # t
    <3>1. Knows(u)
      BY DEF IInv
    <3>. QED
      BY <1>5, <1>7, <1>8, <2>2, <3>1 DEF Knows, At, Opened, Excused
  <2>. QED
    BY <2>1, <2>2
<1>13. OneFile'
  <2>0. OneFile
    BY DEF IInv
  <2>1. \A g \in File : store[g] # 0 => Opened(store[g])'
    BY <1>7, <1>8, <2>0 DEF OneFile, Opened, Excused
  <2>2. \A u \in Loop, g \in File : job'[u].id # 0 /\ store[g] = job'[u].id => g = job'[u].file
    BY <1>3, <1>4, <1>5, <2>0 DEF OneFile
  <2>3. ASSUME NEW v \in Loop, NEW u \in Loop, v # u, job'[v].id # 0, job'[v].id = job'[u].id
        PROVE  job'[v].file = job'[u].file /\ job'[v].id \in shared'
    <3>1. ASSUME NEW w \in Loop \ {t}, job[w].id = store[f], store[f] # 0
          PROVE  job[w].file = f /\ store[f] \in shared'
      <4>1. job[w].at # "idle"
        BY <3>1, JobFacts DEF Knows, At
      <4>2. f = job[w].file
        BY <2>0, <3>1 DEF OneFile
      <4>. QED
        BY <1>1, <3>1, <4>1, <4>2
    <3>2. CASE v = t
      BY <1>3, <1>4, <1>5, <2>3, <3>1, <3>2
    <3>3. CASE u = t
      BY <1>3, <1>4, <1>5, <2>3, <3>1, <3>3
    <3>4. CASE v # t /\ u # t
      BY <1>5, <1>7, <2>0, <2>3, <3>4 DEF OneFile
    <3>. QED
      BY <3>2, <3>3, <3>4
  <2>. QED
    BY <1>8, <2>0, <2>1, <2>2, <2>3 DEF OneFile
<1>14. Twins'
  <2>1. ASSUME NEW v \in Loop, NEW u \in Loop, v # u, ~At(v, {"idle"})', ~At(u, {"idle"})',
               job'[v].file = job'[u].file
        PROVE  job'[v].twin
    <3>1. CASE v = t
      <4>1. u \in same
        BY <1>3, <1>4, <1>5, <2>1, <3>1 DEF At, same
      <4>. QED
        BY <1>3, <1>4, <3>1, <4>1
    <3>2. CASE u = t
      <4>1. v \in same
        BY <1>3, <1>4, <1>5, <2>1, <3>2 DEF At, same
      <4>. QED
        BY <1>5, <2>1, <3>2, <4>1
    <3>3. CASE v # t /\ u # t
      BY <1>5, <2>1, <3>3 DEF IInv, Twins, At
    <3>. QED
      BY <3>1, <3>2, <3>3
  <2>. QED
    BY <2>1 DEF Twins
<1>15. Records'
  <2>1. ASSUME NEW u \in Loop, At(u, Begun)', ~job'[u].twin
        PROVE  store'[job'[u].file] = job'[u].id
    <3>1. CASE u = t
      BY <1>3, <1>4, <1>8, <3>1
    <3>2. CASE u # t
      BY <1>5, <1>8, <2>1, <3>2 DEF At, IInv, Records
    <3>. QED
      BY <3>1, <3>2
  <2>. QED
    BY <2>1 DEF Records
<1>16. Deletes'
  <2>1. ASSUME NEW q \in loose, q.op = "delete"
        PROVE  /\ phase[q.id] # "unused"
               /\ \A g \in File : store[g] # q.id
               /\ \A u \in Loop : job'[u].id = q.id => q.id \in shared'
    BY <1>3, <1>4, <1>5, <1>7, <2>1 DEF IInv, Deletes
  <2>. QED
    BY <1>8, <2>1 DEF Deletes
<1>17. Showing'
  <2>1. \A u \in Loop : job'[u].at \notin {"idle", "wait"} /\ ~job'[u].abort => Listed(u, list')
    BY <1>1, <1>4, <1>5, <1>6 DEF IInv, Showing
  <2>. QED
    BY <2>1 DEF Showing, Listed
<1>. QED
  BY <1>1, <1>9, <1>12, <1>13, <1>14, <1>15, <1>16, <1>17 DEF IInv
---------------------------------------------------------------------------
(* The steps of the server *)

\* The page is as it was; what the server has let go is gone by itself or of no use.
LEMMA ServerInvariant ==
    ASSUME IInv, Types', UNCHANGED <<job, store, list, wrong, shared>>,
           loose' \subseteq loose, lost \subseteq lost',
           \A i \in Id : phase[i] # "unused" => phase'[i] # "unused",
           \A i \in Id : phase[i] = "done" => phase'[i] = "done" \/ i \in lost',
           \A i \in Id : phase'[i] = "gone" /\ phase[i] # "gone" =>
              \/ i \in lost' \cup shared
              \/ (\A f \in File : store[f] # i) /\ (\A t \in Loop : job[t].id # i),
           \A i \in Id : phase[i] # "open" \/ offset[i] = Length =>
                         phase'[i] # "open" \/ offset'[i] = Length
    PROVE  IInv'
<1>1. ASSUME NEW i \in Id, Opened(i),
             (\E f \in File : store[f] = i) \/ (\E t \in Loop : job[t].id = i)
      PROVE  phase'[i] # "unused" /\ (phase'[i] = "gone" => i \in lost' \cup shared')
  BY <1>1 DEF Opened, Excused
<1>2. ASSUME NEW t \in Loop PROVE Knows(t)'
  <2>1. Knows(t) /\ job[t].id \in Id \cup {0}
    BY JobFacts
  <2>2. job[t].id # 0 => phase'[job[t].id] # "unused"
                         /\ (phase'[job[t].id] = "gone" => job[t].id \in lost' \cup shared')
    BY <1>1, <2>1 DEF Knows
  <2>3. At(t, {"wait", "last"}) => job[t].id \in Id
    BY <2>1 DEF Knows, At
  <2>4. At(t, {"wait"}) => phase'[job[t].id] = "done" \/ job[t].id \in lost'
    BY <2>1, <2>3 DEF Knows, At
  <2>5. At(t, {"last"}) => phase'[job[t].id] # "open" \/ offset'[job[t].id] = Length
    BY <2>1, <2>3 DEF Knows, At
  <2>. QED
    BY <2>1, <2>2, <2>4, <2>5 DEF Knows, At, Opened, Excused
<1>3. OneFile'
  <2>1. ASSUME NEW f \in File, store[f] # 0 PROVE Opened(store[f])'
    <3>1. store[f] \in Id /\ Opened(store[f])
      BY <2>1, Unchanging DEF IInv, OneFile
    <3>. QED
      BY <1>1, <3>1 DEF Opened, Excused
  <2>. QED
    BY <2>1 DEF IInv, OneFile
<1>4. Deletes'
  <2>1. \A q \in loose : q.id \in Id
    BY Unchanging DEF Request
  <2>. QED
    BY <2>1 DEF IInv, Deletes
<1>5. Twins' /\ Records' /\ Showing' /\ wrong' = {}
  BY DEF IInv, Twins, Records, Showing, Listed, At
<1>. QED
  BY <1>2, <1>3, <1>4, <1>5 DEF IInv

LEMMA CompleteInvariant ==
    ASSUME IInv, NEW i \in Id, Complete(i)
    PROVE  IInv'
<1>1. /\ phase[i] = "open" /\ phase' = [phase EXCEPT ![i] = "done"]
      /\ UNCHANGED <<job, store, conn, target, list, offset, loose, upsets, wrong, lost, shared>>
  BY DEF Complete, Finishing, pageVars, historyVars
<1>2. phase \in [Id -> {"unused", "open", "done", "gone"}]
  BY DEF IInv, Types
<1>3. Types'
  BY <1>1 DEF IInv, Types
<1>. QED
  BY <1>1, <1>2, <1>3, ServerInvariant

LEMMA LooseArrivesInvariant ==
    ASSUME IInv, NEW q \in loose, LooseArrives(q)
    PROVE  IInv'
<1>1. /\ q \in Request /\ q.id \in Id /\ loose' \subseteq loose
      /\ UNCHANGED <<job, store, conn, target, list, upsets, wrong, lost, shared>>
      /\ phase \in [Id -> {"unused", "open", "done", "gone"}] /\ offset \in [Id -> 0..Length]
  BY DEF LooseArrives, pageVars, historyVars, IInv, Types, Request
<1>2. CASE /\ q.op = "delete" /\ IsOpen(q.id)
           /\ phase' = [phase EXCEPT ![q.id] = "gone"]
           /\ offset' = [offset EXCEPT ![q.id] = 0]
  <2>1. /\ \A f \in File : store[f] # q.id
        /\ q.id \in shared \/ \A t \in Loop : job[t].id # q.id
    BY <1>2 DEF IInv, Deletes
  <2>2. phase[q.id] = "open" /\ 0 \in 0..Length
    BY <1>2, UploadAssumption DEF IsOpen
  <2>3. Types'
    BY <1>1, <1>2, <2>2 DEF IInv, Types
  <2>. QED
    BY <1>1, <1>2, <2>1, <2>2, <2>3, ServerInvariant
<1>3. CASE q.op = "delete" /\ ~IsOpen(q.id) /\ UNCHANGED serverVars
  <2>1. UNCHANGED <<phase, offset>>
    BY <1>3 DEF serverVars
  <2>2. Types'
    BY <1>1, <2>1 DEF IInv, Types
  <2>. QED
    BY <1>1, <2>1, <2>2, ServerInvariant
<1>4. CASE /\ q.op = "put" /\ UNCHANGED phase
           /\ \E n \in Taken(q.id, q.off) : offset' = [offset EXCEPT ![q.id] = n]
  <2>1. PICK n \in Taken(q.id, q.off) : offset' = [offset EXCEPT ![q.id] = n]
    BY <1>4
  <2>2. n \in 0..Length /\ (offset[q.id] = Length => n = Length \/ (~IsOpen(q.id) /\ n = offset[q.id]))
    <3>1. q.off \in 0..Length /\ offset[q.id] \in 0..Length
      BY <1>1 DEF Request
    <3>2. CASE ~IsOpen(q.id) \/ q.off # offset[q.id]
      BY <3>1, <3>2 DEF Taken
    <3>3. CASE ~(~IsOpen(q.id) \/ q.off # offset[q.id])
      <4>1. n \in q.off..(IF q.off + Chunk < Length THEN q.off + Chunk ELSE Length)
        BY <3>3 DEF Taken
      <4>2. Chunk \in Nat /\ Length \in Nat
        BY UploadAssumption
      <4>. QED
        BY <3>1, <3>3, <4>1, <4>2
    <3>. QED
      BY <3>2, <3>3
  <2>3. Types'
    BY <1>1, <1>4, <2>1, <2>2 DEF IInv, Types
  <2>4. \A i \in Id : offset[i] = Length => offset'[i] = Length
    BY <1>1, <2>1, <2>2
  <2>. QED
    BY <1>1, <1>4, <2>3, <2>4, ServerInvariant
<1>. QED
  BY <1>2, <1>3, <1>4 DEF LooseArrives

LEMMA DropInvariant ==
    ASSUME IInv, NEW S1 \in SUBSET Id, Drop(S1), \A i \in S1 : phase[i] # "unused",
           upsets' \in 0..MaxUpsets, loose' \subseteq loose, conn' \in {"out", "off", "on"},
           UNCHANGED <<job, store, target, list, wrong, shared>>
    PROVE  IInv'
<1>1. /\ phase' = [i \in Id |-> IF i \in S1 THEN "gone" ELSE phase[i]]
      /\ offset' = [i \in Id |-> IF i \in S1 THEN 0 ELSE offset[i]]
      /\ lost' = lost \cup S1 /\ 0 \in 0..Length
  BY UploadAssumption DEF Drop
<1>2. Types'
  BY <1>1 DEF IInv, Types
<1>. QED
  BY <1>1, <1>2, ServerInvariant

LEMMA UpsetType == IInv /\ Upset => upsets' \in 0..MaxUpsets
BY UploadAssumption DEF IInv, Types, Upset

LEMMA RestartsInvariant ==
    ASSUME IInv, Restarts
    PROVE  IInv'
<1>. DEFINE S1 == {i \in Id : phase[i] # "unused"}
<1>1. S1 \in SUBSET Id /\ Drop(S1) /\ \A i \in S1 : phase[i] # "unused"
  BY DEF Restarts
<1>2. /\ upsets' \in 0..MaxUpsets /\ loose' \subseteq loose /\ conn' \in {"out", "off", "on"}
      /\ UNCHANGED <<job, store, target, list, wrong, shared>>
  BY UpsetType DEF Restarts, IInv, Types
<1>. HIDE DEF S1
<1>. QED
  BY <1>1, <1>2, DropInvariant

LEMMA ExpiresInvariant ==
    ASSUME IInv, NEW i \in Id, Expires(i)
    PROVE  IInv'
<1>1. {i} \in SUBSET Id /\ Drop({i}) /\ \A k \in {i} : phase[k] # "unused"
  BY DEF Expires, IsOpen
<1>2. /\ upsets' \in 0..MaxUpsets /\ loose' \subseteq loose /\ conn' \in {"out", "off", "on"}
      /\ UNCHANGED <<job, store, target, list, wrong, shared>>
  BY UpsetType DEF Expires, IInv, Types, pageVars
<1>. QED
  BY <1>1, <1>2, DropInvariant
---------------------------------------------------------------------------
(* The steps of the user *)

\* The loops T stop; B of them have an upload that is cancelled with its record.
\* What goes on only waits, or has been cancelled in its pause.
LEMMA StopsInvariant ==
    ASSUME IInv, NEW T \in SUBSET Loop, NEW B \in SUBSET T, \A t \in B : At(t, Begun),
           job' \in [Loop -> Job], \A t \in T : job'[t] = NoJob,
           \A t \in Loop \ T : /\ job'[t].at = job[t].at /\ job'[t].id = job[t].id
                               /\ job'[t].file = job[t].file /\ job'[t].twin = job[t].twin
                               /\ job'[t].to = job[t].to /\ job'[t].aim = job[t].aim
                               /\ job'[t].abort => At(t, {"backoff"})
                               /\ At(t, {"idle", "wait"}) \/ job'[t].abort,
           store' = CancelForgets(B), loose' \subseteq Request,
           \A q \in loose' \ loose : q.op = "delete" => \E t \in B : q.id = job[t].id,
           list' = <<>>, conn' \in {"out", "off", "on"}, target' \in Target,
           upsets' \in 0..MaxUpsets, UNCHANGED <<serverVars, historyVars>>
    PROVE  IInv'
<1>0. /\ NoJob.at = "idle" /\ NoJob.id = 0 /\ NoJob.to = NoJob.aim /\ ~NoJob.abort
      /\ UNCHANGED <<phase, offset, wrong, lost, shared>>
  BY DEF NoJob, serverVars, historyVars
<1>. HIDE DEF NoJob
<1>1. \A f \in File : store'[f] = IF \E t \in B : job[t].file = f THEN 0 ELSE store[f]
  BY DEF CancelForgets
<1>2. Types'
  <2>1. store' \in [File -> Id \cup {0}]
    BY Unchanging DEF CancelForgets
  <2>. QED
    BY <1>0, <2>1 DEF IInv, Types
<1>3. \A t \in Loop : /\ job'[t].id \in {job[t].id, 0}
                      /\ job'[t].id # 0 => t \notin T /\ job'[t].file = job[t].file
  BY <1>0
<1>4. ASSUME NEW t \in Loop PROVE Knows(t)'
  <2>1. CASE t \in T
    BY <1>0, <2>1 DEF Knows, At
  <2>2. CASE t \notin T
    <3>1. Knows(t)
      BY DEF IInv
    <3>. QED
      BY <1>0, <2>2, <3>1 DEF Knows, At, Opened, Excused
  <2>. QED
    BY <2>1, <2>2
<1>5. OneFile'
  <2>0. OneFile /\ \A f \in File : store'[f] \in {store[f], 0}
    BY <1>1 DEF IInv
  <2>1. ASSUME NEW f \in File, store'[f] # 0 PROVE Opened(store[f])'
    <3>1. store'[f] = store[f] /\ Opened(store[f])
      BY <2>0, <2>1 DEF OneFile
    <3>. QED
      BY <1>0, <3>1 DEF Opened, Excused
  <2>2. \A f, g \in File : store'[f] # 0 /\ store'[f] = store'[g] => f = g
    BY <2>0 DEF OneFile
  <2>3. \A t \in Loop, f \in File : job'[t].id # 0 /\ store'[f] = job'[t].id => f = job'[t].file
    BY <1>3, <2>0 DEF OneFile
  <2>4. \A t, u \in Loop : t # u /\ job'[t].id # 0 /\ job'[t].id = job'[u].id =>
          job'[t].file = job'[u].file /\ job'[t].id \in shared'
    BY <1>0, <1>3, <2>0 DEF OneFile
  <2>. QED
    BY <2>1, <2>2, <2>3, <2>4 DEF OneFile
<1>6. Twins'
  <2>1. \A t \in Loop : job'[t].at # "idle" =>
          t \notin T /\ job'[t].file = job[t].file /\ job'[t].twin = job[t].twin
          /\ job[t].at = job'[t].at
    BY <1>0
  <2>. QED
    BY <2>1 DEF IInv, Twins, At
<1>7. Records'
  <2>1. ASSUME NEW t \in Loop, At(t, Begun)', ~job'[t].twin
        PROVE  store'[job'[t].file] = job'[t].id
    <3>1. /\ t \notin T /\ At(t, Begun) /\ ~job[t].twin /\ job'[t].file = job[t].file
          /\ job'[t].id = job[t].id
      BY <1>0, <2>1 DEF At, Begun
    <3>2. store[job[t].file] = job[t].id
      BY <3>1 DEF IInv, Records
    <3>3. \A b \in B : job[b].file # job[t].file
      BY <3>1 DEF IInv, Twins, At, Begun
    <3>. QED
      BY <1>1, <3>1, <3>2, <3>3, JobFacts
  <2>. QED
    BY <2>1 DEF Records
<1>8. Deletes'
  <2>1. ASSUME NEW q \in loose', q.op = "delete"
        PROVE  /\ phase[q.id] # "unused"
               /\ \A f \in File : store'[f] # q.id
               /\ \A t \in Loop : job'[t].id = q.id => q.id \in shared
    <3>0. q.id \in Id /\ q.id # 0
      BY DEF Request, Id
    <3>1. CASE q \in loose
      BY <1>1, <1>3, <2>1, <3>0, <3>1 DEF IInv, Deletes
    <3>2. CASE q \notin loose
      <4>1. PICK b \in B : q.id = job[b].id
        BY <2>1, <3>2
      <4>2. Knows(b) /\ job[b].file \in File
        BY JobFacts
      <4>3. phase[q.id] # "unused"
        BY <3>0, <4>1, <4>2 DEF Knows, Opened
      <4>4. ASSUME NEW f \in File, store'[f] = q.id PROVE FALSE
        <5>1. store[f] = job[b].id /\ job[b].file # f
          BY <1>1, <3>0, <4>1, <4>4
        <5>. QED
          BY <3>0, <4>1, <5>1 DEF IInv, OneFile
      <4>5. ASSUME NEW t \in Loop, job'[t].id = q.id PROVE q.id \in shared
        <5>1. t \notin T /\ job[t].id = q.id /\ t # b
          BY <1>3, <3>0, <4>5
        <5>. QED
          BY <3>0, <4>1, <5>1 DEF IInv, OneFile
      <4>. QED
        BY <4>3, <4>4, <4>5
    <3>. QED
      BY <3>1, <3>2
  <2>. QED
    BY <1>0, <2>1 DEF Deletes
<1>9. Showing'
  BY <1>0 DEF Showing, At
<1>. QED
  BY <1>0, <1>2, <1>4, <1>5, <1>6, <1>7, <1>8, <1>9 DEF IInv

LEMMA LeavesInvariant ==
    ASSUME IInv, Leaves
    PROVE  IInv'
<1>. DEFINE B == {t \in Loop : At(t, {"put", "last", "check"})}
            T == B \cup {t \in Loop : At(t, {"query", "create"})}
            more == {Delete(job[t].id) : t \in B}
<1>1. /\ job' = [t \in Loop |-> IF t \in B \/ At(t, {"query", "create"}) THEN NoJob
                                ELSE [job[t] EXCEPT !.abort = @ \/ At(t, {"backoff"})]]
      /\ store' = CancelForgets(B) /\ GivenUp(B, more)
      /\ conn' = "out" /\ target' = Everyone /\ list' = <<>>
      /\ UNCHANGED <<serverVars, historyVars>>
  BY DEF Leaves, SetSendTarget
<1>2. T \in SUBSET Loop /\ B \in SUBSET T /\ B \in SUBSET Loop /\ \A t \in B : At(t, Begun)
  BY DEF At, Begun
<1>3. \A t \in T : job'[t] = NoJob
  BY <1>1
<1>4. ASSUME NEW t \in Loop \ T
      PROVE  /\ job'[t] \in Job
             /\ job'[t].at = job[t].at /\ job'[t].id = job[t].id
             /\ job'[t].file = job[t].file /\ job'[t].twin = job[t].twin
             /\ job'[t].to = job[t].to /\ job'[t].aim = job[t].aim
             /\ job'[t].abort => At(t, {"backoff"})
             /\ At(t, {"idle", "wait"}) \/ job'[t].abort
  <2>. DEFINE b == job[t].abort \/ At(t, {"backoff"})
  <2>1. job'[t] = [job[t] EXCEPT !.abort = b] /\ job[t] \in Job
    BY <1>1, JobFacts
  <2>2. /\ b \in BOOLEAN /\ (b => At(t, {"backoff"}))
    BY <2>1, JobFacts DEF Knows, Job
  <2>3. At(t, {"idle", "wait"}) \/ b
    <3>1. job[t].at \in {"idle", "query", "create", "put", "last", "backoff", "check", "wait"}
      BY <2>1 DEF Job
    <3>. QED
      BY <3>1 DEF At
  <2>. HIDE DEF b
  <2>4. /\ job'[t] \in Job /\ job'[t].abort = b
        /\ job'[t].at = job[t].at /\ job'[t].id = job[t].id
        /\ job'[t].file = job[t].file /\ job'[t].twin = job[t].twin
        /\ job'[t].to = job[t].to /\ job'[t].aim = job[t].aim
    BY <2>1, <2>2 DEF Job
  <2>. QED
    BY <2>2, <2>3, <2>4
<1>5. job' \in [Loop -> Job]
  BY <1>1, <1>3, <1>4, NoJobType
<1>6. \A t \in B : Delete(job[t].id) \in Request /\ Delete(job[t].id).id = job[t].id
  <2>1. \A t \in B : job[t].id \in Id
    BY JobFacts DEF At
  <2>. QED
    BY <2>1, UploadAssumption DEF Delete, Request
<1>7. more \subseteq Request /\ \A q \in more : \E t \in B : q.id = job[t].id
  BY <1>6
<1>. HIDE DEF B, T, more
<1>8. /\ loose' \subseteq Request /\ upsets' \in 0..MaxUpsets
      /\ \A q \in loose' \ loose : q.op = "delete" => q \in more
  BY <1>1, <1>2, <1>7, GivenUpFacts
<1>9. conn' \in {"out", "off", "on"} /\ target' \in Target
  BY <1>1, UploadAssumption
<1>10. \A q \in loose' \ loose : q.op = "delete" => \E t \in B : q.id = job[t].id
  BY <1>7, <1>8
<1>. QED
  BY <1>1, <1>2, <1>3, <1>4, <1>5, <1>8, <1>9, <1>10, StopsInvariant

LEMMA ReloadsInvariant ==
    ASSUME IInv, Reloads
    PROVE  IInv'
<1>1. /\ job' = [t \in Loop |-> NoJob] /\ list' = <<>> /\ GivenUp(Loop, {})
      /\ conn' \in {"out", "off", "on"} /\ target' \in Target
      /\ UNCHANGED <<serverVars, historyVars, store>>
  BY UploadAssumption DEF Reloads
<1>2. job' \in [Loop -> Job] /\ \A t \in Loop : job'[t] = NoJob
  BY <1>1, NoJobType
<1>3. /\ loose' \subseteq Request /\ upsets' \in 0..MaxUpsets
      /\ \A q \in loose' \ loose : q.op # "delete"
  <2>1. \A T : T = Loop => T \in SUBSET Loop
    OBVIOUS
  <2>2. \A T, N : T = Loop /\ N = {} /\ GivenUp(T, N) =>
          /\ loose' \subseteq Request /\ upsets' \in 0..MaxUpsets
          /\ \A q \in loose' \ loose : q.op = "delete" => q \in N
    BY <2>1, GivenUpFacts
  <2>. QED
    BY <1>1, <2>2
<1>4. store' = CancelForgets({})
  <2>1. store \in [File -> Id \cup {0}]
    BY Unchanging
  <2>. QED
    BY <1>1, <2>1 DEF CancelForgets
<1>5. Loop \in SUBSET Loop /\ {} \in SUBSET Loop /\ (\A t \in {} : At(t, Begun))
  OBVIOUS
<1>. HIDE DEF NoJob
<1>6. \A q \in loose' \ loose : q.op = "delete" => \E t \in {} : q.id = job[t].id
  BY <1>3
<1>7. \A t \in Loop \ Loop :
         /\ job'[t].at = job[t].at /\ job'[t].id = job[t].id
         /\ job'[t].file = job[t].file /\ job'[t].twin = job[t].twin
         /\ job'[t].to = job[t].to /\ job'[t].aim = job[t].aim
         /\ job'[t].abort => At(t, {"backoff"})
         /\ At(t, {"idle", "wait"}) \/ job'[t].abort
  OBVIOUS
<1>. QED
  BY <1>1, <1>2, <1>3, <1>4, <1>5, <1>6, <1>7, StopsInvariant

\* Of the rest the uploads see little.
LEMMA AsideInvariant ==
    ASSUME IInv, conn' \in {"out", "off", "on"}, target' \in Target, upsets' \in 0..MaxUpsets,
           list' \in Seq(Entry), \A t \in Loop : Listed(t, list) => Listed(t, list'),
           UNCHANGED <<job, store, serverVars, loose, historyVars>>
    PROVE  IInv'
<1>1. UNCHANGED <<phase, offset, wrong, lost, shared>>
  BY DEF serverVars, historyVars
<1>2. Types'
  BY <1>1 DEF IInv, Types
<1>3. \A t \in Loop : Knows(t)'
  BY <1>1 DEF IInv, Knows, At, Opened, Excused
<1>4. OneFile' /\ Twins' /\ Records' /\ Deletes'
  BY <1>1 DEF IInv, OneFile, Twins, Records, Deletes, At, Opened, Excused
<1>5. Showing'
  BY DEF IInv, Showing, Listed
<1>. QED
  BY <1>1, <1>2, <1>3, <1>4, <1>5 DEF IInv

LEMMA AsideSteps ==
    ASSUME IInv, Enters \/ Connects \/ Receives \/ \E to \in Target : Chooses(to)
    PROVE  IInv'
<1>1. /\ conn \in {"out", "off", "on"} /\ target \in Target /\ upsets \in 0..MaxUpsets
      /\ list \in Seq(Entry)
  BY DEF IInv, Types
<1>2. CASE Enters
  BY <1>1, <1>2, AsideInvariant DEF Enters
<1>3. CASE Connects
  BY <1>1, <1>3, AsideInvariant DEF Connects
<1>4. CASE Receives
  <2>1. \A L : L = Added(0) => L \in Seq(Entry) /\ \A t \in Loop : Listed(t, list) => Listed(t, L)
    BY <1>1, AddedKeeps DEF Entry
  <2>2. list' \in Seq(Entry) /\ \A t \in Loop : Listed(t, list) => Listed(t, list')
    BY <1>4, <2>1 DEF Receives, Listed
  <2>. QED
    BY <1>1, <1>4, <2>2, UpsetType, AsideInvariant DEF Receives
<1>5. ASSUME NEW to \in Target, Chooses(to) PROVE IInv'
  BY <1>1, <1>5, UpsetType, AsideInvariant DEF Chooses, SetSendTarget
<1>. QED
  BY <1>2, <1>3, <1>4, <1>5

---------------------------------------------------------------------------
(* The invariant holds, and what follows from it *)

LEMMA NextInvariant == IInv /\ [Next]_vars => IInv'
<1>. SUFFICES ASSUME IInv, [Next]_vars PROVE IInv'
  OBVIOUS
<1>1. ASSUME NEW t \in Loop, Goes(t) PROVE IInv'
  <2>1. CASE Opening(t)
    BY <2>1, ResumesInvariant, StartsOverInvariant, CreatedInvariant, NotOpenedInvariant
       DEF Opening
  <2>2. CASE Sending(t)
    BY <2>2, ChunkTakenInvariant, ConflictInvariant, FileIsThereInvariant,
       ChunkFailedInvariant, WakesUpInvariant, CheckedInvariant, WakesCanceledInvariant,
       ThrowsInvariant DEF Sending
  <2>. QED
    BY <1>1, <2>1, <2>2, WaitEndsInvariant DEF Goes
<1>2. ASSUME UNCHANGED vars PROVE IInv'
  BY <1>2, AsideInvariant DEF vars, pageVars, IInv, Types
<1>. QED
  BY <1>1, <1>2, UserCancelsInvariant, StartsInvariant, CompleteInvariant, ExpiresInvariant,
     LooseArrivesInvariant, AsideSteps, LeavesInvariant, ReloadsInvariant, RestartsInvariant
     DEF Next

LEMMA Invariant == Spec => []IInv
<1>. QED
  BY InitInvariant, NextInvariant, PTL DEF Spec

\* The variables have their types, and a loop that sends has an upload that the
\* server has opened once (updateTransfer, uploadResumable).
THEOREM TypeCorrect == Spec => []TypeOK
<1>. QED
  BY Invariant, ImpliesTypeOK, PTL

LEMMA ImpliesAnnouncedRight == IInv => AnnouncedRight
BY DEF IInv, AnnouncedRight

\* What a message announces the server has whole, it goes to whom the user chose,
\* and it is not of an upload that was cancelled (uploadAndSend, sendWS).
THEOREM AnnouncesRight == Spec => []AnnouncedRight
<1>. QED
  BY Invariant, ImpliesAnnouncedRight, PTL

LEMMA ImpliesRunningListed == IInv => RunningListed
BY DEF IInv, Showing, RunningListed, Listed

\* addTransfer, which bounds the list, never takes out an upload that goes on.
THEOREM ListsWhatRuns == Spec => []RunningListed
<1>. QED
  BY Invariant, ImpliesRunningListed, PTL

LEMMA ImpliesResumable == IInv => ResumableAfterReload
BY DEF IInv, Records, ResumableAfterReload, At, Begun

\* At any time the page may be loaded again and goes on with the upload it was at
\* (storageSet and storageRemove in openUploadSession and uploadResumable).
THEOREM ResumesAfterReload == Spec => []ResumableAfterReload
<1>. QED
  BY Invariant, ImpliesResumable, PTL

LEMMA ImpliesFailsForReason == IInv => FailsForReason
BY DEF IInv, FailsForReason

\* The server does not know an upload only if it has let go of it by itself, or
\* another loop has cancelled or finished it.
THEOREM MissesForReason == Spec => []FailsForReason
<1>. QED
  BY Invariant, ImpliesFailsForReason, PTL
---------------------------------------------------------------------------
(* The service the page talks to *)

Declared == [i \in Id |-> IF phase[i] = "unused" THEN 0 ELSE Length]

LEMMA QuietStep ==
    ASSUME UNCHANGED serverVars
    PROVE  [S!Next]_S!vars
BY DEF serverVars, S!vars

\* Upload i comes to n bytes.
LEMMA GrowStep ==
    ASSUME IInv, NEW i \in Id, NEW n \in 0..Length, UNCHANGED phase,
           offset' = [offset EXCEPT ![i] = n], n = offset[i] \/ (phase[i] = "open" /\ n > offset[i])
    PROVE  [S!Next]_S!vars
<1>1. offset \in [Id -> 0..Length] /\ Length \in Nat
  BY UploadAssumption DEF IInv, Types
<1>2. CASE n = offset[i]
  <2>1. UNCHANGED serverVars
    BY <1>1, <1>2 DEF serverVars
  <2>. QED
    BY <2>1, QuietStep
<1>3. CASE phase[i] = "open" /\ n > offset[i]
  <2>1. n \in (offset[i] + 1)..Declared[i]
    BY <1>1, <1>3 DEF Declared
  <2>2. UNCHANGED <<phase, Declared>>
    BY DEF Declared
  <2>3. S!Grow(i)
    BY <1>3, <2>1, <2>2 DEF S!Grow, Declared
  <2>. QED
    BY <2>3 DEF S!Next
<1>. QED
  BY <1>2, <1>3

\* The server lets go of the uploads V.
LEMMA VanishStep ==
    ASSUME NEW V \in SUBSET Id, \A i \in V : phase[i] # "unused",
           phase' = [i \in Id |-> IF i \in V THEN "gone" ELSE phase[i]],
           offset' = [i \in Id |-> IF i \in V THEN 0 ELSE offset[i]]
    PROVE  [S!Next]_S!vars
<1>1. UNCHANGED Declared
  BY DEF Declared
<1>2. S!Vanish
  BY <1>1 DEF S!Vanish, Declared
<1>. QED
  BY <1>2 DEF S!Next

LEMMA CreatedStep ==
    ASSUME IInv, NEW t \in Loop, Created(t)
    PROVE  [S!Next]_S!vars
<1>1. PICK i \in Id : phase[i] = "unused" /\ phase' = [phase EXCEPT ![i] = "open"]
  BY DEF Created
<1>2. UNCHANGED offset /\ phase \in [Id -> {"unused", "open", "done", "gone"}]
  BY DEF Created, IInv, Types
<1>3. Declared' = [Declared EXCEPT ![i] = Length]
  BY <1>1, <1>2 DEF Declared
<1>4. S!Open(i)
  BY <1>1, <1>2, <1>3 DEF S!Open, Declared
<1>. QED
  BY <1>4 DEF S!Next

LEMMA ChunkTakenStep ==
    ASSUME IInv, NEW t \in Loop, ChunkTaken(t)
    PROVE  [S!Next]_S!vars
<1>. DEFINE i == job[t].id
            n == IF job[t].off + Chunk < Length THEN job[t].off + Chunk ELSE Length
<1>1. /\ i \in Id /\ job[t].off \in 0..Length /\ job[t].off = offset[i]
      /\ offset' = [offset EXCEPT ![i] = n] /\ UNCHANGED phase
      /\ phase[i] = "open" /\ offset[i] # Length
  BY JobFacts DEF ChunkTaken, At, IsOpen, Finishing
<1>2. n \in 0..Length /\ n > offset[i]
  BY <1>1, UploadAssumption
<1>. HIDE DEF n
<1>. QED
  BY <1>1, <1>2, GrowStep

LEMMA CompleteStep ==
    ASSUME IInv, NEW i \in Id, Complete(i)
    PROVE  [S!Next]_S!vars
<1>1. /\ phase[i] = "open" /\ offset[i] = Length
      /\ phase' = [phase EXCEPT ![i] = "done"] /\ UNCHANGED offset
      /\ phase \in [Id -> {"unused", "open", "done", "gone"}]
  BY DEF Complete, Finishing, IInv, Types
<1>2. UNCHANGED Declared /\ Declared[i] = Length
  BY <1>1 DEF Declared
<1>3. S!Complete(i)
  BY <1>1, <1>2 DEF S!Complete, Declared
<1>. QED
  BY <1>3 DEF S!Next

LEMMA LooseArrivesStep ==
    ASSUME IInv, NEW q \in loose, LooseArrives(q)
    PROVE  [S!Next]_S!vars
<1>1. /\ q.id \in Id /\ q.off \in 0..Length /\ offset \in [Id -> 0..Length]
      /\ phase \in [Id -> {"unused", "open", "done", "gone"}]
  BY DEF IInv, Types, Request
<1>2. CASE /\ q.op = "delete" /\ IsOpen(q.id)
           /\ phase' = [phase EXCEPT ![q.id] = "gone"]
           /\ offset' = [offset EXCEPT ![q.id] = 0]
  <2>1. /\ phase' = [i \in Id |-> IF i \in {q.id} THEN "gone" ELSE phase[i]]
        /\ offset' = [i \in Id |-> IF i \in {q.id} THEN 0 ELSE offset[i]]
        /\ {q.id} \in SUBSET Id /\ \A i \in {q.id} : phase[i] # "unused"
    BY <1>1, <1>2 DEF IsOpen
  <2>. QED
    BY <2>1, VanishStep
<1>3. CASE q.op = "delete" /\ ~IsOpen(q.id) /\ UNCHANGED serverVars
  BY <1>3, QuietStep
<1>4. CASE /\ q.op = "put" /\ UNCHANGED phase
           /\ \E n \in Taken(q.id, q.off) : offset' = [offset EXCEPT ![q.id] = n]
  <2>1. PICK n \in Taken(q.id, q.off) : offset' = [offset EXCEPT ![q.id] = n]
    BY <1>4
  <2>. DEFINE o == offset[q.id]
  <2>2. o \in 0..Length /\ Chunk \in Nat /\ Length \in Nat
    BY <1>1, UploadAssumption
  <2>3. \/ n = o
        \/ phase[q.id] = "open" /\ n \in o..(IF o + Chunk < Length THEN o + Chunk ELSE Length)
    BY DEF Taken, IsOpen
  <2>. HIDE DEF o
  <2>4. CASE n = o
    <3>1. UNCHANGED serverVars
      BY <1>1, <1>4, <2>1, <2>4 DEF o, serverVars
    <3>. QED
      BY <3>1, QuietStep
  <2>5. CASE n # o /\ phase[q.id] = "open"
             /\ n \in o..(IF o + Chunk < Length THEN o + Chunk ELSE Length)
    <3>1. n \in 0..Length /\ n > o
      BY <2>2, <2>5
    <3>. QED
      <4>1. n > offset[q.id] /\ phase[q.id] = "open" /\ n \in 0..Length
        BY <2>5, <3>1 DEF o
      <4>2. q.id \in Id /\ UNCHANGED phase /\ offset' = [offset EXCEPT ![q.id] = n]
        BY <1>1, <1>4, <2>1
      <4>. QED
        BY <4>1, <4>2, GrowStep
  <2>. QED
    BY <2>3, <2>4, <2>5
<1>. QED
  BY <1>2, <1>3, <1>4 DEF LooseArrives

LEMMA DropSteps ==
    ASSUME IInv, Restarts \/ \E i \in Id : Expires(i)
    PROVE  [S!Next]_S!vars
<1>1. CASE Restarts
  <2>. DEFINE V == {i \in Id : phase[i] # "unused"}
  <2>1. V \in SUBSET Id /\ Drop(V) /\ \A i \in V : phase[i] # "unused"
    BY <1>1 DEF Restarts
  <2>. HIDE DEF V
  <2>. QED
    BY <2>1, VanishStep DEF Drop
<1>2. ASSUME NEW i \in Id, Expires(i) PROVE [S!Next]_S!vars
  <2>1. {i} \in SUBSET Id /\ Drop({i}) /\ \A k \in {i} : phase[k] # "unused"
    BY <1>2 DEF Expires, IsOpen
  <2>. QED
    BY <2>1, VanishStep DEF Drop
<1>. QED
  BY <1>1, <1>2

LEMMA NextStep == IInv /\ [Next]_vars => [S!Next]_S!vars
<1>. SUFFICES ASSUME IInv, [Next]_vars PROVE [S!Next]_S!vars
  OBVIOUS
<1>1. ASSUME NEW t \in Loop, Goes(t) PROVE [S!Next]_S!vars
  <2>1. \/ Created(t) \/ ChunkTaken(t) \/ UNCHANGED serverVars
    BY <1>1 DEF Goes, Opening, Sending, Resumes, StartsOver, NotOpened, Conflict,
       FileIsThere, ChunkFailed, WakesUp, Checked, WakesCanceled, Throws, WaitEnds
  <2>. QED
    BY <2>1, CreatedStep, ChunkTakenStep, QuietStep
<1>2. ASSUME NEW t \in Loop, UserCancels(t) \/ \E f \in File : Starts(t, f)
      PROVE  [S!Next]_S!vars
  BY <1>2, QuietStep DEF UserCancels, Starts
<1>3. ASSUME Leaves \/ Enters \/ Connects \/ Receives \/ Reloads
             \/ (\E to \in Target : Chooses(to)) \/ UNCHANGED vars
      PROVE  [S!Next]_S!vars
  BY <1>3, QuietStep DEF Leaves, Enters, Connects, Receives, Reloads, Chooses, vars
<1>. QED
  BY <1>1, <1>2, <1>3, CompleteStep, LooseArrivesStep, DropSteps DEF Next

LEMMA InitStep == Init => S!Init
BY DEF Init, S!Init

\* Whatever the page does, and whatever comes late from it, an upload of the service
\* only grows, is offered when it is whole, and is never back once gone.
THEOREM TalksToService == Spec => UsesService
<1>. QED
  BY Invariant, InitStep, NextStep, PTL DEF Spec, UsesService, S!Spec
=============================================================================
