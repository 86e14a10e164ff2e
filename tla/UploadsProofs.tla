--------------------------- MODULE UploadsProofs ---------------------------
(***************************************************************************)
(* Theorems about Uploads, for every value of its constants.               *)
(***************************************************************************)
EXTENDS Uploads, SequenceTheorems, TLAPS

USE DEF vars, maps, disk

---------------------------------------------------------------------------
(* The bytes of a file *)

LEMMA BytesType ==
    ASSUME NEW n \in Nat
    PROVE  Bytes(n) \in Seq(Nat) /\ Len(Bytes(n)) = n /\ Bytes(n) # Absent
<1>1. Bytes(n) \in Seq(Nat)
  <2>1. \A k \in 1..n : k \in Nat
    OBVIOUS
  <2>. QED
    BY <2>1, IsASeq DEF Bytes
<1>2. Len(Bytes(n)) = n
  BY LenProperties, <1>1 DEF Bytes
<1>. QED
  BY <1>1, <1>2, UploadsAssumption

LEMMA NoBytes == Bytes(0) = <<>>
BY DEF Bytes

\* One byte more.
LEMMA BytesAppend ==
    ASSUME NEW n \in Nat
    PROVE  Append(Bytes(n), n + 1) = Bytes(n + 1)
<1>1. /\ Bytes(n) \in Seq(Nat) /\ Len(Bytes(n)) = n
      /\ Bytes(n + 1) \in Seq(Nat) /\ Len(Bytes(n + 1)) = n + 1
  BY BytesType
<1>2. /\ Append(Bytes(n), n + 1) \in Seq(Nat) /\ Len(Append(Bytes(n), n + 1)) = n + 1
      /\ \A k \in 1..n : Append(Bytes(n), n + 1)[k] = Bytes(n)[k]
      /\ Append(Bytes(n), n + 1)[n + 1] = n + 1
  BY <1>1, AppendProperties
<1>3. \A k \in 1..(n + 1) : Append(Bytes(n), n + 1)[k] = Bytes(n + 1)[k]
  BY <1>2 DEF Bytes
<1>. QED
  BY <1>1, <1>2, <1>3, SeqEqual

\* The first bytes of a file.
LEMMA BytesCut ==
    ASSUME NEW n \in Nat, NEW m \in 0..n
    PROVE  SubSeq(Bytes(n), 1, m) = Bytes(m)
<1>1. Bytes(m) \in Seq(Nat) /\ Len(Bytes(m)) = m
  BY BytesType
<1>2. \A k \in 1..m : Bytes(n)[k] \in Nat
  BY DEF Bytes
<1>3. /\ SubSeq(Bytes(n), 1, m) \in Seq(Nat)
      /\ Len(SubSeq(Bytes(n), 1, m)) = IF 1 <= m THEN m - 1 + 1 ELSE 0
      /\ \A k \in 1..(m - 1 + 1) : SubSeq(Bytes(n), 1, m)[k] = Bytes(n)[1 + k - 1]
  BY <1>2, SubSeqProperties
<1>4. Len(SubSeq(Bytes(n), 1, m)) = m
  BY <1>3
<1>5. \A k \in 1..m : SubSeq(Bytes(n), 1, m)[k] = Bytes(m)[k]
  BY <1>3 DEF Bytes
<1>. QED
  BY <1>1, <1>3, <1>4, <1>5, SeqEqual

---------------------------------------------------------------------------
(* The inductive invariant *)

\* A request that is the only one to work on the bytes of its id.
Owns(r) == req[r].at \in {"publish", "form", "copy", "finish", "register"}

\* An id that clients may ask for as an unfinished upload: it has bytes to come, and
\* no request that would still publish it or write it in one go.
Reached(i) == /\ i \in used /\ size[i] # 0
              /\ \A r \in Slot : req[r].id = i => req[r].at \notin {"publish", "form"}

\* What a request knows of the id it asks for, wherever it is.
Asks(r) ==
    /\ req[r].at # "idle" => req[r].id \in used
    /\ req[r].op = "put" => req[r].id \in Id /\ req[r].offset <= size[req[r].id]
    /\ req[r].at \in {"lookup", "lookupFile"} =>
           req[r].op \in {"get", "put", "delete", "download"}
    /\ req[r].at \in {"get", "put", "delete"} => Reached(req[r].id)
    /\ req[r].at = "put" => req[r].op = "put"
    /\ req[r].at \in {"lookup", "put"} => req[r].written = 0
    /\ req[r].at = "copy" => req[r].op = "put"
    /\ Owns(r) /\ req[r].op = "put" => Reached(req[r].id)

Fresh(i)   == i \notin uploads /\ i \notin files /\ acked[i] = 0
Holds(r)   == holder[req[r].id] = r /\ req[r].id \in uploads /\ req[r].id \notin files

\* What the owner of an id has written, step by step.
Publishing(r) == LET i == req[r].id
                 IN  req[r].op = "create" /\ size[i] # 0 /\ Fresh(i) /\ part[i] = <<>>
Forming(r)    == LET i == req[r].id
                 IN  /\ req[r].op = "form" /\ size[i] = 0 /\ Fresh(i) /\ part[i] = Absent
                     /\ final[i] = Bytes(req[r].written) /\ req[r].written <= req[r].len
Copying(r)    == LET i == req[r].id
                 IN  /\ Holds(r)
                     /\ part[i] = Bytes(req[r].offset + req[r].written)
                     /\ req[r].written <= Limit(r) + 1 /\ acked[i] <= req[r].offset
Finishing(r)  == LET i == req[r].id
                 IN  \/ req[r].op = "create" /\ size[i] = 0 /\ Fresh(i) /\ part[i] = <<>>
                     \/ req[r].op = "put" /\ Holds(r) /\ part[i] = Bytes(size[i])
                        /\ acked[i] <= size[i]
Registering(r) == LET i == req[r].id
                  IN  /\ i \notin uploads /\ i \notin files /\ acked[i] <= size[i]
                      /\ part[i] = Absent /\ final[i] = Bytes(size[i])
                      /\ \/ req[r].op = "create" /\ size[i] = 0
                         \/ req[r].op = "put" /\ holder[i] = r

Work(r) == /\ At(r, "publish")  => Publishing(r)
           /\ At(r, "form")     => Forming(r)
           /\ At(r, "copy")     => Copying(r)
           /\ At(r, "finish")   => Finishing(r)
           /\ At(r, "register") => Registering(r)

\* The state of an id.
Unused(i)   == i \notin used => /\ Fresh(i) /\ size[i] = 0
                                /\ part[i] = Absent /\ final[i] = Absent
Uploaded(i) == i \in uploads =>
    /\ Reached(i) /\ i \notin files
    /\ part[i] # Absent /\ part[i] = Bytes(Len(part[i])) /\ acked[i] <= Len(part[i])
    /\ Serving(i, {"copy"}) \/ Len(part[i]) <= size[i]
Filed(i)    == i \in files =>
    /\ i \in used /\ final[i] = Bytes(size[i]) /\ acked[i] <= size[i]
Owned(i)    == up =>
    /\ part[i] # Absent => i \in uploads \/ Serving(i, {"publish", "finish"}) \/ size[i] = 0
    /\ final[i] # Absent => i \in files \/ Serving(i, {"register", "form"})
State(i)    == Unused(i) /\ Uploaded(i) /\ Filed(i) /\ Owned(i)

\* No two requests work on the bytes of one id.
Alone == \A r, s \in Slot : Owns(r) /\ Owns(s) /\ req[r].id = req[s].id => r = s

\* The process is down: nothing is left in memory.
Down == ~up => /\ uploads = {} /\ files = {} /\ purge = NoPurge
               /\ \A r \in Slot : req[r] = Idle

Purging == /\ \A i \in purge.uploads : Reached(i)
           /\ purge.at = "lock" => purge.id \in Id /\ Reached(purge.id)

IInv == /\ \A r \in Slot : Asks(r) /\ Work(r)
        /\ \A i \in Id : State(i)
        /\ Alone /\ Down /\ Purging

Cleanup == [at: {"idle", "files", "uploads", "lock"}, id: Id \cup {Nobody}, cutoff: Nat,
            files: SUBSET Id, uploads: SUBSET Id, touched: SUBSET Id]

\* The types of the variables: TypeOK without its last line, which Work contains.
Types ==
    /\ up \in BOOLEAN /\ now \in Nat
    /\ uploads \subseteq Id /\ files \subseteq Id /\ used \subseteq Id
    /\ size \in [Id -> Nat] /\ stamp \in [Id -> Nat] /\ acked \in [Id -> Nat]
    /\ holder \in [Id -> Slot \cup {Nobody}]
    /\ part \in [Id -> Seq(Nat) \cup {Absent}]
    /\ final \in [Id -> Seq(Nat) \cup {Absent}]
    /\ req \in [Slot -> Request]
    /\ purge \in Cleanup

Inv == Types /\ IInv

LEMMA InvTypeOK == Inv => TypeOK
BY DEF Inv, Types, Cleanup, IInv, Work, Copying, Holds, TypeOK

---------------------------------------------------------------------------
(* Types *)

LEMMA IdleType == Idle \in Request
BY DEF Idle, Request

LEMMA AnswerFacts ==
    ASSUME Types, NEW r \in Slot, NEW s \in Nat, Answer(r, s)
    PROVE  /\ req' \in [Slot -> Request]
           /\ \A q \in Slot \ {r} : req'[q] = req[q]
           /\ req'[r].at = "answered" /\ req'[r].op = req[r].op /\ req'[r].id = req[r].id
           /\ req'[r].offset = 0
<1>1. req[r] \in Request /\ req \in [Slot -> Request]
  BY DEF Types
<1>. DEFINE a == [Idle EXCEPT !.at = "answered", !.op = req[r].op, !.id = req[r].id,
                              !.status = s]
<1>2. /\ a \in Request /\ a.at = "answered" /\ a.op = req[r].op /\ a.id = req[r].id
      /\ a.offset = 0
  BY <1>1 DEF Idle, Request
<1>3. req' = [req EXCEPT ![r] = a]
  BY DEF Answer
<1>. HIDE DEF a
<1>. QED
  BY <1>1, <1>2, <1>3

LEMMA GotoFacts ==
    ASSUME Types, NEW r \in Slot,
           NEW l \in {"idle", "answered", "lookup", "lookupFile", "serve", "get", "put",
                      "delete", "copy", "publish", "finish", "register", "form"},
           Goto(r, l)
    PROVE  /\ req' \in [Slot -> Request]
           /\ \A q \in Slot \ {r} : req'[q] = req[q]
           /\ req'[r] = [req[r] EXCEPT !.at = l]
           /\ req'[r].at = l /\ req'[r].op = req[r].op /\ req'[r].id = req[r].id
           /\ req'[r].offset = req[r].offset /\ req'[r].len = req[r].len
           /\ req'[r].written = req[r].written
<1>1. req[r] \in Request /\ req \in [Slot -> Request]
  BY DEF Types
<1>. QED
  BY <1>1 DEF Goto, Request

\* A request that is not idle runs in a process that is up, for an id that was drawn.
LEMMA Busy ==
    ASSUME Inv, NEW r \in Slot, req[r].at # "idle"
    PROVE  up /\ req[r].id \in used /\ req[r].id \in Id
BY DEF Inv, Types, IInv, Asks, Down, Idle

LEMMA AcknowledgeType ==
    ASSUME Types, NEW i \in Id, NEW n \in Nat, Acknowledge(i, n)
    PROVE  /\ acked' \in [Id -> Nat]
           /\ acked'[i] = Max2(acked[i], n)
           /\ \A j \in Id \ {i} : acked'[j] = acked[j]
BY DEF Types, Acknowledge, Max2

\* The cleanup hears of the end of a chunk and changes nothing else.
LEMMA TouchFacts ==
    ASSUME Types, NEW i \in Id, Touch(i)
    PROVE  /\ stamp' \in [Id -> Nat] /\ stamp'[i] = now
           /\ \A j \in Id \ {i} : stamp'[j] = stamp[j]
           /\ purge' \in Cleanup
           /\ purge'.at = purge.at /\ purge'.id = purge.id /\ purge'.cutoff = purge.cutoff
           /\ purge'.files = purge.files /\ purge'.uploads = purge.uploads
           /\ purge'.touched \subseteq purge.touched \cup {i}
           /\ purge = NoPurge => purge' = NoPurge
<1>1. CASE purge.at = "idle"
  BY <1>1 DEF Types, Touch
<1>2. CASE purge.at # "idle"
  <2>1. purge # NoPurge
    BY <1>2 DEF NoPurge
  <2>. QED
    BY <1>2, <2>1 DEF Types, Touch, Cleanup
<1>. QED
  BY <1>1, <1>2

LEMMA ReleaseType ==
    ASSUME Types, NEW i \in Id, NEW r \in Slot, Release(i, r)
    PROVE  /\ holder' \in [Id -> Slot \cup {Nobody}]
           /\ \A j \in Id \ {i} : holder'[j] = holder[j]
BY DEF Types, Release

LEMMA ClientTypes ==
    ASSUME Inv, NEW r \in Slot, ClientStep(r)
    PROVE  Types'
<1>. USE DEF Inv
<1>1. CASE Close(r)
  <2>1. req' \in [Slot -> Request]
    BY <1>1, IdleType DEF Close, Types
  <2>. QED
    BY <1>1, <2>1 DEF Close, Types
<1>2. CASE Begin(r)
  <2>1. PICK op \in Ops \ {"create", "form"}, i \in used :
        \E o \in (IF op = "put" THEN 0..size[i] ELSE {0}) :
        \E n \in (IF op = "put" THEN 0..(ChunkSize + 1) ELSE {0}) :
          req' = [req EXCEPT ![r] =
            [Idle EXCEPT !.at = "lookup", !.op = op, !.id = i, !.offset = o, !.len = n]]
    BY <1>2 DEF Begin
  <2>2. PICK o \in (IF op = "put" THEN 0..size[i] ELSE {0}),
             n \in (IF op = "put" THEN 0..(ChunkSize + 1) ELSE {0}) :
          req' = [req EXCEPT ![r] =
            [Idle EXCEPT !.at = "lookup", !.op = op, !.id = i, !.offset = o, !.len = n]]
    BY <2>1
  <2>3. /\ i \in Id /\ o \in Nat /\ n \in Nat
        /\ op \in {"none", "create", "form", "get", "put", "delete", "download"}
    BY UploadsAssumption DEF Types
  <2>. DEFINE q == [Idle EXCEPT !.at = "lookup", !.op = op, !.id = i, !.offset = o, !.len = n]
  <2>4. q \in Request
    BY <2>3 DEF Idle, Request
  <2>5. req' = [req EXCEPT ![r] = q]
    BY <2>2
  <2>. HIDE DEF q
  <2>. QED
    BY <1>2, <2>4, <2>5 DEF Begin, Types
<1>3. CASE Create(r)
  <2>1. PICK i \in Id \ used, n \in Sizes :
          /\ used' = used \cup {i}
          /\ size' = [size EXCEPT ![i] = n]
          /\ stamp' = [stamp EXCEPT ![i] = now]
          /\ part' = [part EXCEPT ![i] = <<>>]
          /\ req' = [req EXCEPT ![r] =
               [Idle EXCEPT !.at = IF n = 0 THEN "finish" ELSE "publish",
                            !.op = "create", !.id = i]]
    BY <1>3 DEF Create
  <2>2. n \in Nat /\ <<>> \in Seq(Nat)
    BY UploadsAssumption, EmptySeq
  <2>. DEFINE q == [Idle EXCEPT !.at = IF n = 0 THEN "finish" ELSE "publish",
                                !.op = "create", !.id = i]
  <2>3. q \in Request
    BY DEF Idle, Request
  <2>4. req' = [req EXCEPT ![r] = q]
    BY <2>1
  <2>. HIDE DEF q
  <2>. QED
    BY <1>3, <2>1, <2>2, <2>3, <2>4 DEF Create, Types
<1>4. CASE Form(r)
  <2>1. PICK i \in Id \ used, n \in 0..(MaxUpload + 1) :
          /\ used' = used \cup {i}
          /\ final' = [final EXCEPT ![i] = <<>>]
          /\ req' = [req EXCEPT ![r] =
               [Idle EXCEPT !.at = "form", !.op = "form", !.id = i, !.len = n]]
    BY <1>4 DEF Form
  <2>2. n \in Nat /\ <<>> \in Seq(Nat)
    BY UploadsAssumption, EmptySeq
  <2>. DEFINE q == [Idle EXCEPT !.at = "form", !.op = "form", !.id = i, !.len = n]
  <2>3. q \in Request
    BY <2>2 DEF Idle, Request
  <2>4. req' = [req EXCEPT ![r] = q]
    BY <2>1
  <2>. HIDE DEF q
  <2>5. /\ used' \subseteq Id /\ final' \in [Id -> Seq(Nat) \cup {Absent}]
        /\ req' \in [Slot -> Request]
    BY <2>1, <2>2, <2>3, <2>4 DEF Types
  <2>6. UNCHANGED <<up, maps, holder, part, purge, now, acked>>
    BY <1>4 DEF Form
  <2>. QED
    BY <2>5, <2>6 DEF Types
<1>. QED
  BY <1>1, <1>2, <1>3, <1>4 DEF ClientStep

LEMMA BodyTypes ==
    ASSUME Inv, NEW r \in Slot, BodyStep(r)
    PROVE  Types'
<1>. DEFINE i == req[r].id
<1>1. /\ Types /\ Work(r) /\ i \in Id
      /\ req[r] \in Request /\ req[r].written \in Nat /\ req[r].offset \in Nat
  <2>1. req[r].at # "idle"
    BY DEF BodyStep, Copy, CopyFails, FormCopy, FormFails, At
  <2>. QED
    BY <2>1, Busy DEF Inv, IInv, Types, Request
<1>2. CASE Copy(r)
  <2>1. part[i] \in Seq(Nat)
    BY <1>1, <1>2, BytesType DEF Copy, Work, Copying
  <2>2. Append(part[i], req[r].offset + (req[r].written + 1)) \in Seq(Nat)
    BY <1>1, <2>1, AppendProperties
  <2>3. part' \in [Id -> Seq(Nat) \cup {Absent}]
    BY <1>1, <1>2, <2>2 DEF Copy, Types
  <2>4. [req[r] EXCEPT !.written = req[r].written + 1] \in Request
    BY <1>1 DEF Request
  <2>5. req' = [req EXCEPT ![r] = [req[r] EXCEPT !.written = req[r].written + 1]]
    BY <1>2 DEF Copy
  <2>6. UNCHANGED <<up, maps, holder, final, used, purge, now, acked>>
    BY <1>2 DEF Copy
  <2>. QED
    BY <1>1, <2>3, <2>4, <2>5, <2>6 DEF Types
<1>3. CASE CopyFails(r)
  <2>1. req' \in [Slot -> Request]
    BY <1>1, <1>3, AnswerFacts DEF CopyFails
  <2>2. holder' \in [Id -> Slot \cup {Nobody}]
    BY <1>1, <1>3, ReleaseType DEF CopyFails
  <2>. QED
    BY <1>1, <1>3, <2>1, <2>2, TouchFacts DEF CopyFails, Types
<1>4. CASE FormCopy(r)
  <2>1. final[i] \in Seq(Nat)
    BY <1>1, <1>4, BytesType DEF FormCopy, Work, Forming
  <2>2. Append(final[i], req[r].written + 1) \in Seq(Nat)
    BY <1>1, <2>1, AppendProperties
  <2>3. final' \in [Id -> Seq(Nat) \cup {Absent}]
    BY <1>1, <1>4, <2>2 DEF FormCopy, Types
  <2>4. [req[r] EXCEPT !.written = req[r].written + 1] \in Request
    BY <1>1 DEF Request
  <2>5. req' = [req EXCEPT ![r] = [req[r] EXCEPT !.written = req[r].written + 1]]
    BY <1>4 DEF FormCopy
  <2>6. UNCHANGED <<up, maps, holder, part, used, purge, now, acked>>
    BY <1>4 DEF FormCopy
  <2>. QED
    BY <1>1, <2>3, <2>4, <2>5, <2>6 DEF Types
<1>5. CASE FormFails(r)
  <2>1. PICK s \in Nat : Answer(r, s)
    BY <1>5 DEF FormFails
  <2>2. req' \in [Slot -> Request]
    BY <1>1, <2>1, AnswerFacts
  <2>. QED
    BY <1>1, <1>5, <2>2 DEF FormFails, Types
<1>. QED
  BY <1>2, <1>3, <1>4, <1>5 DEF BodyStep

LEMMA LockTypes ==
    ASSUME Inv, NEW r \in Slot, LockStep(r)
    PROVE  Types'
<1>. DEFINE i == req[r].id
<1>1. Types /\ i \in Id
  <2>1. req[r].at # "idle"
    BY DEF LockStep, Get, Cancel, Put, At
  <2>. QED
    BY <2>1, Busy DEF Inv
<1>2. part[i] # Absent => Len(part[i]) \in Nat
  BY <1>1, LenProperties DEF Types
<1>3. CASE Get(r)
  <2>1. PICK s \in Nat : Answer(r, s)
    BY <1>3 DEF Get
  <2>2. req' \in [Slot -> Request]
    BY <1>1, <2>1, AnswerFacts
  <2>3. acked' \in [Id -> Nat]
    BY <1>1, <1>2, <1>3, AcknowledgeType DEF Get, Types
  <2>. QED
    BY <1>1, <1>3, <2>2, <2>3 DEF Get, Types
<1>4. CASE Cancel(r)
  <2>1. req' \in [Slot -> Request]
    BY <1>1, <1>4, AnswerFacts DEF Cancel
  <2>. QED
    BY <1>1, <1>4, <2>1 DEF Cancel, Types
<1>5. CASE Put(r)
  <2>1. acked' \in [Id -> Nat]
    BY <1>1, <1>2, <1>5, AcknowledgeType DEF Put, Types
  <2>2. (\E s \in Nat : Answer(r, s)) \/ Goto(r, "copy")
    BY <1>5 DEF Put
  <2>3. req' \in [Slot -> Request]
    BY <1>1, <2>2, AnswerFacts, GotoFacts
  <2>4. holder' \in [Id -> Slot \cup {Nobody}]
    BY <1>1, <1>5 DEF Put, Types
  <2>. QED
    BY <1>1, <1>5, <2>1, <2>3, <2>4 DEF Put, Types
<1>. QED
  BY <1>3, <1>4, <1>5 DEF LockStep

LEMMA ServerTypes ==
    ASSUME Inv, NEW r \in Slot, ServerStep(r)
    PROVE  Types'
<1>. DEFINE i == req[r].id
<1>1. /\ Types /\ Asks(r) /\ Work(r) /\ i \in Id
      /\ req[r] \in Request /\ req[r].written \in Nat /\ req[r].offset \in Nat
      /\ req[r].len \in Nat /\ size[i] \in Nat
  <2>1. req[r].at # "idle"
    BY DEF ServerStep, Publish, Lookup, LookupFile, Serve, CopyEnds, FormEnds,
           Finish, FinishFails, Register, At
  <2>. QED
    BY <2>1, Busy DEF Inv, IInv, Types, Request
<1>2. ASSUME \/ \E s \in Nat : Answer(r, s)
             \/ \E l \in {"serve", "get", "put", "delete", "lookupFile", "finish",
                          "register"} : Goto(r, l)
      PROVE  req' \in [Slot -> Request]
  BY <1>1, <1>2, AnswerFacts, GotoFacts
<1>3. CASE Publish(r)
  <2>1. req' \in [Slot -> Request]
    BY <1>2, <1>3 DEF Publish
  <2>. QED
    BY <1>1, <1>3, <2>1 DEF Publish, Types
<1>4. CASE Lookup(r)
  <2>1. \E l \in {"get", "put", "delete", "lookupFile"} : Goto(r, l)
    BY <1>1, <1>4 DEF Lookup, Asks, At
  <2>2. req' \in [Slot -> Request]
    BY <1>2, <2>1
  <2>. QED
    BY <1>1, <1>4, <2>2 DEF Lookup, Types
<1>5. CASE LookupFile(r)
  <2>1. acked' \in [Id -> Nat]
    BY <1>1, <1>5, AcknowledgeType DEF LookupFile, Types
  <2>2. Goto(r, "serve") \/ Answer(r, 200) \/ Answer(r, 404)
    BY <1>5 DEF LookupFile
  <2>3. req' \in [Slot -> Request]
    BY <1>2, <2>2
  <2>. QED
    BY <1>1, <1>5, <2>1, <2>3 DEF LookupFile, Types
<1>6. CASE Serve(r)
  <2>1. req' \in [Slot -> Request]
    BY <1>2, <1>6 DEF Serve
  <2>. QED
    BY <1>1, <1>6, <2>1 DEF Serve, Types
<1>7. CASE CopyEnds(r)
  <2>1. part[i] = Bytes(req[r].offset + req[r].written)
    BY <1>1, <1>7 DEF CopyEnds, Work, Copying
  <2>2. SubSeq(part[i], 1, req[r].offset) \in Seq(Nat)
    <3>1. /\ req[r].offset + req[r].written \in Nat
          /\ req[r].offset \in 0..(req[r].offset + req[r].written)
      BY <1>1
    <3>. QED
      BY <1>1, <2>1, <3>1, BytesCut, BytesType
  <2>3. part' \in [Id -> Seq(Nat) \cup {Absent}]
    BY <1>1, <1>7, <2>2 DEF CopyEnds, Cut, Types
  <2>4. acked' \in [Id -> Nat]
    <3>1. req[r].id \in Id /\ req[r].offset + req[r].written \in Nat
      BY <1>1
    <3>2. acked' = acked \/ Acknowledge(req[r].id, req[r].offset + req[r].written)
      BY <1>7 DEF CopyEnds
    <3>3. CASE acked' = acked
      BY <1>1, <3>3 DEF Types
    <3>4. CASE Acknowledge(req[r].id, req[r].offset + req[r].written)
      BY <1>1, <3>1, <3>4, AcknowledgeType
    <3>. QED
      BY <3>2, <3>3, <3>4
  <2>5. req' \in [Slot -> Request]
    BY <1>2, <1>7 DEF CopyEnds
  <2>6. holder' \in [Id -> Slot \cup {Nobody}]
    BY <1>1, <1>7, ReleaseType DEF CopyEnds, Types
  <2>. QED
    BY <1>1, <1>7, <2>3, <2>4, <2>5, <2>6, TouchFacts DEF CopyEnds, Types
<1>8. CASE FormEnds(r)
  <2>1. acked' \in [Id -> Nat]
    BY <1>1, <1>8, AcknowledgeType DEF FormEnds
  <2>2. req' \in [Slot -> Request]
    BY <1>2, <1>8 DEF FormEnds
  <2>. QED
    BY <1>1, <1>8, <2>1, <2>2 DEF FormEnds, Types
<1>9. CASE Finish(r)
  <2>1. req' \in [Slot -> Request]
    BY <1>2, <1>9 DEF Finish
  <2>. QED
    BY <1>1, <1>9, <2>1 DEF Finish, Types
<1>10. CASE FinishFails(r)
  <2>1. req' \in [Slot -> Request]
    BY <1>2, <1>10 DEF FinishFails
  <2>2. holder' \in [Id -> Slot \cup {Nobody}]
    BY <1>1, <1>10, ReleaseType DEF FinishFails
  <2>. QED
    BY <1>1, <1>10, <2>1, <2>2 DEF FinishFails, Types
<1>11. CASE Register(r)
  <2>1. acked' \in [Id -> Nat]
    BY <1>1, <1>11, AcknowledgeType DEF Register
  <2>2. req' \in [Slot -> Request]
    BY <1>2, <1>11 DEF Register
  <2>3. holder' \in [Id -> Slot \cup {Nobody}]
    BY <1>1, <1>11, ReleaseType DEF Register
  <2>. QED
    BY <1>1, <1>11, <2>1, <2>2, <2>3 DEF Register, Types
<1>. QED
  BY <1>3, <1>4, <1>5, <1>6, <1>7, <1>8, <1>9, <1>10, <1>11 DEF ServerStep

LEMMA OtherTypes ==
    ASSUME Types, PurgeStep \/ Crash \/ Restart \/ Tick \/ UNCHANGED vars
    PROVE  Types'
<1>0. NoPurge \in Cleanup
  BY DEF NoPurge, Cleanup
<1>1. CASE PurgeStart \/ PurgeFilesDone \/ PurgeEnds
  <2>1. purge' \in Cleanup
    <3>1. CASE PurgeStart
      BY <3>1 DEF Types, PurgeStart, NoPurge, Cleanup
    <3>2. CASE PurgeFilesDone
      BY <3>2 DEF Types, PurgeFilesDone, Cleanup
    <3>3. CASE PurgeEnds
      BY <1>0, <3>3 DEF PurgeEnds
    <3>. QED
      BY <1>1, <3>1, <3>2, <3>3
  <2>2. UNCHANGED <<up, maps, holder, disk, used, req, now, acked>>
    BY <1>1 DEF PurgeStart, PurgeFilesDone, PurgeEnds
  <2>. QED
    BY <2>1, <2>2 DEF Types
<1>2. CASE PurgeUpload
  <2>1. purge' \in Cleanup
    BY <1>2 DEF Types, PurgeUpload, Cleanup
  <2>2. uploads' \subseteq uploads /\ part' \in [Id -> Seq(Nat) \cup {Absent}]
    BY <1>2 DEF Types, PurgeUpload
  <2>3. UNCHANGED <<up, files, size, stamp, holder, final, used, req, now, acked>>
    BY <1>2 DEF PurgeUpload
  <2>. QED
    BY <2>1, <2>2, <2>3 DEF Types
<1>3. ASSUME NEW i \in Id, PurgeFile(i) \/ PurgeVisit(i) PROVE Types'
  <2>1. CASE PurgeFile(i)
    <3>1. purge' \in Cleanup
      BY <2>1 DEF Types, PurgeFile, Cleanup
    <3>2. files' \subseteq files /\ final' \in [Id -> Seq(Nat) \cup {Absent}]
      BY <2>1 DEF Types, PurgeFile
    <3>3. UNCHANGED <<up, uploads, size, stamp, holder, part, used, req, now, acked>>
      BY <2>1 DEF PurgeFile
    <3>. QED
      BY <3>1, <3>2, <3>3 DEF Types
  <2>2. CASE PurgeVisit(i)
    <3>1. purge' \in Cleanup
      BY <2>2 DEF Types, PurgeVisit, Cleanup
    <3>2. UNCHANGED <<up, maps, holder, disk, used, req, now, acked>>
      BY <2>2 DEF PurgeVisit
    <3>. QED
      BY <3>1, <3>2 DEF Types
  <2>. QED
    BY <1>3, <2>1, <2>2
<1>4. CASE Crash
  <2>1. up' \in BOOLEAN
    BY <1>4 DEF Crash
  <2>2. /\ uploads' = {} /\ files' = {}
        /\ holder' = [i \in Id |-> Nobody]
        /\ req' = [r \in Slot |-> Idle]
        /\ purge' = NoPurge
        /\ acked' = [i \in Id |-> 0]
        /\ UNCHANGED <<size, stamp, disk, used, now>>
    BY <1>4 DEF Crash
  <2>. QED
    BY <1>0, <2>1, <2>2, IdleType DEF Types
<1>5. CASE Restart
  <2>1. up' \in BOOLEAN
    BY <1>5 DEF Restart
  <2>2. /\ part' = [i \in Id |-> Absent] /\ final' = [i \in Id |-> Absent]
        /\ UNCHANGED <<maps, holder, used, req, purge, now, acked>>
    BY <1>5 DEF Restart
  <2>. QED
    BY <2>1, <2>2 DEF Types
<1>6. CASE Tick
  <2>1. now' \in Nat
    BY <1>6 DEF Tick, Types
  <2>2. UNCHANGED <<up, maps, holder, disk, used, req, purge, acked>>
    BY <1>6 DEF Tick
  <2>. QED
    BY <2>1, <2>2 DEF Types
<1>7. CASE UNCHANGED vars
  BY <1>7 DEF Types
<1>. QED
  BY <1>1, <1>2, <1>3, <1>4, <1>5, <1>6, <1>7 DEF PurgeStep

---------------------------------------------------------------------------
(* Most steps are local: they change at most one request and the data of at   *)
(* most one id, on which no other request works.                              *)

\* Nothing that Inv says of id i changes.
SameId(i) ==
    /\ i \in uploads' <=> i \in uploads
    /\ i \in files' <=> i \in files
    /\ i \in used' <=> i \in used
    /\ size'[i] = size[i] /\ holder'[i] = holder[i] /\ acked'[i] = acked[i]
    /\ part'[i] = part[i] /\ final'[i] = final[i]

\* The step of the requests R (one or none) upon the ids T (one or none).
Local(R, T) ==
    /\ up /\ up'
    /\ \A q \in R, s \in R : q = s
    /\ \A s \in Slot \ R : req'[s] = req[s] /\ (Owns(s) => req[s].id \notin T)
    /\ \A s \in R : /\ Owns(s) => req[s].id \in T
                    /\ Owns(s)' => req'[s].id \in T
    /\ \A i \in Id \ T : SameId(i)
    /\ \A i \in T : size[i] <= size'[i] /\ (Reached(i) => Reached(i)')
    /\ used \subseteq used'
    /\ purge'.uploads \subseteq purge.uploads
    /\ purge'.at = "lock" => purge.at = "lock" /\ purge'.id = purge.id

LEMMA LocalReached ==
    ASSUME Inv, Types', NEW R \in SUBSET Slot, NEW T \in SUBSET Id, Local(R, T)
    PROVE  \A i \in Id : Reached(i) => Reached(i)'
<1>. SUFFICES ASSUME NEW i \in Id, Reached(i), i \notin T PROVE Reached(i)'
  BY DEF Local
<1>1. i \in used' /\ size'[i] # 0
  BY DEF Reached, Local, SameId
<1>2. ASSUME NEW r \in Slot, req'[r].id = i
      PROVE  req'[r].at \notin {"publish", "form"}
  <2>1. CASE r \in R
    BY <1>2, <2>1 DEF Local, Owns
  <2>2. CASE r \notin R
    BY <1>2, <2>2 DEF Local, Reached
  <2>. QED
    BY <2>1, <2>2
<1>. QED
  BY <1>1, <1>2 DEF Reached

\* A local step keeps what the other requests rely on.
LEMMA LocalRequests ==
    ASSUME Inv, Types', NEW R \in SUBSET Slot, NEW T \in SUBSET Id, Local(R, T),
           NEW s \in Slot \ R
    PROVE  Asks(s)' /\ Work(s)'
<1>. DEFINE i == req[s].id
<1>1. Types /\ Asks(s) /\ Work(s) /\ req'[s] = req[s]
  BY DEF Inv, IInv, Local
<1>2. i \in Id => size[i] <= size'[i] /\ size[i] \in Nat /\ size'[i] \in Nat
  BY DEF Local, SameId, Inv, Types
<1>3. i \in used => i \in Id
  BY <1>1 DEF Types
<1>4. req[s].offset \in Nat
  BY <1>1 DEF Types, Request
<1>5. req[s].op = "put" => req[s].offset <= size'[i]
  BY <1>1, <1>2, <1>4 DEF Asks
<1>6. i \in Id => (Reached(i) => Reached(i)')
  BY <1>1, LocalReached DEF Reached
<1>7. i \in used => i \in used'
  BY DEF Local
<1>8. Asks(s)'
  <2>1. req[s].at # "idle" => i \in used'
    BY <1>1, <1>7 DEF Asks
  <2>2. req[s].op = "put" => i \in Id /\ req[s].offset <= size'[i]
    BY <1>1, <1>5 DEF Asks
  <2>3. req[s].at \in {"get", "put", "delete"} => Reached(i)'
    BY <1>1, <1>3, <1>6 DEF Asks
  <2>4. Owns(s) /\ req[s].op = "put" => Reached(i)'
    BY <1>1, <1>3, <1>6 DEF Asks
  <2>. QED
    BY <1>1, <2>1, <2>2, <2>3, <2>4 DEF Asks, Owns, Reached
<1>9. Work(s)'
  <2>1. CASE Owns(s)
    <3>1. i \in Id /\ i \notin T
      BY <1>1, <1>3, <2>1 DEF Local, Asks, Owns
    <3>2. SameId(i)
      BY <3>1 DEF Local
    <3>3. (At(s, "publish") => Publishing(s)) => (At(s, "publish") => Publishing(s))'
      BY <1>1, <3>2 DEF At, Publishing, Fresh, SameId
    <3>4. (At(s, "form") => Forming(s)) => (At(s, "form") => Forming(s))'
      BY <1>1, <3>2 DEF At, Forming, Fresh, SameId
    <3>5. (At(s, "copy") => Copying(s)) => (At(s, "copy") => Copying(s))'
      BY <1>1, <3>2 DEF At, Copying, Holds, Limit, SameId
    <3>6. (At(s, "finish") => Finishing(s)) => (At(s, "finish") => Finishing(s))'
      BY <1>1, <3>2 DEF At, Finishing, Fresh, Holds, SameId
    <3>7. (At(s, "register") => Registering(s)) => (At(s, "register") => Registering(s))'
      BY <1>1, <3>2 DEF At, Registering, SameId
    <3>. QED
      BY <1>1, <3>3, <3>4, <3>5, <3>6, <3>7 DEF Work
  <2>2. CASE ~Owns(s)
    BY <1>1, <2>2 DEF Work, Owns, At
  <2>. QED
    BY <2>1, <2>2
<1>. QED
  BY <1>8, <1>9

LEMMA LocalServing ==
    ASSUME Inv, Types', NEW R \in SUBSET Slot, NEW T \in SUBSET Id, Local(R, T),
           NEW i \in Id \ T, 
           NEW P \in SUBSET {"publish", "form", "copy", "finish", "register"}
    PROVE  Serving(i, P)' <=> Serving(i, P)
<1>1. ASSUME NEW r \in Slot
      PROVE  (req'[r].id = i /\ req'[r].at \in P) <=> (req[r].id = i /\ req[r].at \in P)
  <2>1. CASE r \in R
    BY <2>1 DEF Local, Owns
  <2>2. CASE r \notin R
    BY <2>2 DEF Local
  <2>. QED
    BY <2>1, <2>2
<1>. QED
  BY <1>1 DEF Serving

LEMMA LocalState ==
    ASSUME Inv, Types', NEW R \in SUBSET Slot, NEW T \in SUBSET Id, Local(R, T),
           NEW i \in Id \ T
    PROVE  State(i)'
<1>1. State(i) /\ SameId(i) /\ up /\ up'
  BY DEF Inv, IInv, Local
<1>2. Reached(i) => Reached(i)'
  BY LocalReached
<1>3. /\ Serving(i, {"copy"})' <=> Serving(i, {"copy"})
      /\ Serving(i, {"publish", "finish"})' <=> Serving(i, {"publish", "finish"})
      /\ Serving(i, {"register", "form"})' <=> Serving(i, {"register", "form"})
  BY LocalServing
<1>4. Unused(i)'
  BY <1>1 DEF State, Unused, Fresh, SameId
<1>5. Uploaded(i)'
  BY <1>1, <1>2, <1>3 DEF State, Uploaded, SameId
<1>6. Filed(i)'
  BY <1>1 DEF State, Filed, SameId
<1>7. Owned(i)'
  BY <1>1, <1>3 DEF State, Owned, SameId
<1>. QED
  BY <1>4, <1>5, <1>6, <1>7 DEF State

\* A local step keeps the invariant if it keeps it for its request and its id.
LEMMA LocalStep ==
    ASSUME Inv, Types', NEW R \in SUBSET Slot, NEW T \in SUBSET Id, Local(R, T),
           (\A r \in R : Asks(r) /\ Work(r))', (\A i \in T : State(i))'
    PROVE  Inv'
<1>1. (\A r \in Slot : Asks(r) /\ Work(r))'
  BY LocalRequests
<1>2. (\A i \in Id : State(i))'
  BY LocalState
<1>3. Alone'
  <2>. SUFFICES ASSUME NEW r \in Slot, NEW s \in Slot, Owns(r)', Owns(s)',
                       req'[r].id = req'[s].id
                PROVE  r = s
    BY DEF Alone
  <2>1. CASE r \in R /\ s \in R
    BY <2>1 DEF Local
  <2>2. CASE r \notin R /\ s \notin R
    BY <2>2 DEF Local, Inv, IInv, Alone, Owns
  <2>3. CASE r \in R /\ s \notin R
    BY <2>3 DEF Local, Owns
  <2>4. CASE r \notin R /\ s \in R
    BY <2>4 DEF Local, Owns
  <2>. QED
    BY <2>1, <2>2, <2>3, <2>4
<1>4. Down'
  BY DEF Local, Down
<1>5. Purging'
  <2>1. \A i \in Id : Reached(i) => Reached(i)'
    BY LocalReached
  <2>2. Purging /\ purge.uploads \subseteq Id
    BY DEF Inv, IInv, Types, Cleanup
  <2>3. /\ purge'.uploads \subseteq purge.uploads
        /\ purge'.at = "lock" => purge.at = "lock" /\ purge'.id = purge.id
    BY DEF Local
  <2>. QED
    BY <2>1, <2>2, <2>3 DEF Purging
<1>. QED
  BY <1>1, <1>2, <1>3, <1>4, <1>5 DEF Inv, IInv

\* A step of a request that works on no bytes, which tells the client nothing new.
LEMMA QuietStep ==
    ASSUME Inv, Types', NEW r \in Slot, up, ~Owns(r), ~Owns(r)', Asks(r)',
           \A q \in Slot \ {r} : req'[q] = req[q],
           UNCHANGED <<up, uploads, files, size, holder, disk, used, purge, acked>>
    PROVE  Inv'
<1>1. Local({r}, {})
  BY DEF Local, SameId
<1>2. Work(r)'
  BY DEF Work, Owns, At
<1>. QED
  BY <1>1, <1>2, LocalStep

\* A request that has been answered owns nothing.
LEMMA AnswerAsks ==
    ASSUME Inv, Types', NEW r \in Slot, req[r].at # "idle", NEW s \in Nat, Answer(r, s),
           used \subseteq used'
    PROVE  Asks(r)' /\ Work(r)' /\ ~Owns(r)'
<1>1. /\ req'[r].at = "answered" /\ req'[r].op = req[r].op /\ req'[r].id = req[r].id
      /\ req'[r].offset = 0
  BY AnswerFacts DEF Inv
<1>2. req[r].id \in used' /\ req[r].id \in Id
  BY Busy
<1>3. size'[req[r].id] \in Nat
  BY <1>2 DEF Types
<1>. QED
  BY <1>1, <1>2, <1>3 DEF Asks, Work, Owns, At

\* Who works on the bytes of an upload in the map holds its lock ...
LEMMA FreeSole ==
    ASSUME Inv, NEW i \in Id, Reached(i), Free(i), NEW s \in Slot, Owns(s)
    PROVE  req[s].id # i
<1>. SUFFICES ASSUME req[s].id = i PROVE FALSE
  OBVIOUS
<1>1. Work(s) /\ s # Nobody
  BY UploadsAssumption DEF Inv, IInv
<1>2. req[s].at \notin {"publish", "form"} /\ size[i] # 0 /\ holder[i] = Nobody
  BY DEF Reached, Free
<1>3. ~At(s, "copy")
  BY <1>1, <1>2 DEF Work, Copying, Holds
<1>4. ~At(s, "finish")
  BY <1>1, <1>2 DEF Work, Finishing, Holds
<1>5. ~At(s, "register")
  BY <1>1, <1>2 DEF Work, Registering
<1>. QED
  BY <1>2, <1>3, <1>4, <1>5 DEF Owns, At

\* ... no one works on those of a registered file ...
LEMMA FileSole ==
    ASSUME Inv, NEW i \in files, NEW s \in Slot, Owns(s)
    PROVE  req[s].id # i
<1>1. Work(s)
  BY DEF Inv, IInv
<1>. QED
  BY <1>1 DEF Work, Owns, At, Publishing, Forming, Copying, Finishing, Registering, Fresh, Holds

\* ... and no one on those of an id that has just been drawn.
LEMMA FreshSole ==
    ASSUME Inv, NEW i \in Id \ used, NEW s \in Slot, Owns(s)
    PROVE  req[s].id # i
BY DEF Inv, IInv, Asks, Owns

\* A session that has its .part file and is not locked is in the map.
LEMMA FreeUploaded ==
    ASSUME Inv, up, NEW i \in Id, Reached(i), Free(i), part[i] # Absent
    PROVE  i \in uploads /\ i \notin files /\ part[i] = Bytes(Len(part[i]))
           /\ Len(part[i]) \in Nat /\ Len(part[i]) <= size[i] /\ acked[i] <= Len(part[i])
<1>1. ASSUME NEW s \in Slot, req[s].id = i, req[s].at \in {"publish", "finish", "copy"}
      PROVE  FALSE
  BY <1>1, FreeSole DEF Owns
<1>2. ~Serving(i, {"publish", "finish"}) /\ ~Serving(i, {"copy"})
  BY <1>1 DEF Serving
<1>3. State(i)
  BY DEF Inv, IInv
<1>4. i \in uploads
  BY <1>2, <1>3 DEF State, Owned, Reached
<1>5. Len(part[i]) \in Nat
  BY LenProperties DEF Inv, Types
<1>. QED
  BY <1>2, <1>3, <1>4, <1>5 DEF State, Uploaded

---------------------------------------------------------------------------
(* The invariant is kept *)

LEMMA CloseBegin ==
    ASSUME Inv, Types', NEW r \in Slot, Close(r) \/ Begin(r)
    PROVE  Inv'
<1>1. req[r] \in Request /\ req \in [Slot -> Request]
  BY DEF Inv, Types
<1>2. CASE Close(r)
  <2>1. up /\ ~Owns(r)
    BY <1>2, Busy DEF Close, At, Owns
  <2>2. req'[r] = Idle /\ \A q \in Slot \ {r} : req'[q] = req[q]
    BY <1>1, <1>2 DEF Close
  <2>3. ~Owns(r)' /\ Asks(r)'
    BY <2>2 DEF Idle, Owns, Asks
  <2>. QED
    BY <1>2, <2>1, <2>2, <2>3, QuietStep DEF Close
<1>3. CASE Begin(r)
  <2>1. PICK op \in Ops \ {"create", "form"}, i \in used :
        \E o \in (IF op = "put" THEN 0..size[i] ELSE {0}) :
        \E n \in (IF op = "put" THEN 0..(ChunkSize + 1) ELSE {0}) :
          req' = [req EXCEPT ![r] =
            [Idle EXCEPT !.at = "lookup", !.op = op, !.id = i, !.offset = o, !.len = n]]
    BY <1>3 DEF Begin
  <2>2. PICK o \in (IF op = "put" THEN 0..size[i] ELSE {0}),
             n \in (IF op = "put" THEN 0..(ChunkSize + 1) ELSE {0}) :
          req' = [req EXCEPT ![r] =
            [Idle EXCEPT !.at = "lookup", !.op = op, !.id = i, !.offset = o, !.len = n]]
    BY <2>1
  <2>3. /\ req'[r].at = "lookup" /\ req'[r].op = op /\ req'[r].id = i /\ req'[r].offset = o
        /\ req'[r].written = 0 /\ \A q \in Slot \ {r} : req'[q] = req[q]
    BY <1>1, <2>2 DEF Idle
  <2>4. i \in Id /\ size[i] \in Nat /\ UNCHANGED <<size, used>>
    BY <1>3 DEF Begin, Inv, Types
  <2>5. op \in {"get", "put", "delete", "download"} /\ (op = "put" => o <= size[i])
    BY <2>4, UploadsAssumption
  <2>6. Asks(r)' /\ ~Owns(r)'
    BY <2>3, <2>4, <2>5 DEF Asks, Owns
  <2>7. up /\ ~Owns(r)
    BY <1>3 DEF Begin, At, Owns
  <2>. QED
    BY <1>3, <2>3, <2>6, <2>7, QuietStep DEF Begin
<1>. QED
  BY <1>2, <1>3

LEMMA CreateKeeps ==
    ASSUME Inv, Types', NEW r \in Slot, Create(r)
    PROVE  Inv'
<1>1. PICK i \in Id \ used, n \in Sizes :
        /\ used' = used \cup {i}
        /\ size' = [size EXCEPT ![i] = n]
        /\ part' = [part EXCEPT ![i] = <<>>]
        /\ req' = [req EXCEPT ![r] =
             [Idle EXCEPT !.at = IF n = 0 THEN "finish" ELSE "publish",
                          !.op = "create", !.id = i]]
  BY DEF Create
<1>2. up /\ UNCHANGED <<up, uploads, files, holder, final, purge, acked>> /\ At(r, "idle")
  BY DEF Create
<1>3. n \in Nat /\ Types /\ State(i)
  BY UploadsAssumption DEF Inv, IInv
<1>4. /\ req'[r].at = (IF n = 0 THEN "finish" ELSE "publish") /\ req'[r].op = "create"
      /\ req'[r].id = i /\ \A q \in Slot \ {r} : req'[q] = req[q]
  BY <1>1, <1>3 DEF Types, Idle
<1>5. size'[i] = n /\ part'[i] = <<>> /\ i \in used'
  BY <1>1, <1>3 DEF Types
<1>6. /\ i \notin uploads /\ i \notin files /\ acked[i] = 0 /\ size[i] = 0
      /\ final[i] = Absent
  BY <1>3 DEF State, Unused, Fresh
<1>7. Local({r}, {i})
  <2>1. \A s \in Slot : Owns(s) => req[s].id # i
    BY FreshSole
  <2>2. ~Owns(r)
    BY <1>2 DEF At, Owns
  <2>3. \A j \in Id \ {i} : SameId(j)
    BY <1>1, <1>2, <1>3 DEF SameId, Types
  <2>4. size[i] <= size'[i] /\ ~Reached(i)
    BY <1>3, <1>5, <1>6 DEF Reached
  <2>. QED
    BY <1>1, <1>2, <1>4, <2>1, <2>2, <2>3, <2>4 DEF Local
<1>8. Asks(r)' /\ Work(r)'
  <2>1. Asks(r)'
    BY <1>4, <1>5 DEF Asks
  <2>2. n # 0 => Publishing(r)'
    BY <1>2, <1>4, <1>5, <1>6 DEF Publishing, Fresh
  <2>3. n = 0 => Finishing(r)'
    BY <1>2, <1>4, <1>5, <1>6 DEF Finishing, Fresh
  <2>. QED
    BY <1>4, <2>1, <2>2, <2>3 DEF Work, At
<1>9. State(i)'
  <2>1. Serving(i, {"publish", "finish"})'
    BY <1>4 DEF Serving
  <2>. QED
    BY <1>2, <1>5, <1>6, <2>1 DEF State, Unused, Uploaded, Filed, Owned
<1>. QED
  BY <1>7, <1>8, <1>9, LocalStep

LEMMA FormKeeps ==
    ASSUME Inv, Types', NEW r \in Slot, Form(r)
    PROVE  Inv'
<1>1. PICK i \in Id \ used, n \in 0..(MaxUpload + 1) :
        /\ used' = used \cup {i}
        /\ final' = [final EXCEPT ![i] = <<>>]
        /\ req' = [req EXCEPT ![r] =
             [Idle EXCEPT !.at = "form", !.op = "form", !.id = i, !.len = n]]
  BY DEF Form
<1>2. /\ up /\ UNCHANGED <<up, uploads, files, size, holder, part, purge, acked>>
      /\ At(r, "idle")
  BY DEF Form
<1>3. n \in Nat /\ Types /\ State(i)
  BY UploadsAssumption DEF Inv, IInv
<1>4. /\ req'[r].at = "form" /\ req'[r].op = "form" /\ req'[r].written = 0
      /\ req'[r].len = n /\ req'[r].id = i /\ \A q \in Slot \ {r} : req'[q] = req[q]
  BY <1>1, <1>3 DEF Types, Idle
<1>5. final'[i] = Bytes(0) /\ i \in used'
  BY <1>1, <1>3, NoBytes DEF Types
<1>6. Fresh(i) /\ size[i] = 0 /\ part[i] = Absent
  BY <1>3 DEF State, Unused
<1>7. Local({r}, {i})
  <2>1. \A s \in Slot : Owns(s) => req[s].id # i
    BY FreshSole
  <2>2. ~Owns(r)
    BY <1>2 DEF At, Owns
  <2>3. \A j \in Id \ {i} : SameId(j)
    BY <1>1, <1>2, <1>3 DEF SameId, Types
  <2>4. size[i] <= size'[i] /\ ~Reached(i)
    BY <1>2, <1>6 DEF Reached
  <2>. QED
    BY <1>1, <1>2, <1>4, <2>1, <2>2, <2>3, <2>4 DEF Local
<1>8. Asks(r)' /\ Work(r)'
  BY <1>2, <1>3, <1>4, <1>5, <1>6 DEF Asks, Work, At, Owns, Forming, Fresh
<1>9. State(i)'
  <2>1. Serving(i, {"register", "form"})'
    BY <1>4 DEF Serving
  <2>. QED
    BY <1>2, <1>5, <1>6, <2>1 DEF State, Unused, Uploaded, Filed, Owned, Fresh
<1>. QED
  BY <1>7, <1>8, <1>9, LocalStep

\* The step of a request on the bytes it owns.
LEMMA OwnerLocal ==
    ASSUME Inv, Types', NEW r \in Slot, Owns(r), NEW i \in Id, i = req[r].id,
           req'[r].id = i, \A q \in Slot \ {r} : req'[q] = req[q],
           req'[r].at \notin {"publish", "form"} \/ req'[r].at = req[r].at,
           \A j \in Id \ {i} : SameId(j),
           size'[i] = size[i] \/ At(r, "form"), UNCHANGED <<up, used>>,
           purge'.uploads = purge.uploads, purge'.at = purge.at, purge'.id = purge.id
    PROVE  Local({r}, {i})
<1>1. up /\ req[r].at # "idle" /\ Work(r)
  BY Busy DEF Owns, Inv, IInv
<1>2. \A s \in Slot \ {r} : Owns(s) => req[s].id # i
  BY DEF Inv, IInv, Alone
<1>3. size[i] \in Nat /\ size'[i] \in Nat
  BY DEF Inv, Types
<1>4. size[i] <= size'[i]
  <2>1. At(r, "form") => size[i] = 0
    BY <1>1 DEF Work, Forming
  <2>. QED
    BY <1>3, <2>1
<1>5. Reached(i) => Reached(i)'
  <2>1. Reached(i) => size'[i] = size[i]
    BY DEF Reached, At
  <2>. QED
    BY <2>1 DEF Reached
<1>. QED
  BY <1>1, <1>2, <1>4, <1>5 DEF Local

\* The owner of an id is the only request to tell where its bytes are.
LEMMA OwnerServing ==
    ASSUME Inv, NEW r \in Slot, Owns(r), NEW i \in Id, i = req[r].id,
           NEW P \in SUBSET {"publish", "form", "copy", "finish", "register"}
    PROVE  /\ Serving(i, P) <=> req[r].at \in P
           /\ req'[r].id = i /\ (\A q \in Slot \ {r} : req'[q] = req[q])
              => (Serving(i, P)' <=> req'[r].at \in P)
<1>1. \A s \in Slot \ {r} : req[s].id = i => req[s].at \notin P
  BY DEF Inv, IInv, Alone, Owns
<1>. QED
  BY <1>1 DEF Serving

LEMMA PublishKeeps ==
    ASSUME Inv, Types', NEW r \in Slot, Publish(r)
    PROVE  Inv'
<1>0. PICK i \in Id : i = req[r].id
  BY Busy DEF Publish, At
<1>1. Owns(r) /\ i \in used /\ up /\ Work(r) /\ State(i) /\ Types
  BY <1>0, Busy DEF Publish, At, Owns, Inv, IInv
<1>2. /\ uploads' = uploads \cup {i}
      /\ UNCHANGED <<up, files, size, holder, disk, used, purge, acked>>
      /\ At(r, "publish")
  BY <1>0 DEF Publish
<1>3. /\ req'[r].at = "answered" /\ req'[r].id = i
      /\ \A q \in Slot \ {r} : req'[q] = req[q]
  BY <1>0, <1>1, AnswerFacts DEF Publish
<1>4. Fresh(i) /\ size[i] # 0 /\ part[i] = <<>>
  BY <1>0, <1>1, <1>2 DEF Work, Publishing
<1>5. Local({r}, {i})
  BY <1>0, <1>1, <1>2, <1>3, OwnerLocal DEF SameId
<1>6. Asks(r)' /\ Work(r)'
  BY <1>1, <1>2, AnswerAsks DEF Publish, At
<1>7. State(i)'
  <2>1. \A s \in Slot : req'[s].id = i => req'[s].at \notin {"publish", "form"}
    BY <1>0, <1>1, <1>3 DEF Inv, IInv, Alone, Owns
  <2>2. Reached(i)'
    BY <1>1, <1>2, <1>4, <2>1 DEF Reached
  <2>3. /\ part'[i] # Absent /\ part'[i] = Bytes(Len(part'[i])) /\ acked'[i] = 0
        /\ Len(part'[i]) = 0
    BY <1>2, <1>4, BytesType, NoBytes DEF Fresh
  <2>4. size'[i] \in Nat
    BY <1>1 DEF Types
  <2>5. Uploaded(i)'
    BY <1>2, <1>4, <2>2, <2>3, <2>4 DEF Uploaded, Fresh
  <2>6. final'[i] = Absent
    <3>1. ~Serving(i, {"register", "form"})
      BY <1>0, <1>1, <1>2, OwnerServing DEF At
    <3>. QED
      BY <1>1, <1>2, <1>4, <3>1 DEF State, Owned, Fresh
  <2>. QED
    BY <1>1, <1>2, <1>4, <2>5, <2>6 DEF State, Unused, Filed, Owned, Fresh
<1>. QED
  BY <1>1, <1>5, <1>6, <1>7, LocalStep

LEMMA FinishKeeps ==
    ASSUME Inv, Types', NEW r \in Slot, Finish(r)
    PROVE  Inv'
<1>0. PICK i \in Id : i = req[r].id
  BY Busy DEF Finish, At
<1>1. Owns(r) /\ i \in used /\ up /\ Work(r) /\ Asks(r) /\ State(i) /\ Types
  BY <1>0, Busy DEF Finish, At, Owns, Inv, IInv
<1>2. /\ final' = [final EXCEPT ![i] = part[i]] /\ part' = [part EXCEPT ![i] = Absent]
      /\ uploads' = uploads \ {i} /\ At(r, "finish")
      /\ UNCHANGED <<up, files, size, holder, used, purge, acked>>
  BY <1>0 DEF Finish
<1>3. /\ req'[r].at = "register" /\ req'[r].id = i /\ req'[r].op = req[r].op
      /\ req'[r].offset = req[r].offset /\ \A q \in Slot \ {r} : req'[q] = req[q]
  BY <1>0, <1>1, GotoFacts DEF Finish
<1>4. /\ i \notin files /\ acked[i] <= size[i] /\ part[i] = Bytes(size[i])
      /\ \/ req[r].op = "create" /\ size[i] = 0
         \/ req[r].op = "put" /\ holder[i] = r
  <2>1. size[i] \in Nat
    BY <1>1 DEF Types
  <2>. QED
    BY <1>0, <1>1, <1>2, <2>1, NoBytes DEF Work, Finishing, Fresh, Holds
<1>5. final'[i] = part[i] /\ part'[i] = Absent /\ \A j \in Id \ {i} : SameId(j)
  BY <1>1, <1>2 DEF Types, SameId
<1>6. Local({r}, {i})
  BY <1>0, <1>1, <1>2, <1>3, <1>5, OwnerLocal
<1>7. Asks(r)' /\ Work(r)'
  <2>1. Registering(r)'
    BY <1>2, <1>3, <1>4, <1>5 DEF Registering
  <2>2. Reached(i) => Reached(i)'
    BY <1>6 DEF Local
  <2>3. Asks(r)'
    BY <1>0, <1>1, <1>2, <1>3, <2>2 DEF Asks, Owns, Reached
  <2>. QED
    BY <1>3, <2>1, <2>3 DEF Work, At
<1>8. State(i)'
  <2>1. Serving(i, {"register", "form"})'
    BY <1>3 DEF Serving
  <2>. QED
    BY <1>1, <1>2, <1>4, <1>5, <2>1 DEF State, Unused, Uploaded, Filed, Owned
<1>. QED
  BY <1>1, <1>6, <1>7, <1>8, LocalStep

LEMMA FinishFailsKeeps ==
    ASSUME Inv, Types', NEW r \in Slot, FinishFails(r)
    PROVE  Inv'
<1>0. PICK i \in Id : i = req[r].id
  BY Busy DEF FinishFails, At
<1>1. Owns(r) /\ i \in used /\ up /\ Work(r) /\ State(i) /\ Types
  BY <1>0, Busy DEF FinishFails, At, Owns, Inv, IInv
<1>2. /\ UNCHANGED <<up, uploads, files, size, disk, used, purge, acked>>
      /\ At(r, "finish")
  BY DEF FinishFails
<1>3. /\ req'[r].at = "answered" /\ req'[r].id = i
      /\ \A q \in Slot \ {r} : req'[q] = req[q]
  BY <1>0, <1>1, AnswerFacts DEF FinishFails
<1>4. \A j \in Id \ {i} : SameId(j)
  BY <1>0, <1>1, <1>2, ReleaseType DEF FinishFails, SameId
<1>5. Local({r}, {i})
  BY <1>0, <1>1, <1>2, <1>3, <1>4, OwnerLocal
<1>6. Asks(r)' /\ Work(r)'
  BY <1>1, <1>2, AnswerAsks DEF FinishFails, At
<1>7. State(i)'
  <2>1. ~Serving(i, {"copy"}) /\ ~Serving(i, {"register", "form"})
    BY <1>0, <1>1, <1>2, OwnerServing DEF At
  <2>2. size[i] = 0 \/ i \in uploads
    BY <1>0, <1>1, <1>2 DEF Work, Finishing, Holds
  <2>3. Reached(i) => Reached(i)'
    BY <1>5 DEF Local
  <2>. QED
    BY <1>1, <1>2, <2>1, <2>2, <2>3 DEF State, Unused, Uploaded, Filed, Owned, Fresh
<1>. QED
  BY <1>1, <1>5, <1>6, <1>7, LocalStep

LEMMA RegisterKeeps ==
    ASSUME Inv, Types', NEW r \in Slot, Register(r)
    PROVE  Inv'
<1>0. PICK i \in Id : i = req[r].id
  BY Busy DEF Register, At
<1>1. Owns(r) /\ i \in used /\ up /\ Work(r) /\ State(i) /\ Types /\ size[i] \in Nat
  BY <1>0, Busy DEF Register, At, Owns, Inv, IInv, Types
<1>2. /\ files' = files \cup {i} /\ At(r, "register")
      /\ UNCHANGED <<up, uploads, size, disk, used, purge>>
  BY <1>0 DEF Register
<1>3. /\ req'[r].at = "answered" /\ req'[r].id = i
      /\ \A q \in Slot \ {r} : req'[q] = req[q]
  BY <1>0, <1>1, AnswerFacts DEF Register
<1>4. /\ acked'[i] = Max2(acked[i], size[i])
      /\ \A j \in Id \ {i} : acked'[j] = acked[j] /\ holder'[j] = holder[j]
  BY <1>0, <1>1, AcknowledgeType, ReleaseType DEF Register
<1>5. \A j \in Id \ {i} : SameId(j)
  BY <1>1, <1>2, <1>4 DEF SameId
<1>6. Local({r}, {i})
  BY <1>0, <1>1, <1>2, <1>3, <1>5, OwnerLocal
<1>7. Asks(r)' /\ Work(r)'
  BY <1>1, <1>2, AnswerAsks DEF Register, At
<1>8. State(i)'
  <2>1. /\ i \notin uploads /\ acked[i] <= size[i]
        /\ part[i] = Absent /\ final[i] = Bytes(size[i])
    BY <1>0, <1>1, <1>2 DEF Work, Registering
  <2>2. acked'[i] <= size[i]
    BY <1>1, <1>4, <2>1 DEF Max2, Types
  <2>. QED
    BY <1>1, <1>2, <2>1, <2>2 DEF State, Unused, Uploaded, Filed, Owned
<1>. QED
  BY <1>1, <1>6, <1>7, <1>8, LocalStep

\* What a PUT that holds the lock knows.
LEMMA CopyFacts ==
    ASSUME Inv, NEW r \in Slot, At(r, "copy"), NEW i \in Id, i = req[r].id
    PROVE  /\ Owns(r) /\ i \in used /\ up /\ Reached(i) /\ State(i)
           /\ i \in uploads /\ i \notin files /\ holder[i] = r /\ req[r].op = "put"
           /\ req[r].offset \in Nat /\ req[r].written \in Nat /\ size[i] \in Nat
           /\ acked[i] \in Nat /\ acked[i] <= req[r].offset /\ req[r].offset <= size[i]
           /\ Limit(r) \in Nat /\ req[r].offset + Limit(r) <= size[i]
           /\ part[i] = Bytes(req[r].offset + req[r].written)
<1>1. Owns(r) /\ Asks(r) /\ Work(r) /\ State(i) /\ Types
  BY DEF At, Owns, Inv, IInv
<1>2. i \in used /\ up
  BY Busy DEF At
<1>3. Copying(r) /\ req[r].op = "put" /\ Reached(i)
  BY <1>1 DEF Work, Asks, At
<1>4. /\ req[r].offset \in Nat /\ req[r].written \in Nat /\ size[i] \in Nat
      /\ acked[i] \in Nat
  BY <1>1 DEF Types, Request
<1>5. req[r].offset <= size[i]
  BY <1>1, <1>3 DEF Asks
<1>6. Limit(r) \in Nat /\ req[r].offset + Limit(r) <= size[i]
  BY <1>4, <1>5, UploadsAssumption DEF Limit, Min2
<1>. QED
  BY <1>1, <1>2, <1>3, <1>4, <1>5, <1>6 DEF Copying, Holds

\* The state of an upload after a step of the PUT that holds its lock.
LEMMA CopyState ==
    ASSUME Inv, Types', NEW r \in Slot, At(r, "copy"), NEW i \in Id, i = req[r].id,
           Local({r}, {i}), req'[r].id = i,
           i \in uploads', UNCHANGED <<files, size, final, used>>,
           NEW n \in Nat, part'[i] = Bytes(n), acked'[i] <= n,
           req'[r].at = "copy" \/ n <= size[i],
           req'[r].at \notin {"register", "form"}
    PROVE  State(i)'
<1>1. Reached(i)' /\ i \notin files /\ i \in used /\ State(i) /\ up
  BY CopyFacts DEF Local
<1>2. part'[i] # Absent /\ Len(part'[i]) = n
  BY BytesType
<1>3. \A q \in Slot \ {r} : req'[q] = req[q]
  BY DEF Local
<1>4. req'[r].at = "copy" => Serving(i, {"copy"})'
  BY DEF Serving
<1>5. Uploaded(i)'
  BY <1>1, <1>2, <1>4 DEF Uploaded
<1>6. final[i] = Absent
  <2>1. ~Serving(i, {"register", "form"})
    BY CopyFacts, OwnerServing DEF At
  <2>. QED
    BY <1>1, <2>1 DEF State, Owned
<1>. QED
  BY <1>1, <1>5, <1>6 DEF State, Unused, Filed, Owned

LEMMA CopyKeeps ==
    ASSUME Inv, Types', NEW r \in Slot, Copy(r)
    PROVE  Inv'
<1>0. PICK i \in Id : i = req[r].id
  BY Busy DEF Copy, At
<1>. DEFINE o == req[r].offset
            w == req[r].written
<1>1. At(r, "copy") /\ w + 1 <= Limit(r) + 1
  <2>1. At(r, "copy") /\ w + 1 <= Min2(req[r].len, Limit(r) + 1)
    BY DEF Copy
  <2>2. w \in Nat /\ Limit(r) \in Nat
    BY <1>0, <2>1, CopyFacts
  <2>3. req[r].len \in Nat
    BY DEF Inv, Types, Request
  <2>. QED
    BY <2>1, <2>2, <2>3 DEF Min2
<1>2. /\ Owns(r) /\ i \in used /\ Reached(i) /\ i \in uploads /\ i \notin files
      /\ holder[i] = r /\ req[r].op = "put" /\ o \in Nat /\ w \in Nat /\ size[i] \in Nat
      /\ acked[i] \in Nat /\ acked[i] <= o /\ o <= size[i] /\ part[i] = Bytes(o + w)
  BY <1>0, <1>1, CopyFacts
<1>3. UNCHANGED <<up, uploads, files, size, holder, final, used, purge, acked>>
  BY DEF Copy
<1>4. /\ req'[r] = [req[r] EXCEPT !.written = w + 1]
      /\ \A q \in Slot \ {r} : req'[q] = req[q]
  BY DEF Copy, Inv, Types
<1>5. /\ req'[r].at = "copy" /\ req'[r].id = i /\ req'[r].op = "put"
      /\ req'[r].offset = o /\ req'[r].written = w + 1
  <2>1. req[r] \in Request
    BY DEF Inv, Types
  <2>. QED
    BY <1>0, <1>1, <1>2, <1>4, <2>1 DEF At, Request
<1>6. part'[i] = Bytes(o + (w + 1)) /\ \A j \in Id \ {i} : part'[j] = part[j]
  <2>1. part' = [part EXCEPT ![i] = Append(part[i], o + (w + 1))]
    BY <1>0 DEF Copy
  <2>2. o + w \in Nat /\ o + (w + 1) = (o + w) + 1
    BY <1>2
  <2>3. Append(Bytes(o + w), o + (w + 1)) = Bytes(o + (w + 1))
    BY <2>2, BytesAppend
  <2>. QED
    BY <1>2, <2>1, <2>3 DEF Inv, Types
<1>7. Local({r}, {i})
  <2>1. \A j \in Id \ {i} : SameId(j)
    BY <1>3, <1>6 DEF SameId
  <2>. QED
    BY <1>0, <1>2, <1>3, <1>4, <1>5, <2>1, OwnerLocal DEF At
<1>8. Reached(i)'
  BY <1>2, <1>7 DEF Local
<1>9. Asks(r)' /\ Work(r)'
  <2>1. Asks(r)'
    BY <1>2, <1>3, <1>5, <1>8 DEF Asks
  <2>2. Limit(r)' = Limit(r)
    BY <1>0, <1>3, <1>5 DEF Limit
  <2>3. Copying(r)'
    BY <1>1, <1>2, <1>3, <1>5, <1>6, <2>2 DEF Copying, Holds
  <2>. QED
    BY <1>5, <2>1, <2>3 DEF Work, At
<1>10. State(i)'
  <2>1. o + (w + 1) \in Nat /\ acked'[i] <= o + (w + 1)
    BY <1>2, <1>3
  <2>. QED
    BY <1>0, <1>1, <1>2, <1>3, <1>5, <1>6, <1>7, <2>1, CopyState
<1>. QED
  BY <1>2, <1>7, <1>9, <1>10, LocalStep

LEMMA CopyEndsKeeps ==
    ASSUME Inv, Types', NEW r \in Slot, CopyEnds(r)
    PROVE  Inv'
<1>0. PICK i \in Id : i = req[r].id
  BY Busy DEF CopyEnds, At
<1>. DEFINE o == req[r].offset
            w == req[r].written
<1>1. /\ At(r, "copy") /\ UNCHANGED <<up, uploads, files, size, final, used>>
      /\ purge'.uploads = purge.uploads /\ purge'.at = purge.at /\ purge'.id = purge.id
  BY <1>0, TouchFacts DEF CopyEnds, Inv
<1>2. /\ Owns(r) /\ i \in used /\ Reached(i) /\ i \in uploads /\ i \notin files
      /\ holder[i] = r /\ req[r].op = "put" /\ o \in Nat /\ w \in Nat /\ size[i] \in Nat
      /\ acked[i] \in Nat /\ acked[i] <= o /\ o <= size[i] /\ part[i] = Bytes(o + w)
      /\ Limit(r) \in Nat /\ o + Limit(r) <= size[i]
  BY <1>0, <1>1, CopyFacts
<1>3. Types /\ req[r].at # "idle"
  BY <1>1 DEF Inv, At
<1>4. CASE /\ Overflow(r) /\ part' = [part EXCEPT ![i] = Cut(@, o)]
           /\ Answer(r, 413) /\ Release(i, r) /\ UNCHANGED acked
  <2>1. /\ req'[r].at = "answered" /\ req'[r].id = i
        /\ \A q \in Slot \ {r} : req'[q] = req[q]
    BY <1>0, <1>3, <1>4, AnswerFacts
  <2>2. part'[i] = Bytes(o)
    <3>1. o + w \in Nat /\ o \in 0..(o + w)
      BY <1>2
    <3>2. SubSeq(Bytes(o + w), 1, o) = Bytes(o)
      BY <3>1, BytesCut
    <3>. QED
      BY <1>2, <1>3, <1>4, <3>2 DEF Cut, Types
  <2>3. \A j \in Id \ {i} : SameId(j)
    BY <1>1, <1>3, <1>4, ReleaseType DEF SameId, Types
  <2>4. Local({r}, {i})
    BY <1>0, <1>1, <1>2, <2>1, <2>3, OwnerLocal
  <2>5. Asks(r)' /\ Work(r)'
    BY <1>1, <1>3, <1>4, AnswerAsks
  <2>6. acked'[i] <= o
    BY <1>2, <1>4
  <2>7. State(i)'
    BY <1>0, <1>1, <1>2, <2>1, <2>2, <2>4, <2>6, CopyState
  <2>. QED
    BY <1>2, <2>4, <2>5, <2>7, LocalStep
<1>5. CASE ~Overflow(r) /\ Complete(r) /\ Goto(r, "finish") /\ UNCHANGED <<part, holder, acked>>
  <2>1. /\ req'[r].at = "finish" /\ req'[r].id = i /\ req'[r].op = "put"
        /\ req'[r].offset = o /\ \A q \in Slot \ {r} : req'[q] = req[q]
    BY <1>0, <1>2, <1>3, <1>5, GotoFacts
  <2>2. Local({r}, {i})
    BY <1>0, <1>1, <1>2, <1>5, <2>1, OwnerLocal DEF SameId
  <2>3. part'[i] = Bytes(size[i]) /\ acked'[i] <= size[i]
    BY <1>0, <1>2, <1>5 DEF Complete
  <2>4. Reached(i)'
    BY <1>2, <2>2 DEF Local
  <2>5. Finishing(r)'
    BY <1>1, <1>2, <1>5, <2>1, <2>3 DEF Finishing, Holds
  <2>6. Asks(r)' /\ Work(r)'
    BY <1>1, <1>2, <2>1, <2>4, <2>5 DEF Asks, Work, At
  <2>7. State(i)'
    BY <1>0, <1>1, <1>2, <2>1, <2>2, <2>3, CopyState
  <2>. QED
    BY <1>2, <2>2, <2>6, <2>7, LocalStep
<1>6. CASE /\ ~Overflow(r) /\ ~Complete(r) /\ Acknowledge(i, o + w)
           /\ Answer(r, 200) /\ Release(i, r) /\ UNCHANGED part
  <2>1. /\ req'[r].at = "answered" /\ req'[r].id = i
        /\ \A q \in Slot \ {r} : req'[q] = req[q]
    BY <1>0, <1>3, <1>6, AnswerFacts
  <2>2. /\ o + w \in Nat /\ o + w <= size[i]
    BY <1>2, <1>6 DEF Overflow
  <2>3. /\ acked'[i] = Max2(acked[i], o + w)
        /\ \A j \in Id \ {i} : acked'[j] = acked[j] /\ holder'[j] = holder[j]
    BY <1>3, <1>6, <2>2, AcknowledgeType, ReleaseType
  <2>4. acked'[i] <= o + w
    BY <1>2, <2>3 DEF Max2
  <2>5. \A j \in Id \ {i} : SameId(j)
    BY <1>1, <1>6, <2>3 DEF SameId
  <2>6. Local({r}, {i})
    BY <1>0, <1>1, <1>2, <2>1, <2>5, OwnerLocal
  <2>7. Asks(r)' /\ Work(r)'
    BY <1>1, <1>3, <1>6, AnswerAsks
  <2>8. part'[i] = Bytes(o + w)
    BY <1>2, <1>6
  <2>9. State(i)'
    BY <1>0, <1>1, <1>2, <2>1, <2>2, <2>4, <2>6, <2>8, CopyState
  <2>. QED
    BY <1>2, <2>6, <2>7, <2>9, LocalStep
<1>. QED
  BY <1>0, <1>4, <1>5, <1>6 DEF CopyEnds

LEMMA CopyFailsKeeps ==
    ASSUME Inv, Types', NEW r \in Slot, CopyFails(r)
    PROVE  Inv'
<1>0. PICK i \in Id : i = req[r].id
  BY Busy DEF CopyFails, At
<1>. DEFINE n == req[r].offset + req[r].written
<1>1. /\ At(r, "copy") /\ UNCHANGED <<up, uploads, files, size, disk, used, acked>>
      /\ purge'.uploads = purge.uploads /\ purge'.at = purge.at /\ purge'.id = purge.id
      /\ ~Overflow(r) /\ Answer(r, 400) /\ Release(i, r)
  BY <1>0, TouchFacts DEF CopyFails, Inv
<1>2. /\ Owns(r) /\ i \in uploads /\ part[i] = Bytes(n)
      /\ n \in Nat /\ acked[i] <= n /\ n <= size[i]
  <2>1. /\ Owns(r) /\ i \in uploads /\ part[i] = Bytes(n)
        /\ req[r].offset \in Nat /\ req[r].written \in Nat /\ size[i] \in Nat
        /\ acked[i] \in Nat /\ acked[i] <= req[r].offset
        /\ Limit(r) \in Nat /\ req[r].offset + Limit(r) <= size[i]
    BY <1>0, <1>1, CopyFacts
  <2>2. req[r].written <= Limit(r)
    BY <1>1, <2>1 DEF Overflow
  <2>. QED
    BY <2>1, <2>2
<1>3. Types /\ req[r].at # "idle"
  BY <1>1 DEF Inv, At
<1>4. /\ req'[r].at = "answered" /\ req'[r].id = i
      /\ \A q \in Slot \ {r} : req'[q] = req[q]
  BY <1>0, <1>1, <1>3, AnswerFacts
<1>5. \A j \in Id \ {i} : SameId(j)
  BY <1>1, <1>3, ReleaseType DEF SameId
<1>6. Local({r}, {i})
  BY <1>0, <1>1, <1>2, <1>4, <1>5, OwnerLocal
<1>7. Asks(r)' /\ Work(r)'
  BY <1>1, <1>3, AnswerAsks
<1>8. State(i)'
  BY <1>0, <1>1, <1>2, <1>4, <1>6, CopyState
<1>. QED
  BY <1>6, <1>7, <1>8, LocalStep

\* What a request knows that writes a file in one go.
LEMMA FormFacts ==
    ASSUME Inv, NEW r \in Slot, At(r, "form"), NEW i \in Id, i = req[r].id
    PROVE  /\ Owns(r) /\ i \in used /\ up /\ req[r].op = "form" /\ Fresh(i) /\ size[i] = 0
           /\ part[i] = Absent /\ final[i] = Bytes(req[r].written)
           /\ req[r].written \in Nat /\ req[r].len \in Nat /\ req[r].written <= req[r].len
<1>1. Owns(r) /\ Work(r) /\ Types
  BY DEF At, Owns, Inv, IInv
<1>2. i \in used /\ up
  BY Busy DEF At
<1>. QED
  BY <1>1, <1>2 DEF Work, Forming, Types, Request

LEMMA FormCopyKeeps ==
    ASSUME Inv, Types', NEW r \in Slot, FormCopy(r)
    PROVE  Inv'
<1>0. PICK i \in Id : i = req[r].id
  BY Busy DEF FormCopy, At
<1>. DEFINE w == req[r].written
<1>1. /\ At(r, "form") /\ w + 1 <= req[r].len
      /\ UNCHANGED <<up, uploads, files, size, holder, part, used, purge, acked>>
  BY DEF FormCopy
<1>2. /\ Owns(r) /\ i \in used /\ up /\ req[r].op = "form" /\ Fresh(i) /\ size[i] = 0
      /\ part[i] = Absent /\ final[i] = Bytes(w) /\ w \in Nat
  BY <1>0, <1>1, FormFacts
<1>3. /\ req'[r] = [req[r] EXCEPT !.written = w + 1]
      /\ \A q \in Slot \ {r} : req'[q] = req[q]
  BY DEF FormCopy, Inv, Types
<1>4. /\ req'[r].at = "form" /\ req'[r].id = i /\ req'[r].op = "form"
      /\ req'[r].len = req[r].len /\ req'[r].written = w + 1
  <2>1. req[r] \in Request
    BY DEF Inv, Types
  <2>. QED
    BY <1>0, <1>1, <1>2, <1>3, <2>1 DEF At, Request
<1>5. final'[i] = Bytes(w + 1) /\ \A j \in Id \ {i} : final'[j] = final[j]
  <2>1. final' = [final EXCEPT ![i] = Append(final[i], w + 1)]
    BY <1>0 DEF FormCopy
  <2>2. Append(Bytes(w), w + 1) = Bytes(w + 1)
    BY <1>2, BytesAppend
  <2>. QED
    BY <1>2, <2>1, <2>2 DEF Inv, Types
<1>6. Local({r}, {i})
  <2>1. \A j \in Id \ {i} : SameId(j)
    BY <1>1, <1>5 DEF SameId
  <2>. QED
    BY <1>0, <1>1, <1>2, <1>3, <1>4, <2>1, OwnerLocal DEF At
<1>7. Asks(r)' /\ Work(r)'
  <2>1. Forming(r)'
    BY <1>1, <1>2, <1>4, <1>5 DEF Forming, Fresh
  <2>. QED
    BY <1>1, <1>2, <1>4, <2>1 DEF Asks, Work, At, Owns
<1>8. State(i)'
  <2>1. Serving(i, {"register", "form"})'
    BY <1>4 DEF Serving
  <2>. QED
    BY <1>1, <1>2, <2>1 DEF State, Unused, Uploaded, Filed, Owned, Fresh
<1>. QED
  BY <1>2, <1>6, <1>7, <1>8, LocalStep

LEMMA FormEndsKeeps ==
    ASSUME Inv, Types', NEW r \in Slot, FormEnds(r)
    PROVE  Inv'
<1>0. PICK i \in Id : i = req[r].id
  BY Busy DEF FormEnds, At
<1>. DEFINE n == req[r].len
<1>1. /\ At(r, "form") /\ req[r].written = n /\ files' = files \cup {i}
      /\ size' = [size EXCEPT ![i] = n] /\ Acknowledge(i, n) /\ Answer(r, 200)
      /\ UNCHANGED <<up, uploads, holder, disk, used, purge>>
  BY <1>0 DEF FormEnds
<1>2. /\ Owns(r) /\ i \in used /\ up /\ Fresh(i) /\ part[i] = Absent
      /\ final[i] = Bytes(n) /\ n \in Nat /\ Types /\ req[r].at # "idle"
  BY <1>0, <1>1, FormFacts DEF Inv, At
<1>3. /\ req'[r].at = "answered" /\ req'[r].id = i
      /\ \A q \in Slot \ {r} : req'[q] = req[q]
  BY <1>0, <1>1, <1>2, AnswerFacts
<1>4. /\ acked'[i] = Max2(acked[i], n) /\ size'[i] = n
      /\ \A j \in Id \ {i} : acked'[j] = acked[j] /\ size'[j] = size[j]
  BY <1>1, <1>2, AcknowledgeType DEF Types
<1>5. Local({r}, {i})
  <2>1. \A j \in Id \ {i} : SameId(j)
    BY <1>1, <1>4 DEF SameId
  <2>. QED
    BY <1>0, <1>1, <1>2, <1>3, <2>1, OwnerLocal
<1>6. Asks(r)' /\ Work(r)'
  BY <1>1, <1>2, AnswerAsks
<1>7. State(i)'
  <2>1. acked'[i] <= size'[i]
    BY <1>2, <1>4 DEF Max2, Fresh
  <2>. QED
    BY <1>1, <1>2, <1>4, <2>1 DEF State, Unused, Uploaded, Filed, Owned, Fresh
<1>. QED
  BY <1>5, <1>6, <1>7, LocalStep

LEMMA FormFailsKeeps ==
    ASSUME Inv, Types', NEW r \in Slot, FormFails(r)
    PROVE  Inv'
<1>0. PICK i \in Id : i = req[r].id
  BY Busy DEF FormFails, At
<1>1. /\ At(r, "form") /\ final' = [final EXCEPT ![i] = Absent]
      /\ UNCHANGED <<up, uploads, files, size, holder, part, used, purge, acked>>
  BY <1>0 DEF FormFails
<1>2. /\ Owns(r) /\ i \in used /\ up /\ Fresh(i) /\ part[i] = Absent
      /\ Types /\ req[r].at # "idle"
  BY <1>0, <1>1, FormFacts DEF Inv, At
<1>3. PICK s \in Nat : Answer(r, s)
  BY DEF FormFails
<1>4. /\ req'[r].at = "answered" /\ req'[r].id = i
      /\ \A q \in Slot \ {r} : req'[q] = req[q]
  BY <1>0, <1>2, <1>3, AnswerFacts
<1>5. final'[i] = Absent /\ \A j \in Id \ {i} : SameId(j)
  BY <1>1, <1>2 DEF SameId, Types
<1>6. Local({r}, {i})
  BY <1>0, <1>1, <1>2, <1>4, <1>5, OwnerLocal
<1>7. Asks(r)' /\ Work(r)'
  BY <1>1, <1>2, <1>3, AnswerAsks
<1>8. State(i)'
  BY <1>1, <1>2, <1>5 DEF State, Unused, Uploaded, Filed, Owned, Fresh
<1>. QED
  BY <1>6, <1>7, <1>8, LocalStep

\* A response tells the client an offset that is in already.
LEMMA ToldKeeps ==
    ASSUME Inv, Types', NEW r \in Slot, req[r].at # "idle", ~Owns(r),
           NEW i \in Id, i = req[r].id, NEW n \in Nat, NEW s \in Nat,
           Answer(r, s), Acknowledge(i, n),
           \A q \in Slot : Owns(q) => req[q].id # i,
           i \in uploads => n <= Len(part[i]), i \in files => n <= size[i],
           UNCHANGED <<up, uploads, files, size, holder, disk, used, purge>>
    PROVE  Inv'
<1>1. Types /\ State(i) /\ up /\ i \in used
  BY Busy DEF Inv, IInv
<1>2. /\ req'[r].at = "answered" /\ req'[r].id = i
      /\ \A q \in Slot \ {r} : req'[q] = req[q]
  BY <1>1, AnswerFacts
<1>3. /\ acked'[i] = Max2(acked[i], n)
      /\ \A j \in Id \ {i} : acked'[j] = acked[j]
  BY <1>1, AcknowledgeType
<1>4. Asks(r)' /\ Work(r)' /\ ~Owns(r)'
  BY AnswerAsks
<1>5. Reached(i) => Reached(i)'
  BY <1>2 DEF Reached
<1>6. Local({r}, {i})
  <2>1. size[i] <= size'[i]
    BY DEF Inv, Types
  <2>2. \A j \in Id \ {i} : SameId(j)
    BY <1>3 DEF SameId
  <2>. QED
    BY <1>1, <1>2, <1>4, <1>5, <2>1, <2>2 DEF Local
<1>7. State(i)'
  <2>1. \A q \in Slot : req[q].id = i =>
            req[q].at \notin {"copy", "publish", "finish", "register", "form"}
    BY DEF Owns
  <2>2. /\ ~Serving(i, {"copy"}) /\ ~Serving(i, {"publish", "finish"})
        /\ ~Serving(i, {"register", "form"})
    BY <2>1 DEF Serving
  <2>3. i \in uploads => Reached(i) /\ acked'[i] <= Len(part[i])
    BY <1>1, <1>3 DEF State, Uploaded, Max2
  <2>4. i \in files => acked'[i] <= size[i]
    BY <1>1, <1>3 DEF State, Filed, Max2
  <2>5. Uploaded(i)'
    BY <1>1, <1>5, <2>2, <2>3 DEF State, Uploaded
  <2>. QED
    BY <1>1, <2>2, <2>4, <2>5 DEF State, Unused, Filed, Owned
<1>. QED
  BY <1>4, <1>6, <1>7, LocalStep

\* A response that changes nothing else.
LEMMA RefusedKeeps ==
    ASSUME Inv, Types', NEW r \in Slot, req[r].at # "idle", ~Owns(r),
           NEW s \in Nat, Answer(r, s),
           UNCHANGED <<up, uploads, files, size, holder, disk, used, purge, acked>>
    PROVE  Inv'
<1>1. /\ up /\ Asks(r)' /\ ~Owns(r)' /\ \A q \in Slot \ {r} : req'[q] = req[q]
  BY Busy, AnswerAsks, AnswerFacts DEF Inv
<1>. QED
  BY <1>1, QuietStep

LEMMA LookupKeeps ==
    ASSUME Inv, Types', NEW r \in Slot, Lookup(r) \/ Serve(r) \/ LookupFile(r)
    PROVE  Inv'
<1>0. PICK i \in Id : i = req[r].id
  BY Busy DEF Lookup, Serve, LookupFile, At
<1>1. /\ Types /\ Asks(r) /\ State(i) /\ up /\ i \in used /\ ~Owns(r) /\ req[r].at # "idle"
      /\ size[i] \in Nat
  BY <1>0, Busy DEF Lookup, Serve, LookupFile, At, Owns, Inv, IInv, Types
<1>2. CASE Lookup(r)
  <2>1. PICK l \in {"get", "put", "delete", "lookupFile"} :
          /\ Goto(r, l)
          /\ l # "lookupFile" => l = req[r].op /\ i \in uploads
    BY <1>0, <1>1, <1>2 DEF Lookup, Asks, At
  <2>2. /\ req'[r].at = l /\ req'[r].op = req[r].op /\ req'[r].id = i
        /\ req'[r].offset = req[r].offset /\ req'[r].written = req[r].written
        /\ \A q \in Slot \ {r} : req'[q] = req[q]
    BY <1>0, <1>1, <2>1, GotoFacts
  <2>3. /\ UNCHANGED <<up, uploads, files, size, holder, disk, used, purge, acked>>
        /\ At(r, "lookup")
    BY <1>2 DEF Lookup
  <2>4. i \in uploads => Reached(i)'
    BY <1>1, <2>2, <2>3 DEF State, Uploaded, Reached
  <2>5. Asks(r)' /\ ~Owns(r)'
    BY <1>0, <1>1, <2>1, <2>2, <2>3, <2>4 DEF Asks, Owns, At
  <2>. QED
    BY <1>1, <2>2, <2>3, <2>5, QuietStep
<1>3. CASE Serve(r)
  BY <1>1, <1>3, RefusedKeeps DEF Serve
<1>4. CASE LookupFile(r)
  <2>1. CASE i \in files /\ Acknowledge(i, size[i]) /\ Answer(r, 200)
    <3>1. \A q \in Slot : Owns(q) => req[q].id # i
      BY <2>1, FileSole
    <3>2. i \notin uploads
      BY <1>1, <2>1 DEF State, Uploaded
    <3>3. UNCHANGED <<up, uploads, files, size, holder, disk, used, purge>>
      BY <1>4 DEF LookupFile
    <3>. QED
      BY <1>0, <1>1, <2>1, <3>1, <3>2, <3>3, ToldKeeps
  <2>2. CASE Goto(r, "serve") /\ UNCHANGED acked
    <3>1. /\ req'[r].at = "serve" /\ req'[r].op = req[r].op /\ req'[r].id = i
          /\ req'[r].offset = req[r].offset /\ \A q \in Slot \ {r} : req'[q] = req[q]
      BY <1>0, <1>1, <2>2, GotoFacts
    <3>2. UNCHANGED <<up, uploads, files, size, holder, disk, used, purge, acked>>
      BY <1>4, <2>2 DEF LookupFile
    <3>3. Asks(r)' /\ ~Owns(r)'
      BY <1>0, <1>1, <3>1, <3>2 DEF Asks, Owns
    <3>. QED
      BY <1>1, <3>1, <3>2, <3>3, QuietStep
  <2>3. CASE Answer(r, 404) /\ UNCHANGED acked
    BY <1>1, <1>4, <2>3, RefusedKeeps DEF LookupFile
  <2>. QED
    BY <1>0, <1>4, <2>1, <2>2, <2>3 DEF LookupFile
<1>. QED
  BY <1>2, <1>3, <1>4
\* A session that is not locked is thrown away with its .part file.
LEMMA DiscardKeeps ==
    ASSUME Inv, Types', NEW R \in SUBSET Slot, NEW i \in Id, Reached(i), Free(i), up,
           \A q \in R, s \in R : q = s,
           \A s \in Slot \ R : req'[s] = req[s],
           \A s \in R : Asks(s)' /\ Work(s)' /\ ~Owns(s) /\ ~Owns(s)',
           uploads' = uploads \ {i}, part' = [part EXCEPT ![i] = Absent],
           UNCHANGED <<up, files, size, holder, final, used, acked>>,
           purge'.uploads = purge.uploads,
           purge'.at = "lock" => purge.at = "lock" /\ purge'.id = purge.id
    PROVE  Inv'
<1>1. Types /\ State(i)
  BY DEF Inv, IInv
<1>2. part'[i] = Absent /\ \A j \in Id \ {i} : SameId(j)
  BY <1>1 DEF SameId, Types
<1>3. \A s \in Slot : Owns(s) => req[s].id # i
  BY FreeSole
<1>4. Reached(i)'
  <2>1. \A s \in Slot : req'[s].id = i => req'[s].at \notin {"publish", "form"}
    BY <1>3 DEF Owns
  <2>. QED
    BY <2>1 DEF Reached
<1>5. Local(R, {i})
  <2>1. size[i] <= size'[i]
    BY <1>1 DEF Types
  <2>. QED
    BY <1>2, <1>3, <1>4, <2>1 DEF Local
<1>6. State(i)'
  <2>1. ~Serving(i, {"register", "form"})
    BY <1>3 DEF Serving, Owns
  <2>. QED
    BY <1>1, <1>2, <2>1 DEF State, Unused, Uploaded, Filed, Owned, Fresh, Reached
<1>. QED
  BY <1>5, <1>6, LocalStep

LEMMA LockKeeps ==
    ASSUME Inv, Types', NEW r \in Slot, LockStep(r)
    PROVE  Inv'
<1>0. PICK i \in Id : i = req[r].id
  BY Busy DEF LockStep, Get, Cancel, Put, At
<1>1. /\ Types /\ Asks(r) /\ up /\ i \in used /\ ~Owns(r) /\ req[r].at # "idle"
      /\ req[r].at \in {"get", "put", "delete"} /\ Free(i)
  BY <1>0, Busy DEF LockStep, Get, Cancel, Put, At, Owns, Inv, IInv
<1>2. Reached(i)
  BY <1>0, <1>1 DEF Asks
<1>3. \A q \in Slot : Owns(q) => req[q].id # i
  BY <1>1, <1>2, FreeSole
<1>4. part[i] # Absent =>
        /\ i \in uploads /\ i \notin files /\ part[i] = Bytes(Len(part[i]))
        /\ Len(part[i]) \in Nat /\ Len(part[i]) <= size[i] /\ acked[i] <= Len(part[i])
  BY <1>1, <1>2, FreeUploaded
<1>5. CASE /\ part[i] # Absent /\ (Answer(r, 200) \/ Answer(r, 409))
           /\ Acknowledge(i, Len(part[i]))
           /\ UNCHANGED <<up, uploads, files, size, holder, disk, used, purge>>
  <2>1. PICK s \in Nat : Answer(r, s)
    BY <1>5
  <2>. QED
    BY <1>0, <1>1, <1>3, <1>4, <1>5, <2>1, ToldKeeps
<1>6. CASE /\ (Answer(r, 404) \/ Answer(r, 500))
           /\ UNCHANGED <<up, uploads, files, size, holder, disk, used, purge, acked>>
  <2>1. PICK s \in Nat : Answer(r, s)
    BY <1>6
  <2>. QED
    BY <1>1, <1>6, <2>1, RefusedKeeps
<1>7. CASE Get(r)
  BY <1>0, <1>5, <1>6, <1>7 DEF Get
<1>8. CASE Cancel(r)
  <2>1. /\ uploads' = uploads \ {i} /\ part' = [part EXCEPT ![i] = Absent] /\ Answer(r, 204)
        /\ UNCHANGED <<up, files, size, holder, final, used, acked, purge>>
    BY <1>0, <1>8 DEF Cancel
  <2>2. \A q \in Slot \ {r} : req'[q] = req[q]
    BY <1>1, <2>1, AnswerFacts
  <2>3. Asks(r)' /\ Work(r)' /\ ~Owns(r)'
    BY <1>1, <2>1, AnswerAsks
  <2>4. /\ {r} \in SUBSET Slot /\ \A q \in {r}, s \in {r} : q = s
        /\ \A s \in {r} : Asks(s)' /\ Work(s)' /\ ~Owns(s) /\ ~Owns(s)'
    BY <1>1, <2>3
  <2>5. /\ purge'.uploads = purge.uploads
        /\ purge'.at = "lock" => purge.at = "lock" /\ purge'.id = purge.id
    BY <2>1
  <2>. QED
    BY <1>1, <1>2, <2>1, <2>2, <2>4, <2>5, DiscardKeeps
<1>9. CASE /\ At(r, "put") /\ part[i] # Absent /\ Matches(r) /\ Goto(r, "copy")
           /\ holder' = [holder EXCEPT ![i] = r]
           /\ UNCHANGED <<up, uploads, files, size, disk, used, purge, acked>>
  <2>1. /\ req'[r].at = "copy" /\ req'[r].op = req[r].op /\ req'[r].id = i
        /\ req'[r].offset = req[r].offset /\ req'[r].written = req[r].written
        /\ \A q \in Slot \ {r} : req'[q] = req[q]
    BY <1>0, <1>1, <1>9, GotoFacts
  <2>2. req[r].op = "put" /\ req[r].offset = Len(part[i])
    BY <1>0, <1>1, <1>9 DEF Asks, At, Matches
  <2>3. Reached(i)'
    BY <1>2, <1>9, <2>1 DEF Reached
  <2>4. \A j \in Id \ {i} : SameId(j)
    BY <1>1, <1>9 DEF SameId, Types
  <2>5. Local({r}, {i})
    <3>1. size[i] <= size'[i]
      BY <1>1, <1>9 DEF Types
    <3>. QED
      BY <1>1, <1>3, <1>9, <2>1, <2>3, <2>4, <3>1 DEF Local
  <2>6. Asks(r)'
    BY <1>0, <1>1, <1>9, <2>1, <2>2, <2>3 DEF Asks
  <2>7. /\ part[i] = Bytes(req[r].offset) /\ i \in uploads /\ i \notin files
        /\ req[r].offset \in Nat /\ req[r].offset <= size[i] /\ acked[i] <= req[r].offset
        /\ req[r].written = 0
    BY <1>0, <1>1, <1>4, <1>9, <2>2 DEF Asks, At
  <2>8. Work(r)'
    <3>1. holder'[i] = r /\ size[i] \in Nat
      BY <1>1, <1>9 DEF Types
    <3>2. Limit(r)' = Min2(ChunkSize, size[i] - req[r].offset)
      BY <1>9, <2>1 DEF Limit
    <3>3. Limit(r)' \in Nat
      BY <2>7, <3>1, <3>2, UploadsAssumption DEF Min2
    <3>4. 0 <= Limit(r)' + 1 /\ req[r].offset + 0 = req[r].offset
      BY <2>7, <3>3
    <3>5. Copying(r)'
      BY <1>9, <2>1, <2>7, <3>1, <3>4 DEF Copying, Holds
    <3>. QED
      BY <2>1, <3>5 DEF Work, At
  <2>9. State(i)'
    <3>1. State(i) /\ ~Serving(i, {"register", "form"})
      BY <1>3 DEF Inv, IInv, Serving, Owns
    <3>2. Len(part[i]) = req[r].offset
      BY <2>2
    <3>3. Uploaded(i)'
      BY <1>9, <2>3, <2>7, <3>2, BytesType DEF Uploaded
    <3>. QED
      BY <1>1, <1>9, <2>7, <3>1, <3>3 DEF State, Unused, Filed, Owned
  <2>. QED
    BY <2>5, <2>6, <2>8, <2>9, LocalStep
<1>10. CASE Put(r)
  BY <1>0, <1>5, <1>6, <1>9, <1>10 DEF Put
<1>. QED
  BY <1>7, <1>8, <1>10 DEF LockStep

\* Only the cleanup or the clock takes a step.
LEMMA PurgeOnly ==
    ASSUME Inv, Types', Down', Purging',
           UNCHANGED <<up, uploads, files, size, holder, disk, used, req, acked>>
    PROVE  Inv'
<1>1. \A r \in Slot : Asks(r)'
  BY DEF Inv, IInv, Asks, Owns, Reached
<1>2. \A r \in Slot : Work(r)'
  BY DEF Inv, IInv, Work, At, Publishing, Forming, Copying, Finishing, Registering, Fresh,
         Holds, Limit
<1>3. \A i \in Id : State(i)'
  BY DEF Inv, IInv, State, Unused, Uploaded, Filed, Owned, Fresh, Reached, Serving
<1>4. Alone'
  BY DEF Inv, IInv, Alone, Owns
<1>. QED
  BY <1>1, <1>2, <1>3, <1>4 DEF Inv, IInv

LEMMA PurgeKeeps ==
    ASSUME Inv, Types', PurgeStep
    PROVE  Inv'
<1>1. Types /\ Down /\ Purging
  BY DEF Inv, IInv
<1>2. purge.at # "idle" => up
  BY <1>1 DEF Down, NoPurge
<1>3. CASE PurgeStart \/ PurgeEnds
  <2>1. purge'.uploads = {} /\ purge'.at # "lock"
    <3>1. CASE PurgeStart
      BY <3>1 DEF PurgeStart, NoPurge
    <3>2. CASE PurgeEnds
      BY <3>2 DEF PurgeEnds, NoPurge
    <3>. QED
      BY <1>3, <3>1, <3>2
  <2>2. up
    BY <1>2, <1>3 DEF PurgeStart, PurgeEnds
  <2>3. UNCHANGED <<up, uploads, files, size, holder, disk, used, req, acked>>
    BY <1>3 DEF PurgeStart, PurgeEnds
  <2>. QED
    BY <2>1, <2>2, <2>3, PurgeOnly DEF Down, Purging
<1>4. CASE PurgeFilesDone
  <2>1. /\ up /\ purge'.uploads = uploads /\ purge'.at = "uploads"
        /\ UNCHANGED <<up, uploads, files, size, holder, disk, used, req, acked>>
    BY <1>1, <1>2, <1>4 DEF PurgeFilesDone, Types
  <2>2. \A i \in uploads : Reached(i)'
    BY <1>1, <2>1 DEF Inv, IInv, State, Uploaded, Reached, Types
  <2>. QED
    BY <2>1, <2>2, PurgeOnly DEF Down, Purging
<1>5. CASE PurgeUpload
  <2>1. PICK i \in Id : i = purge.id /\ Reached(i)
    BY <1>1, <1>5 DEF PurgeUpload, Purging
  <2>2. /\ up /\ Free(i) /\ purge'.at = "uploads" /\ purge'.uploads = purge.uploads
        /\ UNCHANGED <<up, files, size, holder, final, used, req, acked>>
    BY <1>1, <1>2, <1>5, <2>1 DEF PurgeUpload, Types
  <2>3. CASE uploads' = uploads \ {i} /\ part' = [part EXCEPT ![i] = Absent]
    <3>1. {} \in SUBSET Slot /\ \A s \in Slot \ {} : req'[s] = req[s]
      BY <2>2
    <3>2. /\ purge'.uploads = purge.uploads /\ purge'.at # "lock" /\ up /\ Free(i)
          /\ UNCHANGED <<up, files, size, holder, final, used, acked>>
      BY <2>2
    <3>3. \A q \in {}, s \in {} : q = s
      OBVIOUS
    <3>4. \A s \in {} : Asks(s)' /\ Work(s)' /\ ~Owns(s) /\ ~Owns(s)'
      OBVIOUS
    <3>. QED
      BY <2>1, <2>3, <3>1, <3>2, <3>3, <3>4, DiscardKeeps
  <2>4. CASE UNCHANGED <<uploads, part>>
    <3>1. \A j \in purge.uploads : Reached(j)'
      BY <1>1, <2>2 DEF Purging, Reached
    <3>. QED
      BY <2>2, <2>4, <3>1, PurgeOnly DEF Down, Purging
  <2>. QED
    BY <1>5, <2>1, <2>3, <2>4 DEF PurgeUpload
<1>6. ASSUME NEW i \in Id, PurgeFile(i) PROVE Inv'
  <2>1. /\ up /\ purge'.at = "files" /\ purge'.uploads = purge.uploads
        /\ UNCHANGED <<up, uploads, size, holder, part, used, req, acked>>
    BY <1>1, <1>2, <1>6 DEF PurgeFile, Types
  <2>2. CASE i \in files /\ files' = files \ {i} /\ final' = [final EXCEPT ![i] = Absent]
    <3>1. \A s \in Slot : Owns(s) => req[s].id # i
      BY <2>2, FileSole
    <3>2. final'[i] = Absent /\ \A j \in Id \ {i} : SameId(j)
      BY <1>1, <2>1, <2>2 DEF SameId, Types
    <3>3. Local({}, {i})
      BY <1>1, <2>1, <3>1, <3>2 DEF Local, Reached, Types
    <3>4. State(i)'
      <4>1. State(i)
        BY DEF Inv, IInv
      <4>2. i \in used /\ i \notin uploads
        BY <2>2, <4>1 DEF State, Filed, Uploaded
      <4>3. Serving(i, {"publish", "finish"})' <=> Serving(i, {"publish", "finish"})
        BY <2>1 DEF Serving
      <4>. QED
        BY <2>1, <2>2, <3>2, <4>1, <4>2, <4>3 DEF State, Unused, Uploaded, Filed, Owned
    <3>. QED
      BY <3>3, <3>4, LocalStep
  <2>3. CASE UNCHANGED <<files, final>>
    <3>1. \A j \in purge.uploads : Reached(j)'
      BY <1>1, <2>1 DEF Purging, Reached
    <3>. QED
      BY <2>1, <2>3, <3>1, PurgeOnly DEF Down, Purging
  <2>. QED
    BY <1>6, <2>2, <2>3 DEF PurgeFile
<1>7. ASSUME NEW i \in Id, PurgeVisit(i) PROVE Inv'
  <2>1. /\ up /\ purge'.id = i /\ i \in purge.uploads /\ purge'.uploads \subseteq purge.uploads
        /\ UNCHANGED <<up, uploads, files, size, holder, disk, used, req, acked>>
    BY <1>1, <1>2, <1>7 DEF PurgeVisit, Types
  <2>2. \A j \in purge.uploads : Reached(j)'
    BY <1>1, <2>1 DEF Purging, Reached
  <2>. QED
    BY <2>1, <2>2, PurgeOnly DEF Down, Purging
<1>. QED
  BY <1>3, <1>4, <1>5, <1>6, <1>7 DEF PurgeStep

LEMMA ProcessKeeps ==
    ASSUME Inv, Types', Crash \/ Restart \/ Tick \/ UNCHANGED vars
    PROVE  Inv'
<1>1. CASE Crash
  <2>1. /\ ~up' /\ uploads' = {} /\ files' = {} /\ purge' = NoPurge
        /\ \A r \in Slot : req'[r] = Idle
        /\ \A i \in Id : acked'[i] = 0
        /\ UNCHANGED <<size, disk, used>>
    BY <1>1 DEF Crash
  <2>2. \A r \in Slot : Asks(r)' /\ Work(r)' /\ ~Owns(r)'
    BY <2>1 DEF Idle, Asks, Work, At, Owns
  <2>3. \A i \in Id : State(i)'
    BY <2>1 DEF Inv, IInv, State, Unused, Fresh, Uploaded, Filed, Owned
  <2>4. Alone' /\ Down' /\ Purging'
    BY <2>1, <2>2 DEF Alone, Down, Purging, NoPurge
  <2>. QED
    BY <2>2, <2>3, <2>4 DEF Inv, IInv
<1>2. CASE Restart
  <2>1. /\ up' /\ uploads' = {} /\ files' = {} /\ purge' = NoPurge
        /\ \A r \in Slot : req'[r] = Idle
        /\ \A i \in Id : part'[i] = Absent /\ final'[i] = Absent
        /\ UNCHANGED <<size, used, acked>>
    BY <1>2 DEF Restart, Inv, IInv, Down
  <2>2. \A r \in Slot : Asks(r)' /\ Work(r)' /\ ~Owns(r)'
    BY <2>1 DEF Idle, Asks, Work, At, Owns
  <2>3. \A i \in Id : State(i)'
    BY <2>1 DEF Inv, IInv, State, Unused, Fresh, Uploaded, Filed, Owned
  <2>4. Alone' /\ Down' /\ Purging'
    BY <2>1, <2>2 DEF Alone, Down, Purging, NoPurge
  <2>. QED
    BY <2>2, <2>3, <2>4 DEF Inv, IInv
<1>3. CASE Tick \/ UNCHANGED vars
  <2>1. UNCHANGED <<up, uploads, files, size, holder, disk, used, req, purge, acked>>
    BY <1>3 DEF Tick
  <2>2. Down' /\ Purging'
    BY <2>1 DEF Inv, IInv, Down, Purging, Reached
  <2>. QED
    BY <2>1, <2>2, PurgeOnly
<1>. QED
  BY <1>1, <1>2, <1>3

LEMMA InitInv == Init => Inv
<1>. SUFFICES ASSUME Init PROVE Inv
  OBVIOUS
<1>1. Types
  <2>1. NoPurge \in Cleanup
    BY DEF NoPurge, Cleanup
  <2>2. up \in BOOLEAN
    BY DEF Init
  <2>. QED
    BY <2>1, <2>2, IdleType DEF Init, Types
<1>2. \A r \in Slot : Asks(r) /\ Work(r) /\ ~Owns(r)
  BY DEF Init, Idle, Asks, Work, At, Owns
<1>3. \A i \in Id : State(i)
  BY DEF Init, State, Unused, Fresh, Uploaded, Filed, Owned
<1>4. Alone /\ Down /\ Purging
  BY <1>2 DEF Init, Alone, Down, Purging, NoPurge
<1>. QED
  BY <1>1, <1>2, <1>3, <1>4 DEF Inv, IInv

LEMMA NextInv == Inv /\ [Next]_vars => Inv'
<1>. SUFFICES ASSUME Inv, [Next]_vars PROVE Inv'
  OBVIOUS
<1>1. ASSUME NEW r \in Slot, ClientStep(r) PROVE Inv'
  <2>1. Types'
    BY <1>1, ClientTypes
  <2>. QED
    BY <1>1, <2>1, CloseBegin, CreateKeeps, FormKeeps DEF ClientStep
<1>2. ASSUME NEW r \in Slot, BodyStep(r) PROVE Inv'
  <2>1. Types'
    BY <1>2, BodyTypes
  <2>. QED
    BY <1>2, <2>1, CopyKeeps, CopyFailsKeeps, FormCopyKeeps, FormFailsKeeps DEF BodyStep
<1>3. ASSUME NEW r \in Slot, LockStep(r) PROVE Inv'
  <2>1. Types'
    BY <1>3, LockTypes
  <2>. QED
    BY <1>3, <2>1, LockKeeps
<1>4. ASSUME NEW r \in Slot, ServerStep(r) PROVE Inv'
  <2>1. Types'
    BY <1>4, ServerTypes
  <2>. QED
    BY <1>4, <2>1, PublishKeeps, LookupKeeps, CopyEndsKeeps, FormEndsKeeps, FinishKeeps,
       FinishFailsKeeps, RegisterKeeps DEF ServerStep
<1>5. CASE PurgeStep \/ Crash \/ Restart \/ Tick \/ UNCHANGED vars
  <2>1. Types'
    BY <1>5, OtherTypes DEF Inv
  <2>. QED
    BY <1>5, <2>1, PurgeKeeps, ProcessKeeps
<1>. QED
  BY <1>1, <1>2, <1>3, <1>4, <1>5 DEF Next

\* The invariant holds in every state the service can reach.
THEOREM Invariant == Spec => []Inv
<1>1. Init => Inv
  BY InitInv
<1>2. Inv /\ [Next]_vars => Inv'
  BY NextInv
<1>. QED
  BY <1>1, <1>2, PTL DEF Spec

---------------------------------------------------------------------------
(* The safety properties of Uploads *)

\* Every behaviour of the service keeps TypeOK: the types, and that the PUT that
\* appends to an upload holds its lock.
THEOREM TypeCorrect == Spec => []TypeOK
BY Invariant, InvTypeOK, PTL

LEMMA InvSafe == Inv => PrefixIntegrity /\ FileComplete /\ AckDurable /\ DiskOwned
BY DEF Inv, Types, IInv, State, Uploaded, Filed, Owned, PrefixIntegrity, FileComplete,
       AckDurable, DiskOwned

\* However chunks are interrupted, repeated, oversized or sent by two clients at once
\* (putChunk), an unfinished upload holds exactly the first bytes of its file.
THEOREM PrefixKept == Spec => []PrefixIntegrity
BY Invariant, InvSafe, PTL

\* A file that can be downloaded is whole (finishUpload, handleUpload).
THEOREM FilesWhole == Spec => []FileComplete
BY Invariant, InvSafe, PTL

\* What a client has been told is in stays in, as long as the upload or its file lives
\* (the responses of putChunk and of GET).
THEOREM OffsetsDurable == Spec => []AckDurable
BY Invariant, InvSafe, PTL

\* No file on disk is forgotten while the server runs, but for the .part of an empty
\* upload whose rename failed (handleUploadCreate, finishUpload, handleUpload).
THEOREM DiskAccounted == Spec => []DiskOwned
BY Invariant, InvSafe, PTL

\* What the cleanup has heard of is no older than its cutoff.
Young == purge.at # "idle" => /\ purge.cutoff <= now
                              /\ \A i \in purge.touched : purge.cutoff <= stamp[i]

\* A step of a request leaves the cleanup as it is and only makes uploads younger,
\* or it ends a chunk.
LEMMA RequestSteps ==
    ASSUME Inv, Young, NEW r \in Slot,
           ClientStep(r) \/ BodyStep(r) \/ LockStep(r) \/ ServerStep(r)
    PROVE  /\ now' = now
           /\ \/ purge' = purge /\ \A i \in Id : stamp'[i] \in {stamp[i], now}
              \/ \E i \in Id : Touch(i) /\ UNCHANGED <<uploads, files>>
<1>0. stamp \in [Id -> Nat] /\ (req[r].at # "idle" => req[r].id \in Id)
  BY Busy DEF Inv, Types
<1>1. CASE CopyEnds(r) \/ CopyFails(r)
  <2>1. /\ req[r].id \in Id /\ Touch(req[r].id)
        /\ uploads' = uploads /\ files' = files /\ now' = now
    BY <1>0, <1>1 DEF CopyEnds, CopyFails, At
  <2>. QED
    BY <2>1
<1>2. CASE Create(r) \/ FormEnds(r) \/ Register(r)
  BY <1>0, <1>2 DEF Create, FormEnds, Register
<1>3. CASE \/ Close(r) \/ Begin(r) \/ Form(r) \/ Copy(r) \/ FormCopy(r) \/ FormFails(r)
           \/ LockStep(r)
  BY <1>3 DEF Close, Begin, Form, Copy, FormCopy, FormFails, LockStep, Get, Cancel, Put, maps
<1>4. CASE \/ Publish(r) \/ Lookup(r) \/ LookupFile(r) \/ Serve(r) \/ Finish(r)
           \/ FinishFails(r)
  BY <1>4 DEF Publish, Lookup, LookupFile, Serve, Finish, FinishFails, maps
<1>. QED
  BY <1>1, <1>2, <1>3, <1>4 DEF ClientStep, BodyStep, ServerStep

\* A step of the cleanup does not forget what it has heard of, unless it begins or ends.
LEMMA PurgeSteps ==
    ASSUME Inv, PurgeStep
    PROVE  /\ UNCHANGED <<now, stamp>>
           /\ \/ purge'.at = "idle" /\ UNCHANGED <<uploads, files>>
              \/ /\ purge.at = "idle" /\ purge'.cutoff = now /\ purge'.touched = {}
                 /\ UNCHANGED <<uploads, files>>
              \/ /\ purge.at # "idle"
                 /\ purge'.cutoff = purge.cutoff /\ purge'.touched = purge.touched
                 /\ \A i \in Id : ~Stale(i) => /\ i \in uploads => i \in uploads'
                                               /\ i \in files => i \in files'
<1>1. CASE PurgeStart
  BY <1>1 DEF PurgeStart, NoPurge, maps
<1>2. CASE PurgeEnds
  BY <1>2 DEF PurgeEnds, NoPurge, maps
<1>3. CASE PurgeFilesDone
  BY <1>3 DEF PurgeFilesDone, Inv, Types, Cleanup, maps
<1>4. CASE PurgeUpload
  BY <1>4 DEF PurgeUpload, Inv, Types, Cleanup
<1>5. ASSUME NEW j \in Id, PurgeFile(j)
      PROVE  /\ UNCHANGED <<now, stamp, uploads>> /\ purge.at # "idle"
             /\ purge'.cutoff = purge.cutoff /\ purge'.touched = purge.touched
             /\ \A i \in Id : ~Stale(i) => (i \in files => i \in files')
  BY <1>5 DEF PurgeFile, Inv, Types, Cleanup
<1>6. ASSUME NEW j \in Id, PurgeVisit(j)
      PROVE  /\ UNCHANGED <<now, stamp, uploads, files>> /\ purge.at # "idle"
             /\ purge'.cutoff = purge.cutoff /\ purge'.touched = purge.touched
  BY <1>6 DEF PurgeVisit, Inv, Types, Cleanup, maps
<1>. QED
  BY <1>1, <1>2, <1>3, <1>4, <1>5, <1>6 DEF PurgeStep

LEMMA YoungNext == Inv /\ Young /\ [Next]_vars => Young'
<1>. SUFFICES ASSUME Inv, Young, [Next]_vars PROVE Young'
  OBVIOUS
<1>0. /\ now \in Nat /\ stamp \in [Id -> Nat]
      /\ purge.cutoff \in Nat /\ purge.touched \subseteq Id
  BY DEF Inv, Types, Cleanup
<1>1. ASSUME NEW r \in Slot, ClientStep(r) \/ BodyStep(r) \/ LockStep(r) \/ ServerStep(r)
      PROVE  Young'
  <2>1. CASE now' = now /\ purge' = purge /\ \A i \in Id : stamp'[i] \in {stamp[i], now}
    BY <1>0, <2>1 DEF Young
  <2>2. ASSUME now' = now, NEW i \in Id, Touch(i) PROVE Young'
    <3>1. /\ purge'.at = purge.at /\ purge'.cutoff = purge.cutoff
          /\ purge'.touched \subseteq purge.touched \cup {i}
          /\ stamp'[i] = now /\ \A j \in Id \ {i} : stamp'[j] = stamp[j]
      BY <2>2, TouchFacts DEF Inv
    <3>. QED
      BY <1>0, <2>2, <3>1 DEF Young
  <2>. QED
    BY <1>1, <2>1, <2>2, RequestSteps
<1>2. CASE PurgeStep
  <2>1. CASE purge'.at = "idle"
    BY <2>1 DEF Young
  <2>2. CASE now' = now /\ purge'.cutoff = now /\ purge'.touched = {}
    BY <1>0, <2>2 DEF Young
  <2>3. CASE /\ UNCHANGED <<now, stamp>> /\ purge.at # "idle"
             /\ purge'.cutoff = purge.cutoff /\ purge'.touched = purge.touched
    BY <2>3 DEF Young
  <2>. QED
    BY <1>2, <2>1, <2>2, <2>3, PurgeSteps
<1>3. CASE Crash
  BY <1>3 DEF Crash, Young, NoPurge
<1>4. CASE Restart \/ UNCHANGED vars
  BY <1>4 DEF Restart, vars, maps, Young
<1>5. CASE Tick
  BY <1>0, <1>5 DEF Tick, maps, Young
<1>. QED
  BY <1>1, <1>2, <1>3, <1>4, <1>5 DEF Next

\* The cleanup throws away no upload a chunk of which has ended since it began, however
\* old the upload was when the cleanup reached it and waited for its lock
\* (purgeStaleUploads).
THEOREM CleanupSpares == Spec => PurgeSparesActive
<1>. DEFINE Spares == up /\ up' /\ purge' # purge
                      => \A i \in purge.touched \cap (uploads \cup files) :
                            i \in uploads' \cup files'
<1>1. Init => Young
  BY DEF Init, NoPurge, Young
<1>2. Inv /\ Young /\ [Next]_vars => [Spares]_vars
  <2>. SUFFICES ASSUME Inv, Young, Next, up, up', purge' # purge,
                       NEW i \in purge.touched, i \in uploads \cup files
                PROVE  i \in uploads' \cup files'
    OBVIOUS
  <2>1. ASSUME NEW r \in Slot,
               ClientStep(r) \/ BodyStep(r) \/ LockStep(r) \/ ServerStep(r)
        PROVE  UNCHANGED <<uploads, files>>
    BY <2>1, RequestSteps
  <2>2. CASE PurgeStep
    <3>1. CASE UNCHANGED <<uploads, files>>
      BY <3>1
    <3>2. ASSUME purge.at # "idle",
                 \A j \in Id : ~Stale(j) => /\ j \in uploads => j \in uploads'
                                            /\ j \in files => j \in files'
          PROVE  i \in uploads' \cup files'
      <4>1. /\ i \in Id /\ stamp[i] \in Nat /\ purge.cutoff \in Nat
            /\ purge.cutoff <= stamp[i] /\ Retention \in Nat
        BY <3>2, UploadsAssumption DEF Inv, Types, Cleanup, Young
      <4>2. ~Stale(i)
        BY <4>1 DEF Stale
      <4>. QED
        BY <3>2, <4>1, <4>2
    <3>. QED
      BY <2>2, <3>1, <3>2, PurgeSteps
  <2>3. ~Crash /\ ~Restart /\ ~Tick
    BY DEF Crash, Restart, Tick
  <2>. QED
    BY <2>1, <2>2, <2>3 DEF Next
<1>. QED
  BY <1>1, <1>2, Invariant, YoungNext, PTL DEF Spec, PurgeSparesActive
=============================================================================
