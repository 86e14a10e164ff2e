------------------------- MODULE UploadsRefinement -------------------------
(***************************************************************************)
(* Uploads implements UploadSpec: each step of the service is a step of    *)
(* the abstract one upon one id, or upon all of them when the process      *)
(* ends, or none.                                                          *)
(***************************************************************************)
EXTENDS UploadsProofs

USE DEF vars, maps, disk

---------------------------------------------------------------------------
(* What the abstract service shows of an id *)

\* No request works on the bytes of id i.
Unowned(i) == \A r \in Slot : Owns(r) => req[r].id # i

Shows(i, p, n) == Phase(i) = p /\ Offset(i) = n

\* By the owner of an id, or by the maps if it has none.
View ==
    \A i \in Id :
        /\ i \in files => Shows(i, "done", size[i])
        /\ i \notin used => Shows(i, "unused", 0)
        /\ Unowned(i) /\ i \in uploads => Shows(i, "open", Len(part[i]))
        /\ Unowned(i) /\ i \in used /\ i \notin uploads /\ i \notin files => Shows(i, "gone", 0)
        /\ \A r \in Slot : req[r].id = i =>
             /\ At(r, "form") => Shows(i, "unused", 0)
             /\ At(r, "publish") => Shows(i, "open", 0)
             /\ At(r, "copy") => Shows(i, "open", req[r].offset)
             /\ At(r, "finish") \/ At(r, "register") => Shows(i, "open", size[i])

LEMMA UnownedServing ==
    ASSUME NEW i \in Id, Unowned(i)
    PROVE  \A P \in SUBSET {"publish", "form", "copy", "finish", "register"} : ~Serving(i, P)
BY DEF Unowned, Owns, Serving

LEMMA InvView == Inv => View
<1>. SUFFICES ASSUME Inv, NEW i \in Id
              PROVE  /\ i \in files => Shows(i, "done", size[i])
                     /\ i \notin used => Shows(i, "unused", 0)
                     /\ Unowned(i) /\ i \in uploads => Shows(i, "open", Len(part[i]))
                     /\ Unowned(i) /\ i \in used /\ i \notin uploads /\ i \notin files
                        => Shows(i, "gone", 0)
                     /\ \A r \in Slot : req[r].id = i =>
                          /\ At(r, "form") => Shows(i, "unused", 0)
                          /\ At(r, "publish") => Shows(i, "open", 0)
                          /\ At(r, "copy") => Shows(i, "open", req[r].offset)
                          /\ At(r, "finish") \/ At(r, "register") => Shows(i, "open", size[i])
  BY DEF View
<1>1. State(i) /\ size[i] \in Nat
  BY DEF Inv, IInv, Types
<1>2. i \in files => Shows(i, "done", size[i])
  BY DEF Shows, Phase, Offset
<1>3. ASSUME Unowned(i)
      PROVE  /\ ~Serving(i, {"publish", "finish", "register"}) /\ ~Serving(i, {"form"})
             /\ ~Serving(i, {"register"}) /\ ~Serving(i, {"copy"})
  BY <1>3, UnownedServing
<1>4. i \notin used => Shows(i, "unused", 0)
  <2>. SUFFICES ASSUME i \notin used PROVE Shows(i, "unused", 0)
    OBVIOUS
  <2>1. Unowned(i)
    BY FreshSole DEF Unowned
  <2>2. i \notin uploads /\ i \notin files
    BY <1>1 DEF State, Unused, Fresh
  <2>. QED
    BY <1>3, <2>1, <2>2 DEF Shows, Phase, Offset
<1>5. Unowned(i) /\ i \in uploads => Shows(i, "open", Len(part[i]))
  <2>1. i \in uploads => i \notin files
    BY <1>1 DEF State, Uploaded
  <2>. QED
    BY <1>3, <2>1 DEF Shows, Phase, Offset
<1>6. Unowned(i) /\ i \in used /\ i \notin uploads /\ i \notin files => Shows(i, "gone", 0)
  BY <1>3 DEF Shows, Phase, Offset
<1>7. ASSUME NEW r \in Slot, req[r].id = i
      PROVE  /\ At(r, "form") => Shows(i, "unused", 0)
             /\ At(r, "publish") => Shows(i, "open", 0)
             /\ At(r, "copy") => Shows(i, "open", req[r].offset)
             /\ At(r, "finish") \/ At(r, "register") => Shows(i, "open", size[i])
  <2>1. Work(r) /\ (At(r, "publish") \/ At(r, "form") \/ At(r, "copy") \/ At(r, "finish")
                    \/ At(r, "register") => Owns(r))
    BY DEF Inv, IInv, Owns, At
  <2>2. ASSUME Owns(r), NEW P \in SUBSET {"publish", "form", "copy", "finish", "register"}
        PROVE  Serving(i, P) <=> req[r].at \in P
    BY <1>7, <2>2, OwnerServing
  <2>3. CASE At(r, "form")
    <3>1. /\ ~Serving(i, {"publish", "finish", "register"}) /\ Serving(i, {"form"})
          /\ ~Serving(i, {"register"})
      BY <2>1, <2>2, <2>3 DEF At
    <3>2. i \notin uploads /\ i \notin files
      BY <1>7, <2>1, <2>3 DEF Work, Forming, Fresh
    <3>. QED
      BY <2>3, <3>1, <3>2 DEF Shows, Phase, Offset, At
  <2>4. CASE At(r, "publish")
    <3>1. /\ Serving(i, {"publish", "finish", "register"}) /\ ~Serving(i, {"copy"})
          /\ ~Serving(i, {"register"})
      BY <2>1, <2>2, <2>4 DEF At
    <3>2. i \notin files /\ part[i] = <<>>
      BY <1>7, <2>1, <2>4 DEF Work, Publishing, Fresh
    <3>3. Len(part[i]) = 0
      BY <3>2
    <3>. QED
      BY <2>4, <3>1, <3>2, <3>3 DEF Shows, Phase, Offset, At
  <2>5. CASE At(r, "copy")
    <3>1. Serving(i, {"copy"}) /\ ~Serving(i, {"register"})
      BY <2>1, <2>2, <2>5 DEF At
    <3>2. i \in uploads /\ i \notin files
      BY <1>7, <2>5, CopyFacts
    <3>3. \A s \in Slot : At(s, "copy") /\ req[s].id = i => s = r
      BY <1>7, <2>5 DEF Inv, IInv, Alone, At, Owns
    <3>4. (CHOOSE s \in Slot : At(s, "copy") /\ req[s].id = i) = r
      BY <1>7, <2>5, <3>3
    <3>. QED
      BY <2>5, <3>1, <3>2, <3>4 DEF Shows, Phase, Offset, At
  <2>6. CASE At(r, "finish")
    <3>1. /\ Serving(i, {"publish", "finish", "register"}) /\ ~Serving(i, {"copy"})
          /\ ~Serving(i, {"register"})
      BY <2>1, <2>2, <2>6 DEF At
    <3>2. i \notin files /\ part[i] = Bytes(size[i])
      BY <1>1, <1>7, <2>1, <2>6, NoBytes DEF Work, Finishing, Fresh, Holds
    <3>3. Len(part[i]) = size[i]
      BY <1>1, <3>2, BytesType
    <3>. QED
      BY <2>6, <3>1, <3>2, <3>3 DEF Shows, Phase, Offset, At
  <2>7. CASE At(r, "register")
    <3>1. Serving(i, {"publish", "finish", "register"}) /\ Serving(i, {"register"})
      BY <2>1, <2>2, <2>7 DEF At
    <3>2. i \notin files
      BY <1>7, <2>1, <2>7 DEF Work, Registering
    <3>. QED
      BY <2>7, <3>1, <3>2 DEF Shows, Phase, Offset, At
  <2>. QED
    BY <2>3, <2>4, <2>5, <2>6, <2>7
<1>. QED
  BY <1>2, <1>4, <1>5, <1>6, <1>7

\* The same of the state after a step.
LEMMA InvViewNext == Inv' => View'
BY InvView, PTL

---------------------------------------------------------------------------
(* One step *)

\* The step is none for id i, or one of the abstract service.
Stays(i)     == Phase(i)' = Phase(i) /\ size'[i] = size[i] /\ Offset(i)' = Offset(i)
Opens(i)     == /\ Phase(i) = "unused" /\ Phase(i)' = "open"
                /\ size'[i] \in 0..MaxUpload /\ Offset(i)' = Offset(i)
Grows(i)     == /\ Phase(i) = "open" /\ Phase(i)' = "open" /\ size'[i] = size[i]
                /\ Offset(i)' \in (Offset(i) + 1)..size[i]
Completes(i) == /\ Phase(i) = "open" /\ Offset(i) = size[i] /\ Phase(i)' = "done"
                /\ size'[i] = size[i] /\ Offset(i)' = Offset(i)
Deposits(i)  == /\ Phase(i) = "unused" /\ Phase(i)' = "done"
                /\ size'[i] \in 0..MaxUpload /\ Offset(i)' = size'[i]
Vanishes(i)  == Phase(i)' = "gone" /\ Offset(i)' = 0 /\ size'[i] = size[i]

Follows(i) == \/ Stays(i) \/ Opens(i) \/ Grows(i) \/ Completes(i) \/ Deposits(i)
              \/ Vanishes(i)

LEMMA StayRefines ==
    ASSUME Types, Types', \A i \in Id : Stays(i)
    PROVE  UNCHANGED Service!vars
BY DEF Stays, Service!vars, Types

LEMMA FollowRefines ==
    ASSUME Types, Types', NEW i \in Id, Follows(i), \A j \in Id \ {i} : Stays(j)
    PROVE  [Service!Next]_Service!vars
<1>. DEFINE phase  == [j \in Id |-> Phase(j)]
            length == [j \in Id |-> size[j]]
            offset == [j \in Id |-> Offset(j)]
<1>0. /\ phase' = [phase EXCEPT ![i] = Phase(i)']
      /\ length' = [length EXCEPT ![i] = size'[i]]
      /\ offset' = [offset EXCEPT ![i] = Offset(i)']
  BY DEF Stays
<1>1. CASE Stays(i)
  BY <1>1, StayRefines
<1>2. CASE Opens(i)
  <2>1. UNCHANGED offset
    BY <1>2 DEF Opens, Stays
  <2>2. Service!Open(i)
    BY <1>0, <1>2, <2>1 DEF Opens, Service!Open
  <2>. QED
    BY <2>2 DEF Service!Next
<1>3. CASE Grows(i)
  <2>1. UNCHANGED <<phase, length>>
    BY <1>3 DEF Grows, Stays
  <2>2. Service!Grow(i)
    BY <1>0, <1>3, <2>1 DEF Grows, Service!Grow
  <2>. QED
    BY <2>2 DEF Service!Next
<1>4. CASE Completes(i)
  <2>1. UNCHANGED <<length, offset>>
    BY <1>4 DEF Completes, Stays
  <2>2. Service!Complete(i)
    BY <1>0, <1>4, <2>1 DEF Completes, Service!Complete
  <2>. QED
    BY <2>2 DEF Service!Next
<1>5. CASE Deposits(i)
  <2>1. phase[i] = "unused" /\ phase' = [phase EXCEPT ![i] = "done"]
    BY <1>0, <1>5 DEF Deposits
  <2>2. /\ size'[i] \in 0..MaxUpload /\ length' = [length EXCEPT ![i] = size'[i]]
        /\ offset' = [offset EXCEPT ![i] = size'[i]]
    BY <1>0, <1>5 DEF Deposits
  <2>3. Service!Deposit(i)
    BY <2>1, <2>2 DEF Service!Deposit
  <2>. QED
    BY <2>3 DEF Service!Next
<1>6. CASE Vanishes(i)
  <2>1. /\ phase' = [j \in Id |-> IF j \in {i} THEN "gone" ELSE phase[j]]
        /\ offset' = [j \in Id |-> IF j \in {i} THEN 0 ELSE offset[j]]
        /\ UNCHANGED length
    BY <1>6 DEF Vanishes, Stays
  <2>2. {i} \in SUBSET Id
    OBVIOUS
  <2>3. Service!Vanish
    BY <2>1, <2>2 DEF Service!Vanish
  <2>. QED
    BY <2>3 DEF Service!Next
<1>. QED
  BY <1>1, <1>2, <1>3, <1>4, <1>5, <1>6 DEF Follows

---------------------------------------------------------------------------
(* Each step of the service *)

\* Nothing that View says of id i changes.
SameView(i) ==
    /\ i \in uploads' <=> i \in uploads
    /\ i \in files' <=> i \in files
    /\ i \in used' <=> i \in used
    /\ size'[i] = size[i] /\ part'[i] = part[i]
    /\ \A r \in Slot :
         /\ Owns(r)' /\ req'[r].id = i <=> Owns(r) /\ req[r].id = i
         /\ Owns(r) /\ req[r].id = i => req'[r].at = req[r].at
                                        /\ req'[r].offset = req[r].offset

LEMMA SameStays ==
    ASSUME Inv, Inv', NEW i \in Id, SameView(i)
    PROVE  Stays(i)
<1>1. View /\ View'
  BY InvView, InvViewNext
<1>2. ASSUME NEW p, NEW n, Shows(i, p, n), Shows(i, p, n)'
      PROVE  Stays(i)
  BY <1>2 DEF Shows, Stays, SameView
<1>3. CASE i \in files
  BY <1>1, <1>2, <1>3 DEF View, SameView
<1>4. CASE i \notin used
  BY <1>1, <1>2, <1>4 DEF View, SameView
<1>5. CASE Unowned(i) /\ i \in used /\ i \notin files
  <2>1. Unowned(i)'
    BY <1>5 DEF Unowned, SameView
  <2>. QED
    BY <1>1, <1>2, <1>5, <2>1 DEF View, SameView
<1>6. ASSUME NEW r \in Slot, Owns(r), req[r].id = i PROVE Stays(i)
  <2>1. req'[r].id = i /\ req'[r].at = req[r].at /\ req'[r].offset = req[r].offset
    BY <1>6 DEF SameView
  <2>2. At(r, "form") \/ At(r, "publish") \/ At(r, "copy") \/ At(r, "finish")
        \/ At(r, "register")
    BY <1>6 DEF Owns, At
  <2>3. CASE At(r, "form")
    <3>1. Shows(i, "unused", 0) /\ Shows(i, "unused", 0)'
      BY <1>1, <1>6, <2>1, <2>3 DEF View, At
    <3>. QED
      BY <1>2, <3>1
  <2>4. CASE At(r, "publish")
    <3>1. Shows(i, "open", 0) /\ Shows(i, "open", 0)'
      BY <1>1, <1>6, <2>1, <2>4 DEF View, At
    <3>. QED
      BY <1>2, <3>1
  <2>5. CASE At(r, "copy")
    <3>1. Shows(i, "open", req[r].offset) /\ Shows(i, "open", req[r].offset)'
      BY <1>1, <1>6, <2>1, <2>5 DEF View, At
    <3>. QED
      BY <2>1, <3>1 DEF Shows, Stays, SameView
  <2>6. CASE At(r, "finish") \/ At(r, "register")
    <3>1. Shows(i, "open", size[i]) /\ Shows(i, "open", size[i])'
      BY <1>1, <1>6, <2>1, <2>6 DEF View, At
    <3>. QED
      BY <3>1 DEF Shows, Stays, SameView
  <2>. QED
    BY <2>2, <2>3, <2>4, <2>5, <2>6
<1>. QED
  BY <1>3, <1>4, <1>5, <1>6 DEF Unowned

\* A step upon id i leaves the others as they are.
LEMMA OthersStay ==
    ASSUME Inv, Inv', NEW i \in Id, NEW R \in SUBSET Slot,
           \A q \in Slot \ R : req'[q] = req[q],
           \A q \in R : /\ Owns(q) => req[q].id = i
                        /\ Owns(q)' => req'[q].id = i,
           \A j \in Id \ {i} : /\ j \in uploads' <=> j \in uploads
                               /\ j \in files' <=> j \in files
                               /\ j \in used' <=> j \in used
                               /\ size'[j] = size[j] /\ part'[j] = part[j]
    PROVE  \A j \in Id \ {i} : Stays(j)
<1>. SUFFICES ASSUME NEW j \in Id \ {i} PROVE Stays(j)
  OBVIOUS
<1>1. ASSUME NEW r \in Slot
      PROVE  /\ Owns(r)' /\ req'[r].id = j <=> Owns(r) /\ req[r].id = j
             /\ Owns(r) /\ req[r].id = j => req'[r].at = req[r].at
                                            /\ req'[r].offset = req[r].offset
  <2>1. CASE r \in R
    BY <2>1
  <2>2. CASE r \notin R
    BY <2>2 DEF Owns
  <2>. QED
    BY <2>1, <2>2
<1>2. SameView(j)
  BY <1>1 DEF SameView
<1>. QED
  BY <1>2, SameStays

LEMMA RequestOthersStay ==
    ASSUME Inv, Inv', NEW i \in Id, NEW r \in Slot,
           \A q \in Slot \ {r} : req'[q] = req[q],
           Owns(r) => req[r].id = i, Owns(r)' => req'[r].id = i,
           \A j \in Id \ {i} : /\ j \in uploads' <=> j \in uploads
                               /\ j \in files' <=> j \in files
                               /\ j \in used' <=> j \in used
                               /\ size'[j] = size[j] /\ part'[j] = part[j]
    PROVE  \A j \in Id \ {i} : Stays(j)
<1>1. {r} \in SUBSET Slot
  OBVIOUS
<1>2. \A q \in {r} : /\ Owns(q) => req[q].id = i
                     /\ Owns(q)' => req'[q].id = i
  OBVIOUS
<1>. QED
  BY <1>1, <1>2, OthersStay

\* A step of a request that owns no bytes, or of the cleanup, shows nothing.
LEMMA QuietRefines ==
    ASSUME Inv, Inv', \A r \in Slot : req'[r] = req[r] \/ (~Owns(r) /\ ~Owns(r)'),
           UNCHANGED <<uploads, files, used, size, part>>
    PROVE  [Service!Next]_Service!vars
<1>1. ASSUME NEW i \in Id PROVE SameView(i)
  BY DEF SameView, Owns
<1>. QED
  BY <1>1, SameStays, StayRefines DEF Inv

LEMMA ClientRefines ==
    ASSUME Inv, Inv', NEW r \in Slot, ClientStep(r)
    PROVE  [Service!Next]_Service!vars
<1>1. /\ req \in [Slot -> Request] /\ Types /\ Types' /\ View /\ View'
      /\ ~Owns(r)
  BY InvView, InvViewNext DEF Inv, Types, ClientStep, Close, Begin, Create, Form, At, Owns
<1>2. CASE Close(r)
  <2>1. \A q \in Slot : req'[q] = req[q] \/ (~Owns(q) /\ ~Owns(q)')
    BY <1>1, <1>2 DEF Close, Idle, Owns
  <2>. QED
    BY <1>2, <2>1, QuietRefines DEF Close
<1>3. CASE Begin(r)
  <2>1. \A q \in Slot : req'[q] = req[q] \/ (~Owns(q) /\ ~Owns(q)')
    <3>1. \A q \in Slot \ {r} : req'[q] = req[q]
      BY <1>1, <1>3 DEF Begin
    <3>2. req'[r].at = "lookup"
      BY <1>1, <1>3 DEF Begin, Idle
    <3>. QED
      BY <1>1, <3>1, <3>2 DEF Owns
  <2>. QED
    BY <1>3, <2>1, QuietRefines DEF Begin
<1>4. CASE Create(r)
  <2>1. PICK i \in Id \ used, n \in Sizes :
          /\ used' = used \cup {i}
          /\ size' = [size EXCEPT ![i] = n]
          /\ part' = [part EXCEPT ![i] = <<>>]
          /\ req' = [req EXCEPT ![r] =
               [Idle EXCEPT !.at = IF n = 0 THEN "finish" ELSE "publish",
                            !.op = "create", !.id = i]]
    BY <1>4 DEF Create
  <2>2. /\ req'[r].at = (IF n = 0 THEN "finish" ELSE "publish") /\ req'[r].id = i
        /\ \A q \in Slot \ {r} : req'[q] = req[q]
    BY <1>1, <2>1 DEF Idle
  <2>3. \A j \in Id \ {i} : Stays(j)
    <3>1. UNCHANGED <<uploads, files>>
      BY <1>4 DEF Create
    <3>2. \A j \in Id \ {i} : /\ j \in used' <=> j \in used
                              /\ size'[j] = size[j] /\ part'[j] = part[j]
      BY <1>1, <2>1 DEF Types
    <3>. QED
      BY <1>1, <2>2, <3>1, <3>2, RequestOthersStay
  <2>4. Shows(i, "unused", 0)
    BY <1>1 DEF View
  <2>5. size'[i] = n /\ n \in 0..MaxUpload
    BY <1>1, <2>1, UploadsAssumption DEF Types
  <2>6. Shows(i, "open", 0)'
    <3>1. CASE n = 0
      BY <1>1, <2>2, <2>5, <3>1 DEF View, At
    <3>2. CASE n # 0
      BY <1>1, <2>2, <3>2 DEF View, At
    <3>. QED
      BY <3>1, <3>2
  <2>7. Opens(i)
    BY <2>4, <2>5, <2>6 DEF Shows, Opens
  <2>. QED
    BY <1>1, <2>3, <2>7, FollowRefines DEF Follows
<1>5. CASE Form(r)
  <2>1. PICK i \in Id \ used, n \in 0..(MaxUpload + 1) :
          /\ used' = used \cup {i}
          /\ req' = [req EXCEPT ![r] =
               [Idle EXCEPT !.at = "form", !.op = "form", !.id = i, !.len = n]]
    BY <1>5 DEF Form
  <2>2. /\ req'[r].at = "form" /\ req'[r].id = i
        /\ \A q \in Slot \ {r} : req'[q] = req[q]
    BY <1>1, <2>1 DEF Idle
  <2>3. UNCHANGED <<uploads, files, size, part>>
    BY <1>5 DEF Form
  <2>4. \A j \in Id \ {i} : Stays(j)
    BY <1>1, <2>1, <2>2, <2>3, RequestOthersStay
  <2>5. Shows(i, "unused", 0) /\ Shows(i, "unused", 0)'
    BY <1>1, <2>2 DEF View, At
  <2>6. Stays(i)
    BY <2>3, <2>5 DEF Shows, Stays
  <2>. QED
    BY <1>1, <2>4, <2>6, FollowRefines DEF Follows
<1>. QED
  BY <1>2, <1>3, <1>4, <1>5 DEF ClientStep

\* A step of the owner of id i that follows the abstract service on that id.
LEMMA OwnerRefines ==
    ASSUME Inv, Inv', NEW r \in Slot, Owns(r), NEW i \in Id, i = req[r].id,
           req'[r].id = i, \A q \in Slot \ {r} : req'[q] = req[q],
           \A j \in Id \ {i} : /\ j \in uploads' <=> j \in uploads
                               /\ j \in files' <=> j \in files
                               /\ size'[j] = size[j] /\ part'[j] = part[j],
           UNCHANGED used, Follows(i)
    PROVE  [Service!Next]_Service!vars
<1>1. \A j \in Id \ {i} : Stays(j)
  BY RequestOthersStay
<1>2. Types /\ Types'
  BY DEF Inv
<1>. QED
  BY <1>1, <1>2, FollowRefines

\* Once the owner of an id has been answered, no one owns it.
LEMMA AnsweredUnowned ==
    ASSUME Inv, NEW r \in Slot, Owns(r), NEW i \in Id, i = req[r].id,
           req'[r].at = "answered", \A q \in Slot \ {r} : req'[q] = req[q]
    PROVE  Unowned(i)'
BY DEF Inv, IInv, Alone, Unowned, Owns

LEMMA EndRefines ==
    ASSUME Inv, Inv', NEW r \in Slot,
           Publish(r) \/ Finish(r) \/ FinishFails(r) \/ Register(r)
    PROVE  [Service!Next]_Service!vars
<1>0. PICK i \in Id : i = req[r].id
  BY Busy DEF Publish, Finish, FinishFails, Register, At
<1>1. /\ Owns(r) /\ Work(r) /\ Types /\ View /\ View' /\ i \in used /\ size[i] \in Nat
  <2>1. Owns(r) /\ req[r].at # "idle"
    BY DEF Publish, Finish, FinishFails, Register, At, Owns
  <2>2. Work(r) /\ Types
    BY DEF Inv, IInv
  <2>3. i \in used /\ size[i] \in Nat
    BY <1>0, <2>1, <2>2, Busy DEF Types
  <2>. QED
    BY <2>1, <2>2, <2>3, InvView, InvViewNext
<1>2. CASE Publish(r)
  <2>1. /\ uploads' = uploads \cup {i} /\ UNCHANGED <<files, size, part, used>>
        /\ At(r, "publish")
    BY <1>0, <1>2 DEF Publish
  <2>2. /\ req'[r].at = "answered" /\ req'[r].id = i
        /\ \A q \in Slot \ {r} : req'[q] = req[q]
    BY <1>0, <1>1, <1>2, AnswerFacts DEF Publish
  <2>3. Unowned(i)'
    BY <1>0, <1>1, <2>2, AnsweredUnowned
  <2>4. Shows(i, "open", 0)
    BY <1>0, <1>1, <2>1 DEF View
  <2>5. part'[i] = <<>> /\ Len(<<>>) = 0
    BY <1>0, <1>1, <2>1 DEF Work, Publishing
  <2>6. Shows(i, "open", 0)'
    BY <1>1, <2>1, <2>3, <2>5 DEF View
  <2>7. Stays(i)
    BY <2>1, <2>4, <2>6 DEF Shows, Stays
  <2>. QED
    BY <1>0, <1>1, <2>1, <2>2, <2>7, OwnerRefines DEF Follows
<1>3. CASE Finish(r)
  <2>1. /\ uploads' = uploads \ {i} /\ part' = [part EXCEPT ![i] = Absent]
        /\ UNCHANGED <<files, size, used>> /\ At(r, "finish")
    BY <1>0, <1>3 DEF Finish
  <2>2. /\ req'[r].at = "register" /\ req'[r].id = i
        /\ \A q \in Slot \ {r} : req'[q] = req[q]
    BY <1>0, <1>1, <1>3, GotoFacts DEF Finish
  <2>3. Shows(i, "open", size[i]) /\ Shows(i, "open", size[i])'
    BY <1>0, <1>1, <2>1, <2>2 DEF View, At
  <2>4. Stays(i)
    BY <2>1, <2>3 DEF Shows, Stays
  <2>. QED
    BY <1>0, <1>1, <2>1, <2>2, <2>4, OwnerRefines DEF Follows, Types
<1>4. CASE FinishFails(r)
  <2>1. UNCHANGED <<uploads, files, size, part, used>> /\ At(r, "finish")
    BY <1>0, <1>4 DEF FinishFails
  <2>2. /\ req'[r].at = "answered" /\ req'[r].id = i
        /\ \A q \in Slot \ {r} : req'[q] = req[q]
    BY <1>0, <1>1, <1>4, AnswerFacts DEF FinishFails
  <2>3. Unowned(i)'
    BY <1>0, <1>1, <2>2, AnsweredUnowned
  <2>4. Shows(i, "open", size[i])
    BY <1>0, <1>1, <2>1 DEF View
  <2>5. CASE i \in uploads /\ part[i] = Bytes(size[i])
    <3>1. Len(part'[i]) = size[i]
      BY <1>1, <2>1, <2>5, BytesType
    <3>2. Shows(i, "open", size[i])'
      BY <1>1, <2>1, <2>3, <2>5, <3>1 DEF View
    <3>3. Stays(i)
      BY <2>1, <2>4, <3>2 DEF Shows, Stays
    <3>. QED
      BY <1>0, <1>1, <2>1, <2>2, <3>3, OwnerRefines DEF Follows
  <2>6. CASE i \notin uploads /\ i \notin files
    <3>1. Shows(i, "gone", 0)'
      BY <1>1, <2>1, <2>3, <2>6 DEF View
    <3>2. Vanishes(i)
      BY <2>1, <3>1 DEF Shows, Vanishes
    <3>. QED
      BY <1>0, <1>1, <2>1, <2>2, <3>2, OwnerRefines DEF Follows
  <2>. QED
    BY <1>0, <1>1, <2>1, <2>5, <2>6 DEF Work, Finishing, Holds, Fresh
<1>5. CASE Register(r)
  <2>1. /\ files' = files \cup {i} /\ UNCHANGED <<uploads, size, part, used>>
        /\ At(r, "register")
    BY <1>0, <1>5 DEF Register
  <2>2. /\ req'[r].at = "answered" /\ req'[r].id = i
        /\ \A q \in Slot \ {r} : req'[q] = req[q]
    BY <1>0, <1>1, <1>5, AnswerFacts DEF Register
  <2>3. Shows(i, "open", size[i])
    BY <1>0, <1>1, <2>1 DEF View
  <2>4. Shows(i, "done", size[i])'
    BY <1>1, <2>1 DEF View
  <2>5. Completes(i)
    BY <2>1, <2>3, <2>4 DEF Shows, Completes
  <2>. QED
    BY <1>0, <1>1, <2>1, <2>2, <2>5, OwnerRefines DEF Follows
<1>. QED
  BY <1>2, <1>3, <1>4, <1>5

LEMMA CopyRefines ==
    ASSUME Inv, Inv', NEW r \in Slot, Copy(r) \/ CopyEnds(r) \/ CopyFails(r)
    PROVE  [Service!Next]_Service!vars
<1>0. PICK i \in Id : i = req[r].id
  BY Busy DEF Copy, CopyEnds, CopyFails, At
<1>. PICK o, w : o = req[r].offset /\ w = req[r].written
  OBVIOUS
<1>1. At(r, "copy") /\ UNCHANGED <<uploads, files, size, used>>
  BY DEF Copy, CopyEnds, CopyFails
<1>2. /\ Owns(r) /\ i \in used /\ i \in uploads /\ i \notin files
      /\ o \in Nat /\ w \in Nat /\ size[i] \in Nat /\ o <= size[i]
      /\ Limit(r) \in Nat /\ o + Limit(r) <= size[i] /\ part[i] = Bytes(o + w)
  BY <1>0, <1>1, CopyFacts
<1>3. Types /\ View /\ View' /\ Shows(i, "open", o)
  BY <1>0, <1>1, InvView, InvViewNext DEF View, Inv
<1>4. \A j \in Id \ {i} : part'[j] = part[j]
  BY <1>0, <1>3 DEF Copy, CopyEnds, CopyFails, Types
<1>5. ASSUME req'[r].id = i, \A q \in Slot \ {r} : req'[q] = req[q],
             NEW n \in o..size[i], Shows(i, "open", n)'
      PROVE  [Service!Next]_Service!vars
  <2>1. CASE n = o
    <3>1. Stays(i)
      BY <1>1, <1>3, <1>5, <2>1 DEF Shows, Stays
    <3>. QED
      BY <1>0, <1>1, <1>2, <1>4, <1>5, <3>1, OwnerRefines DEF Follows
  <2>2. CASE n # o
    <3>1. n \in (o + 1)..size[i]
      BY <1>2, <2>2
    <3>2. Grows(i)
      BY <1>1, <1>3, <1>5, <3>1 DEF Shows, Grows
    <3>. QED
      BY <1>0, <1>1, <1>2, <1>4, <1>5, <3>2, OwnerRefines DEF Follows
  <2>. QED
    BY <2>1, <2>2
<1>6. ASSUME NEW s \in Nat, Answer(r, s), NEW n \in o..size[i], part'[i] = Bytes(n)
      PROVE  [Service!Next]_Service!vars
  <2>1. /\ req'[r].at = "answered" /\ req'[r].id = i
        /\ \A q \in Slot \ {r} : req'[q] = req[q]
    BY <1>0, <1>3, <1>6, AnswerFacts
  <2>2. Unowned(i)'
    BY <1>0, <1>2, <2>1, AnsweredUnowned
  <2>3. Len(part'[i]) = n
    <3>1. n \in Nat
      BY <1>2
    <3>. QED
      BY <1>6, <3>1, BytesType
  <2>4. Shows(i, "open", n)'
    BY <1>1, <1>2, <1>3, <2>2, <2>3 DEF View
  <2>. QED
    BY <1>5, <2>1, <2>4
<1>7. CASE Copy(r)
  <2>1. /\ req'[r] = [req[r] EXCEPT !.written = w + 1]
        /\ \A q \in Slot \ {r} : req'[q] = req[q]
    BY <1>3, <1>7 DEF Copy, Types
  <2>2. req'[r].at = "copy" /\ req'[r].id = i /\ req'[r].offset = o
    <3>1. req[r] \in Request
      BY <1>3 DEF Types
    <3>. QED
      BY <1>0, <1>1, <2>1, <3>1 DEF At, Request
  <2>3. Shows(i, "open", o)'
    BY <1>3, <2>2 DEF View, At
  <2>. QED
    BY <1>2, <1>5, <2>1, <2>2, <2>3
<1>8. CASE CopyEnds(r)
  <2>1. CASE Overflow(r) /\ part' = [part EXCEPT ![i] = Cut(@, o)] /\ Answer(r, 413)
    <3>1. o + w \in Nat /\ o \in 0..(o + w)
      BY <1>2
    <3>2. part'[i] = Bytes(o)
      <4>1. part[i] = Bytes(o + w) /\ SubSeq(Bytes(o + w), 1, o) = Bytes(o)
        BY <1>2, <3>1, BytesCut
      <4>2. part'[i] = SubSeq(part[i], 1, o)
        BY <1>3, <2>1 DEF Cut, Types
      <4>. QED
        BY <4>1, <4>2
    <3>3. o \in o..size[i]
      BY <1>2
    <3>. QED
      BY <1>6, <2>1, <3>2, <3>3
  <2>2. CASE Complete(r) /\ Goto(r, "finish")
    <3>1. /\ req'[r].at = "finish" /\ req'[r].id = i
          /\ \A q \in Slot \ {r} : req'[q] = req[q]
      BY <1>0, <1>3, <2>2, GotoFacts
    <3>2. Shows(i, "open", size[i])'
      BY <1>1, <1>3, <3>1 DEF View, At
    <3>3. PICK n \in o..size[i] : n = size[i]
      BY <1>2
    <3>4. Shows(i, "open", n)'
      BY <1>1, <3>2, <3>3 DEF Shows
    <3>. QED
      BY <1>5, <3>1, <3>4
  <2>3. CASE ~Overflow(r) /\ Answer(r, 200) /\ UNCHANGED part
    <3>1. o + w \in o..size[i]
      BY <1>2, <2>3 DEF Overflow
    <3>. QED
      BY <1>2, <1>6, <2>3, <3>1
  <2>. QED
    BY <1>0, <1>8, <2>1, <2>2, <2>3 DEF CopyEnds
<1>9. CASE CopyFails(r)
  <2>1. ~Overflow(r) /\ Answer(r, 400) /\ UNCHANGED part
    BY <1>9 DEF CopyFails
  <2>2. o + w \in o..size[i]
    BY <1>2, <2>1 DEF Overflow
  <2>. QED
    BY <1>2, <1>6, <2>1, <2>2
<1>. QED
  BY <1>7, <1>8, <1>9

LEMMA FormRefines ==
    ASSUME Inv, Inv', NEW r \in Slot, FormCopy(r) \/ FormEnds(r) \/ FormFails(r)
    PROVE  [Service!Next]_Service!vars
<1>0. PICK i \in Id : i = req[r].id
  BY Busy DEF FormCopy, FormEnds, FormFails, At
<1>1. At(r, "form") /\ UNCHANGED <<uploads, part, used>>
  BY DEF FormCopy, FormEnds, FormFails
<1>2. /\ Owns(r) /\ i \in used /\ i \notin uploads /\ i \notin files /\ req[r].len \in Nat
  BY <1>0, <1>1, FormFacts DEF Fresh
<1>3. Types /\ View /\ View' /\ Shows(i, "unused", 0)
  BY <1>0, <1>1, InvView, InvViewNext DEF View, Inv
<1>4. CASE FormCopy(r)
  <2>1. UNCHANGED <<files, size>>
    BY <1>4 DEF FormCopy
  <2>2. req'[r].at = "form" /\ req'[r].id = i /\ \A q \in Slot \ {r} : req'[q] = req[q]
    <3>1. req[r] \in Request
      BY <1>3 DEF Types
    <3>. QED
      BY <1>0, <1>1, <1>3, <1>4, <3>1 DEF FormCopy, At, Request, Types
  <2>3. Shows(i, "unused", 0)'
    BY <1>3, <2>2 DEF View, At
  <2>4. Stays(i)
    BY <1>3, <2>1, <2>3 DEF Shows, Stays
  <2>. QED
    BY <1>0, <1>1, <1>2, <2>1, <2>2, <2>4, OwnerRefines DEF Follows
<1>5. ASSUME NEW s \in Nat, Answer(r, s)
      PROVE  /\ req'[r].at = "answered" /\ req'[r].id = i
             /\ \A q \in Slot \ {r} : req'[q] = req[q]
             /\ Unowned(i)'
  <2>1. /\ req'[r].at = "answered" /\ req'[r].id = i
        /\ \A q \in Slot \ {r} : req'[q] = req[q]
    BY <1>0, <1>3, <1>5, AnswerFacts
  <2>2. Unowned(i)'
    BY <1>0, <1>2, <2>1, AnsweredUnowned
  <2>. QED
    BY <2>1, <2>2
<1>6. CASE FormEnds(r)
  <2>1. /\ files' = files \cup {i} /\ size' = [size EXCEPT ![i] = req[r].len]
        /\ req[r].len <= MaxUpload /\ Answer(r, 200)
    BY <1>0, <1>6 DEF FormEnds
  <2>2. /\ req'[r].at = "answered" /\ req'[r].id = i
        /\ \A q \in Slot \ {r} : req'[q] = req[q]
    BY <1>5, <2>1
  <2>3. size'[i] \in 0..MaxUpload
    <3>1. size'[i] = req[r].len
      BY <1>3, <2>1 DEF Types
    <3>. QED
      BY <1>2, <2>1, <3>1, UploadsAssumption
  <2>4. Shows(i, "done", size[i])'
    BY <1>3, <2>1 DEF View
  <2>5. Deposits(i)
    BY <1>3, <2>3, <2>4 DEF Shows, Deposits
  <2>. QED
    BY <1>0, <1>1, <1>2, <1>3, <2>1, <2>2, <2>5, OwnerRefines DEF Follows, Types
<1>7. CASE FormFails(r)
  <2>1. UNCHANGED <<files, size>> /\ \E s \in Nat : Answer(r, s)
    BY <1>7 DEF FormFails
  <2>2. /\ req'[r].at = "answered" /\ req'[r].id = i
        /\ \A q \in Slot \ {r} : req'[q] = req[q]
        /\ Unowned(i)'
    BY <1>5, <2>1
  <2>3. Shows(i, "gone", 0)'
    BY <1>1, <1>2, <1>3, <2>1, <2>2 DEF View
  <2>4. Vanishes(i)
    BY <2>1, <2>3 DEF Shows, Vanishes
  <2>. QED
    BY <1>0, <1>1, <1>2, <2>1, <2>2, <2>4, OwnerRefines DEF Follows
<1>. QED
  BY <1>4, <1>6, <1>7

LEMMA LookupRefines ==
    ASSUME Inv, Inv', NEW r \in Slot, Lookup(r) \/ Serve(r) \/ LookupFile(r)
    PROVE  [Service!Next]_Service!vars
<1>1. Types /\ Asks(r) /\ ~Owns(r) /\ UNCHANGED <<uploads, files, used, size, part>>
  BY DEF Lookup, Serve, LookupFile, At, Owns, Inv, IInv
<1>2. \/ \E s \in Nat : Answer(r, s)
      \/ \E l \in {"serve", "get", "put", "delete", "lookupFile"} : Goto(r, l)
  <2>1. CASE Lookup(r)
    BY <1>1, <2>1 DEF Lookup, Asks, At
  <2>2. CASE Serve(r)
    BY <2>2 DEF Serve
  <2>3. CASE LookupFile(r)
    BY <2>3 DEF LookupFile
  <2>. QED
    BY <2>1, <2>2, <2>3
<1>3. /\ \A q \in Slot \ {r} : req'[q] = req[q]
      /\ req'[r].at \in {"answered", "serve", "get", "put", "delete", "lookupFile"}
  BY <1>1, <1>2, AnswerFacts, GotoFacts
<1>. QED
  BY <1>1, <1>3, QuietRefines DEF Owns

---------------------------------------------------------------------------
(* The steps that wait for the lock of a session, and the cleanup *)

LEMMA LockedSole ==
    ASSUME Inv, NEW i \in Id, Reached(i), Free(i)
    PROVE  Unowned(i)
BY FreeSole DEF Unowned

LEMMA DiscardRefines ==
    ASSUME Inv, Inv', NEW R \in SUBSET Slot, NEW i \in Id, Reached(i), Free(i),
           \A s \in Slot \ R : req'[s] = req[s],
           \A s \in R : ~Owns(s) /\ ~Owns(s)',
           uploads' = uploads \ {i}, part' = [part EXCEPT ![i] = Absent],
           UNCHANGED <<files, size, used>>
    PROVE  [Service!Next]_Service!vars
<1>1. /\ Types /\ Types' /\ View /\ View' /\ Unowned(i) /\ i \in used
      /\ i \in uploads => i \notin files
  BY InvView, InvViewNext, LockedSole DEF Inv, IInv, State, Uploaded, Reached
<1>2. Unowned(i)'
  BY <1>1 DEF Unowned, Owns
<1>3. \A j \in Id \ {i} : Stays(j)
  <2>1. \A j \in Id \ {i} : /\ j \in uploads' <=> j \in uploads
                            /\ j \in files' <=> j \in files
                            /\ j \in used' <=> j \in used
                            /\ size'[j] = size[j] /\ part'[j] = part[j]
    BY <1>1 DEF Types
  <2>. QED
    BY <2>1, OthersStay
<1>4. CASE i \in files
  <2>1. Shows(i, "done", size[i]) /\ Shows(i, "done", size[i])'
    BY <1>1, <1>4 DEF View
  <2>2. Stays(i)
    BY <2>1 DEF Shows, Stays
  <2>. QED
    BY <1>1, <1>3, <2>2, FollowRefines DEF Follows
<1>5. CASE i \notin files
  <2>1. Shows(i, "gone", 0)'
    BY <1>1, <1>2, <1>5 DEF View
  <2>2. Vanishes(i)
    BY <2>1 DEF Shows, Vanishes
  <2>. QED
    BY <1>1, <1>3, <2>2, FollowRefines DEF Follows
<1>. QED
  BY <1>4, <1>5

LEMMA LockRefines ==
    ASSUME Inv, Inv', NEW r \in Slot, LockStep(r)
    PROVE  [Service!Next]_Service!vars
<1>0. PICK i \in Id : i = req[r].id
  BY Busy DEF LockStep, Get, Cancel, Put, At
<1>1. /\ Types /\ Types' /\ View /\ View' /\ up /\ i \in used /\ ~Owns(r) /\ Free(i)
      /\ Reached(i)
  <2>1. Types /\ Types' /\ View /\ View' /\ Asks(r)
    BY InvView, InvViewNext DEF Inv, IInv
  <2>2. up /\ i \in used
    BY <1>0, Busy DEF LockStep, Get, Cancel, Put, At
  <2>. QED
    BY <1>0, <2>1, <2>2 DEF LockStep, Get, Cancel, Put, At, Owns, Asks
<1>2. CASE (\E s \in Nat : Answer(r, s)) /\ UNCHANGED <<uploads, files, used, size, part>>
  <2>1. req'[r].at = "answered" /\ \A q \in Slot \ {r} : req'[q] = req[q]
    BY <1>1, <1>2, AnswerFacts
  <2>. QED
    BY <1>1, <1>2, <2>1, QuietRefines DEF Owns
<1>3. CASE Get(r)
  BY <1>2, <1>3 DEF Get
<1>4. CASE Cancel(r)
  <2>1. /\ uploads' = uploads \ {i} /\ part' = [part EXCEPT ![i] = Absent] /\ Answer(r, 204)
        /\ UNCHANGED <<files, size, used>>
    BY <1>0, <1>4 DEF Cancel
  <2>2. /\ {r} \in SUBSET Slot /\ \A s \in Slot \ {r} : req'[s] = req[s]
        /\ \A s \in {r} : ~Owns(s) /\ ~Owns(s)'
    BY <1>1, <2>1, AnswerFacts DEF Owns
  <2>. QED
    BY <1>1, <2>1, <2>2, DiscardRefines
<1>5. CASE /\ part[i] # Absent /\ Matches(r) /\ Goto(r, "copy")
           /\ UNCHANGED <<uploads, files, used, size, part>>
  <2>1. /\ req'[r].at = "copy" /\ req'[r].id = i /\ req'[r].offset = req[r].offset
        /\ \A q \in Slot \ {r} : req'[q] = req[q]
    BY <1>0, <1>1, <1>5, GotoFacts
  <2>2. i \in uploads /\ Len(part[i]) = req[r].offset
    BY <1>0, <1>1, <1>5, FreeUploaded DEF Matches
  <2>3. PICK n : n = req[r].offset
    OBVIOUS
  <2>4. Shows(i, "open", n)
    BY <1>1, <2>2, <2>3, LockedSole DEF View
  <2>5. Shows(i, "open", n)'
    BY <1>1, <2>1, <2>3 DEF View, At
  <2>6. Stays(i)
    BY <1>5, <2>4, <2>5 DEF Shows, Stays
  <2>7. \A j \in Id \ {i} : Stays(j)
    BY <1>1, <1>5, <2>1, RequestOthersStay
  <2>. QED
    BY <1>1, <2>6, <2>7, FollowRefines DEF Follows
<1>6. CASE Put(r)
  <2>1. UNCHANGED <<uploads, files, used, size, part>>
    BY <1>6 DEF Put
  <2>2. \/ \E s \in Nat : Answer(r, s)
        \/ part[i] # Absent /\ Matches(r) /\ Goto(r, "copy")
    BY <1>0, <1>6 DEF Put
  <2>. QED
    BY <1>2, <1>5, <2>1, <2>2
<1>. QED
  BY <1>3, <1>4, <1>6 DEF LockStep

LEMMA PurgeRefines ==
    ASSUME Inv, Inv', PurgeStep
    PROVE  [Service!Next]_Service!vars
<1>1. Types /\ Types' /\ View /\ View' /\ Purging
  BY InvView, InvViewNext DEF Inv, IInv
<1>2. /\ UNCHANGED <<size, used, req>>
      /\ \A r \in Slot : req'[r] = req[r] /\ (Owns(r)' <=> Owns(r))
  <2>1. UNCHANGED <<size, used, req>>
    BY DEF PurgeStep, PurgeStart, PurgeFilesDone, PurgeEnds, PurgeUpload, PurgeFile,
           PurgeVisit
  <2>. QED
    BY <2>1 DEF Owns
<1>3. CASE UNCHANGED <<uploads, files, part>>
  BY <1>2, <1>3, QuietRefines
<1>4. CASE PurgeStart \/ PurgeFilesDone \/ PurgeEnds
  BY <1>3, <1>4 DEF PurgeStart, PurgeFilesDone, PurgeEnds
<1>5. CASE PurgeUpload
  <2>1. PICK i \in Id : i = purge.id /\ Reached(i)
    BY <1>1, <1>5 DEF PurgeUpload, Purging
  <2>2. CASE uploads' = uploads \ {i} /\ part' = [part EXCEPT ![i] = Absent]
    <3>1. Free(i) /\ UNCHANGED files
      BY <1>5, <2>1 DEF PurgeUpload
    <3>2. /\ {} \in SUBSET Slot /\ \A s \in Slot \ {} : req'[s] = req[s]
          /\ \A s \in {} : ~Owns(s) /\ ~Owns(s)'
      BY <1>2
    <3>. QED
      BY <1>2, <2>1, <2>2, <3>1, <3>2, DiscardRefines
  <2>3. CASE UNCHANGED <<uploads, part>>
    BY <1>3, <1>5, <2>3 DEF PurgeUpload
  <2>. QED
    BY <1>5, <2>1, <2>2, <2>3 DEF PurgeUpload
<1>6. ASSUME NEW i \in Id, PurgeFile(i) PROVE [Service!Next]_Service!vars
  <2>1. UNCHANGED <<uploads, part>>
    BY <1>6 DEF PurgeFile
  <2>2. CASE i \in files /\ files' = files \ {i}
    <3>1. i \notin uploads /\ i \in used
      BY <2>2 DEF Inv, IInv, State, Uploaded, Filed
    <3>2. Unowned(i)'
      BY <1>2, <2>2, FileSole DEF Unowned
    <3>3. Shows(i, "gone", 0)'
      BY <1>1, <1>2, <2>1, <2>2, <3>1, <3>2 DEF View
    <3>4. Vanishes(i)
      BY <1>2, <3>3 DEF Shows, Vanishes
    <3>5. \A j \in Id \ {i} : Stays(j)
      <4>1. /\ {} \in SUBSET Slot /\ \A q \in Slot \ {} : req'[q] = req[q]
            /\ \A q \in {} : /\ Owns(q) => req[q].id = i
                             /\ Owns(q)' => req'[q].id = i
        BY <1>2
      <4>2. \A j \in Id \ {i} : /\ j \in uploads' <=> j \in uploads
                                /\ j \in files' <=> j \in files
                                /\ j \in used' <=> j \in used
                                /\ size'[j] = size[j] /\ part'[j] = part[j]
        BY <1>2, <2>1, <2>2
      <4>. QED
        BY <4>1, <4>2, OthersStay
    <3>. QED
      BY <1>1, <3>4, <3>5, FollowRefines DEF Follows
  <2>3. CASE UNCHANGED files
    BY <1>3, <2>1, <2>3
  <2>. QED
    BY <1>6, <2>2, <2>3 DEF PurgeFile
<1>7. ASSUME NEW i \in Id, PurgeVisit(i) PROVE [Service!Next]_Service!vars
  BY <1>3, <1>7 DEF PurgeVisit
<1>. QED
  BY <1>4, <1>5, <1>6, <1>7 DEF PurgeStep

---------------------------------------------------------------------------
(* The process *)

LEMMA ProcessRefines ==
    ASSUME Inv, Inv', Crash \/ Restart \/ Tick \/ UNCHANGED vars
    PROVE  [Service!Next]_Service!vars
<1>1. Types /\ Types' /\ View /\ View' /\ Down
  BY InvView, InvViewNext DEF Inv, IInv
<1>2. CASE Tick \/ UNCHANGED vars
  BY <1>2, QuietRefines DEF Tick
<1>3. CASE Restart
  <2>1. /\ uploads = {} /\ files = {} /\ uploads' = {} /\ files' = {}
        /\ UNCHANGED <<size, used, req>>
        /\ \A r \in Slot : ~Owns(r) /\ ~Owns(r)'
    BY <1>1, <1>3 DEF Restart, Idle, Owns, Down
  <2>2. \A i \in Id : Unowned(i) /\ Unowned(i)'
    BY <2>1 DEF Unowned
  <2>3. ASSUME NEW i \in Id PROVE Stays(i)
    <3>1. CASE i \in used
      <4>1. Shows(i, "gone", 0) /\ Shows(i, "gone", 0)'
        BY <1>1, <2>1, <2>2, <3>1 DEF View
      <4>. QED
        BY <2>1, <4>1 DEF Shows, Stays
    <3>2. CASE i \notin used
      <4>1. Shows(i, "unused", 0) /\ Shows(i, "unused", 0)'
        BY <1>1, <2>1, <3>2 DEF View
      <4>. QED
        BY <2>1, <4>1 DEF Shows, Stays
    <3>. QED
      BY <3>1, <3>2
  <2>. QED
    BY <1>1, <2>3, StayRefines
<1>4. CASE Crash
  <2>1. /\ uploads' = {} /\ files' = {} /\ UNCHANGED <<size, used>>
        /\ \A r \in Slot : ~Owns(r)'
    BY <1>4 DEF Crash, Idle, Owns
  <2>2. \A i \in Id : Unowned(i)'
    BY <2>1 DEF Unowned
  <2>3. \A i \in used : Shows(i, "gone", 0)'
    BY <1>1, <2>1, <2>2 DEF View, Types
  <2>4. \A i \in Id \ used : Shows(i, "unused", 0) /\ Shows(i, "unused", 0)'
    BY <1>1, <2>1 DEF View
  <2>. DEFINE phase  == [j \in Id |-> Phase(j)]
              length == [j \in Id |-> size[j]]
              offset == [j \in Id |-> Offset(j)]
  <2>5. PICK S \in SUBSET Id : S = used
    BY <1>1 DEF Types
  <2>6. /\ phase' = [j \in Id |-> IF j \in S THEN "gone" ELSE phase[j]]
        /\ offset' = [j \in Id |-> IF j \in S THEN 0 ELSE offset[j]]
        /\ UNCHANGED length
    BY <2>1, <2>3, <2>4, <2>5 DEF Shows
  <2>7. Service!Vanish
    BY <2>6 DEF Service!Vanish
  <2>. QED
    BY <2>7 DEF Service!Next
<1>. QED
  BY <1>2, <1>3, <1>4

LEMMA InitRefines == Init => Service!Init
<1>. SUFFICES ASSUME Init PROVE Service!Init
  OBVIOUS
<1>1. Inv /\ View
  BY InitInv, InvView
<1>2. \A i \in Id : Shows(i, "unused", 0) /\ size[i] = 0
  BY <1>1 DEF Init, View
<1>. QED
  BY <1>2 DEF Shows, Service!Init

LEMMA NextRefines == Inv /\ Inv' /\ [Next]_vars => [Service!Next]_Service!vars
<1>. SUFFICES ASSUME Inv, Inv', [Next]_vars PROVE [Service!Next]_Service!vars
  OBVIOUS
<1>1. ASSUME NEW r \in Slot, ClientStep(r) PROVE [Service!Next]_Service!vars
  BY <1>1, ClientRefines
<1>2. ASSUME NEW r \in Slot, BodyStep(r) PROVE [Service!Next]_Service!vars
  BY <1>2, CopyRefines, FormRefines DEF BodyStep
<1>3. ASSUME NEW r \in Slot, LockStep(r) PROVE [Service!Next]_Service!vars
  BY <1>3, LockRefines
<1>4. ASSUME NEW r \in Slot, ServerStep(r) PROVE [Service!Next]_Service!vars
  BY <1>4, EndRefines, LookupRefines, CopyRefines, FormRefines DEF ServerStep
<1>. QED
  BY <1>1, <1>2, <1>3, <1>4, PurgeRefines, ProcessRefines DEF Next

\* What clients see of the ids follows UploadSpec: offsets only grow while an upload is
\* open, a file appears when its last byte is in, and an id that is gone stays gone,
\* whatever requests overlap and whenever the process ends (server.go, upload.go).
THEOREM Implements == Spec => ImplementsService
<1>1. Init => Service!Init
  BY InitRefines
<1>2. Inv /\ Inv' /\ [Next]_vars => [Service!Next]_Service!vars
  BY NextRefines
<1>. QED
  BY <1>1, <1>2, Invariant, PTL DEF Spec, ImplementsService, Service!Spec
=============================================================================
