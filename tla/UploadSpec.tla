---------------------------- MODULE UploadSpec ----------------------------
(***************************************************************************)
(* What the upload service promises of one server-side file id: an upload  *)
(* that is open only grows, becomes a downloadable file exactly when it is *)
(* complete, and an id that is gone never comes back.                      *)
(***************************************************************************)
EXTENDS Naturals

CONSTANTS Id, Sizes

VARIABLES phase,   \* unused, open, done or gone
          length,  \* the declared size
          offset   \* bytes a client may rely on

vars == <<phase, length, offset>>

Phases == {"unused", "open", "done", "gone"}

Init == /\ phase = [i \in Id |-> "unused"]
        /\ length = [i \in Id |-> 0]
        /\ offset = [i \in Id |-> 0]

Open(i) == /\ phase[i] = "unused"
           /\ phase' = [phase EXCEPT ![i] = "open"]
           /\ \E n \in Sizes : length' = [length EXCEPT ![i] = n]
           /\ UNCHANGED offset

Grow(i) == /\ phase[i] = "open"
           /\ \E n \in (offset[i] + 1)..length[i] : offset' = [offset EXCEPT ![i] = n]
           /\ UNCHANGED <<phase, length>>

Complete(i) == /\ phase[i] = "open" /\ offset[i] = length[i]
               /\ phase' = [phase EXCEPT ![i] = "done"]
               /\ UNCHANGED <<length, offset>>

\* A file sent in one request appears whole.
Deposit(i) == /\ phase[i] = "unused"
              /\ phase' = [phase EXCEPT ![i] = "done"]
              /\ \E n \in Sizes : /\ length' = [length EXCEPT ![i] = n]
                                 /\ offset' = [offset EXCEPT ![i] = n]

\* Cancelled, failed, expired, or lost with the process: some ids at once.
Vanish == \E S \in SUBSET Id :
            /\ phase' = [i \in Id |-> IF i \in S THEN "gone" ELSE phase[i]]
            /\ offset' = [i \in Id |-> IF i \in S THEN 0 ELSE offset[i]]
            /\ UNCHANGED length

Next == Vanish \/ \E i \in Id : Open(i) \/ Grow(i) \/ Complete(i) \/ Deposit(i)

Spec == Init /\ [][Next]_vars
=============================================================================
