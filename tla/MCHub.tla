------------------------------- MODULE MCHub -------------------------------
(***************************************************************************)
(* Constants for model-checking Hub: which connection belongs to which     *)
(* device, what clients put in "to", and how much each one sends.          *)
(***************************************************************************)
EXTENDS Hub, TLC

CONSTANTS c1, c2, d1, d2, d3

\* Two devices with one connection each.
PairOf == (c1 :> d1) @@ (c2 :> d2)

\* Two tabs of one device.
TabsOf == (c1 :> d1) @@ (c2 :> d1)

\* To everyone; and lists with repeated, invalid and own entries, too many
\* valid ones, or none.
ToAll   == {<<>>}
MixedTo == {<<>>, <<Bad, d3, d3>>, <<d3, d2>>, <<d1, Bad>>}

OnceFirst  == [c \in Conn |-> IF c = c1 THEN 1 ELSE 0]
TwiceFirst == [c \in Conn |-> IF c = c1 THEN 2 ELSE 0]
NoneSent   == [c \in Conn |-> 0]
=============================================================================
