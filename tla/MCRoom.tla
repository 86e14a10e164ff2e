------------------------------- MODULE MCRoom -------------------------------
(***************************************************************************)
(* Constants and symmetry for model-checking Room.                         *)
(***************************************************************************)
EXTENDS Room, TLC

\* Slots hold calls and are interchangeable.
SlotSymmetry == Permutations(Slot)

AllOps == {"search", "choose", "attach", "manual", "rename", "login",
           "network", "foreground", "transfer", "dispose"}
=============================================================================
