--------------------------- MODULE MCVirtualProfile ---------------------------
(* Model values for TLC's instances of VirtualProfile. *)
EXTENDS VirtualProfile

CONSTANTS p1, p2, i1, i2, b1, b2

(* Which process prepares first does not matter: the specification, its
   fairness and its properties treat all processes alike, so every behaviour
   is one of these with the processes renamed. *)
FirstToPrepare == nextGen = 1 /\ nextGen' = 2 => pc'[p1] = "observing"
===============================================================================
