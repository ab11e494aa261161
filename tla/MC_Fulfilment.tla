--------------------------- MODULE MC_Fulfilment ---------------------------
(* Small instances of Fulfilment; the configurations give every constant a *)
(* set of model values, a number or a set of faults.                       *)
EXTENDS Fulfilment
=============================================================================
