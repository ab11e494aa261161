---------------------------- MODULE MC_Sessions -----------------------------
(* Small instances of Sessions.  Requests and users are interchangeable.    *)
EXTENDS Sessions, TLC

Symmetry == Permutations(Requests)
=============================================================================
