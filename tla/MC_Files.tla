------------------------------ MODULE MC_Files ------------------------------
(* Small instances of Files.  Requests, users and files are interchangeable. *)
EXTENDS Files, TLC

Symmetry == Permutations(Requests) \union Permutations(Users) \union Permutations(FileIds)
=============================================================================
