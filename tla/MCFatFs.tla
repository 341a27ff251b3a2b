------------------------------ MODULE MCFatFs ------------------------------
(* Small volumes for FatFs. *)
EXTENDS FatFs, TLC

Symmetry == Permutations(Names)
=============================================================================
