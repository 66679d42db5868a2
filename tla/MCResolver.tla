------------------------------ MODULE MCResolver ------------------------------
(* No name is dearer than another: the resolver compares them for equality   *)
(* only, and the properties checked with this symmetry are safety.           *)
EXTENDS Resolver, TLC

Symmetry == Permutations(Domains)
==============================================================================
