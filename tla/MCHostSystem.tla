---------------------------- MODULE MCHostSystem ----------------------------
(***************************************************************************)
(* Model checking the host programs. Clients are interchangeable.          *)
(***************************************************************************)
EXTENDS HostSystem, TLC

ClientSymmetry == Permutations(Clients)
=============================================================================
