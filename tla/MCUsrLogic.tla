----------------------------- MODULE MCUsrLogic -----------------------------
(***************************************************************************)
(* The register block and the accelerator with uninterpreted data, for TLC.*)
(***************************************************************************)
EXTENDS UsrLogic, SymbolicData
=============================================================================
