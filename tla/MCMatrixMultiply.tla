-------------------------- MODULE MCMatrixMultiply --------------------------
(***************************************************************************)
(* The accelerator with uninterpreted data, for TLC.                       *)
(***************************************************************************)
EXTENDS MatrixMultiply, SymbolicData
=============================================================================
