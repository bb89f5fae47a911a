------------------------------ MODULE PEArray -------------------------------
(***************************************************************************)
(* PE.sv and PE_array.sv: N x N processing elements. Each holds one        *)
(* element of the B tile (r_a_input); while stationaryCtrl is up the tile  *)
(* shifts down by one row per clock. c_out[i] is the inner product of row  *)
(* i of the array with the row of A that is on the inputs.                 *)
(***************************************************************************)
EXTENDS MatrixParams

VARIABLE pe   \* pe[i][j] is r_a_input of the element in row i, column j

PEInit  == pe = ZeroTile
PEReset == pe' = ZeroTile

\* Row 0 takes a_in from outside, row m from row m - 1.
PEPosedge(stationaryCtrl, a_in) ==
  pe' = IF stationaryCtrl
        THEN [m \in Lane |-> IF m = 0 THEN a_in ELSE pe[m - 1]]
        ELSE pe

\* The product of one element and its input.
PEProduct(i, j, b_in) == Mul(pe[i][j], b_in[j])

\* The adder tree over the products of each row.
COuts(b_in) ==
  [i \in Lane |-> AddUp(N, [j \in Lane |-> PEProduct(i, j, b_in)])]
=============================================================================
