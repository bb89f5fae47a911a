------------------------------ MODULE ScatterA ------------------------------
(***************************************************************************)
(* Scatter_A.sv: streams the rows of one column block of A, one RAM word   *)
(* per clock, into the processing elements. The block RAM answers one      *)
(* clock after the address, so row r is on a_in while in_block_cnt = r + 1.*)
(***************************************************************************)
EXTENDS MatrixParams

VARIABLE sa   \* the registers of scatter_a

A_COL_CNT == A_SIZE_X \div N

ScatterAType ==
  [state : {"IDLE", "CALCULATE", "WAITING"}, in_block_cnt : 0 .. A_SIZE_Y - 1,
   col_cnt : 0 .. A_COL_CNT - 1, output_enable : BOOLEAN, col_cal_done : BOOLEAN]

ScatterAInit ==
  sa = [state |-> "IDLE", in_block_cnt |-> 0, col_cnt |-> 0,
        output_enable |-> FALSE, col_cal_done |-> FALSE]

\* Faulty variant: the column counter survives a reset.
ScatterAReset_KeepsColumn == sa' = [sa EXCEPT !.state = "IDLE"]

\* Only col_cnt and state are reset.
ScatterAReset == sa' = [sa EXCEPT !.col_cnt = 0, !.state = "IDLE"]

\* bram_addr_pointer[12:4]
ScatterAAddr == (sa.in_block_cnt * A_SIZE_X + sa.col_cnt * N) \div N

\* a_in is the RAM output gated by output_enable.
AIn(rddata) == IF sa.output_enable THEN rddata ELSE ZeroLanes

A_Idle(start_cal) ==
  /\ sa.state = "IDLE" /\ ~start_cal
  /\ sa' = [sa EXCEPT !.output_enable = FALSE, !.col_cal_done = FALSE,
                      !.in_block_cnt = 0]

A_Start(start_cal) ==
  /\ sa.state = "IDLE" /\ start_cal
  /\ sa' = [sa EXCEPT !.state = "CALCULATE", !.in_block_cnt = 0]

A_NextRow ==
  /\ sa.state = "CALCULATE" /\ sa.in_block_cnt # A_SIZE_Y - 1
  /\ sa' = [sa EXCEPT !.output_enable = TRUE, !.in_block_cnt = Incr(@)]

\* Faulty variant: the column counter is compared with one too many.
A_BlockDone_OffByOne ==
  /\ sa.state = "CALCULATE" /\ sa.in_block_cnt = A_SIZE_Y - 1
  /\ IF sa.col_cnt = A_COL_CNT
     THEN sa' = [sa EXCEPT !.col_cnt = 0, !.col_cal_done = TRUE,
                           !.state = "IDLE"]
     ELSE sa' = [sa EXCEPT !.in_block_cnt = 0, !.col_cnt = @ + 1,
                           !.state = "WAITING"]

A_BlockDone ==
  /\ sa.state = "CALCULATE" /\ sa.in_block_cnt = A_SIZE_Y - 1
  /\ IF sa.col_cnt = A_COL_CNT - 1
     THEN sa' = [sa EXCEPT !.col_cnt = 0, !.col_cal_done = TRUE,
                           !.state = "IDLE"]
     ELSE sa' = [sa EXCEPT !.in_block_cnt = 0, !.col_cnt = @ + 1,
                           !.state = "WAITING"]

A_Wait(start_cal) ==
  /\ sa.state = "WAITING"
  /\ sa' = IF start_cal THEN [sa EXCEPT !.state = "CALCULATE"]
                        ELSE [sa EXCEPT !.output_enable = FALSE]

ScatterAPosedge(start_cal) ==
  \/ A_Idle(start_cal)
  \/ A_Start(start_cal)
  \/ A_NextRow
  \/ A_BlockDone
  \/ A_Wait(start_cal)
=============================================================================
