--------------------------- MODULE ComputeControl ---------------------------
(***************************************************************************)
(* compute_control.sv: the sequencer. For every tile of B it asks          *)
(* scatter_b to load the tile (B_load), starts the multiplication          *)
(* (start_cal) and waits for gather_c (C_gather_done); after the last tile *)
(* it raises Finish for the host.                                          *)
(***************************************************************************)
EXTENDS MatrixParams

VARIABLE cc   \* the registers of compute_control

Control_ROW_CNT == A_SIZE_Y \div N
Control_COL_CNT == B_SIZE_X \div N

ControlType ==
  [state : {"IDLE", "PREPARING", "COMPUTING"}, start_cal : BOOLEAN,
   B_load : BOOLEAN, Finish : BOOLEAN,
   row_cnt : 0 .. Control_ROW_CNT - 1, col_cnt : 0 .. Control_COL_CNT - 1]

ControlInit ==
  cc = [state |-> "IDLE", start_cal |-> FALSE, B_load |-> FALSE,
        Finish |-> FALSE, row_cnt |-> 0, col_cnt |-> 0]

\* The synchronous reset assigns every register.
ControlReset ==
  cc' = [state |-> "IDLE", start_cal |-> FALSE, B_load |-> FALSE,
         Finish |-> FALSE, row_cnt |-> 0, col_cnt |-> 0]

Control_Idle(start) ==
  /\ cc.state = "IDLE" /\ ~start
  /\ cc' = [cc EXCEPT !.B_load = FALSE, !.start_cal = FALSE, !.Finish = FALSE]

Control_Start(start) ==
  /\ cc.state = "IDLE" /\ start
  /\ cc' = [cc EXCEPT !.state = "PREPARING", !.B_load = TRUE]

\* Faulty variant: B_load stays up until the tile is loaded.
Control_Prepare_LoadHeld(B_load_done) ==
  /\ cc.state = "PREPARING"
  /\ cc' = [cc EXCEPT !.state = IF B_load_done THEN "COMPUTING" ELSE @,
                      !.start_cal = B_load_done, !.B_load = ~B_load_done]

Control_Prepare(B_load_done) ==
  /\ cc.state = "PREPARING"
  /\ cc' = [cc EXCEPT !.state = IF B_load_done THEN "COMPUTING" ELSE @,
                      !.start_cal = B_load_done, !.B_load = FALSE]

Control_Compute(C_gather_done) ==
  /\ cc.state = "COMPUTING" /\ ~C_gather_done
  /\ cc' = [cc EXCEPT !.Finish = FALSE, !.start_cal = FALSE]

\* One tile is done: the next tile of the column, or of the next column.
Control_NextTile(C_gather_done) ==
  /\ cc.state = "COMPUTING" /\ C_gather_done
  /\ \/ /\ cc.row_cnt # Control_ROW_CNT - 1
        /\ cc' = [cc EXCEPT !.row_cnt = @ + 1, !.Finish = FALSE,
                            !.state = "PREPARING", !.B_load = TRUE]
     \/ /\ cc.row_cnt = Control_ROW_CNT - 1
        /\ cc.col_cnt # Control_COL_CNT - 1
        /\ cc' = [cc EXCEPT !.row_cnt = 0, !.col_cnt = @ + 1, !.Finish = FALSE,
                            !.state = "PREPARING", !.B_load = TRUE]

\* Faulty variant: the run ends after the first column of tiles.
Control_LastTile_FirstColumn(C_gather_done) ==
  /\ cc.state = "COMPUTING" /\ C_gather_done
  /\ cc.row_cnt = Control_ROW_CNT - 1
  /\ cc' = [cc EXCEPT !.row_cnt = 0, !.col_cnt = 0,
                      !.Finish = TRUE, !.state = "IDLE"]

Control_LastTile(C_gather_done) ==
  /\ cc.state = "COMPUTING" /\ C_gather_done
  /\ cc.row_cnt = Control_ROW_CNT - 1
  /\ cc.col_cnt = Control_COL_CNT - 1
  /\ cc' = [cc EXCEPT !.row_cnt = 0, !.col_cnt = 0,
                      !.Finish = TRUE, !.state = "IDLE"]

ControlPosedge(start, B_load_done, C_gather_done) ==
  \/ Control_Idle(start)
  \/ Control_Start(start)
  \/ Control_Prepare(B_load_done)
  \/ Control_Compute(C_gather_done)
  \/ Control_NextTile(C_gather_done)
  \/ Control_LastTile(C_gather_done)
=============================================================================
