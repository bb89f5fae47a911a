------------------------------ MODULE ScatterB ------------------------------
(***************************************************************************)
(* scatter_B.sv: prefetches one N x N tile of B into buffer_B (PREPARING), *)
(* waits for the sequencer's load pulse and shifts the tile, one column    *)
(* per clock, into the processing elements (LOADING). The next tile is     *)
(* prefetched while the array multiplies the current one.                  *)
(***************************************************************************)
EXTENDS MatrixParams

VARIABLE sb   \* the registers of scatter_b

\* As written, the tile counts of B are computed from the sizes of A.
B_ROW_CNT == A_SIZE_Y \div N
B_COL_CNT == A_SIZE_X \div N

\* The registers; buffer_B and b_ins hold data.
ScatterBType ==
  [state : {"IDLE", "PREPARING", "WAITING", "LOADING"},
   row_cnt : 0 .. B_ROW_CNT - 1, col_cnt : 0 .. B_COL_CNT - 1,
   in_block_cnt : 0 .. N + 1, load_cnt : Lane, first : BOOLEAN,
   Final : BOOLEAN, stationaryCtrl : BOOLEAN, load_done : BOOLEAN,
   buffer_B : {sb.buffer_B}, b_ins : {sb.b_ins}]

\* The FPGA powers every register up as zero.
ScatterBInit ==
  sb = [state |-> "IDLE", row_cnt |-> 0, col_cnt |-> 0, in_block_cnt |-> 0,
        load_cnt |-> 0, first |-> FALSE, Final |-> FALSE,
        stationaryCtrl |-> FALSE, load_done |-> FALSE,
        buffer_B |-> ZeroTile, b_ins |-> ZeroLanes]

\* Faulty variant: the state machine survives a reset.
ScatterBReset_KeepsState ==
  sb' = [sb EXCEPT !.col_cnt = 0, !.load_cnt = 0,
                   !.buffer_B = ZeroTile, !.b_ins = ZeroLanes]

\* row_cnt, in_block_cnt, first and Final keep their values over a reset.
ScatterBReset ==
  sb' = [sb EXCEPT !.col_cnt = 0, !.state = "IDLE", !.load_cnt = 0,
                   !.buffer_B = ZeroTile, !.b_ins = ZeroLanes]

\* bram_addr_pointer[12:4]
ScatterBAddr ==
  (sb.row_cnt * N * B_SIZE_X + sb.col_cnt * N + sb.in_block_cnt * A_SIZE_X) \div N

\* The gen_buffer and gen_load processes, which run beside the state machine
\* in every clock. An index outside buffer_B writes nothing.
Datapath(rddata) ==
  [sb EXCEPT
     !.buffer_B = IF sb.state = "PREPARING" /\ sb.in_block_cnt - 1 \in Lane
                  THEN [@ EXCEPT ![sb.in_block_cnt - 1] = rddata]
                  ELSE @,
     !.b_ins = IF sb.state = "LOADING"
               THEN [i \in Lane |-> sb.buffer_B[i][sb.load_cnt]]
               ELSE ZeroLanes]

B_Idle(load, rddata) ==
  /\ sb.state = "IDLE" /\ ~load
  /\ sb' = [Datapath(rddata) EXCEPT
              !.first = TRUE, !.stationaryCtrl = FALSE, !.load_done = FALSE,
              !.in_block_cnt = 0, !.col_cnt = 0, !.row_cnt = 0, !.load_cnt = 0]

B_Accept(load, rddata) ==
  /\ sb.state = "IDLE" /\ load
  /\ sb' = [Datapath(rddata) EXCEPT !.state = "PREPARING"]

\* Faulty variant: the array keeps shifting while the next tile is fetched.
B_Fetch_StillShifting(rddata) ==
  /\ sb.state = "PREPARING" /\ sb.in_block_cnt # N + 1
  /\ sb' = [Datapath(rddata) EXCEPT !.load_done = FALSE, !.in_block_cnt = Incr(@)]

B_Fetch(rddata) ==
  /\ sb.state = "PREPARING" /\ sb.in_block_cnt # N + 1
  /\ sb' = [Datapath(rddata) EXCEPT !.load_done = FALSE,
              !.stationaryCtrl = FALSE, !.in_block_cnt = Incr(@)]

\* The tile is buffered; the counters move on to the tile fetched next.
B_Fetched(rddata) ==
  /\ sb.state = "PREPARING" /\ sb.in_block_cnt = N + 1
  /\ LET lastRow == sb.row_cnt = B_ROW_CNT - 1
         lastCol == sb.col_cnt = B_COL_CNT - 1
     IN  sb' = [Datapath(rddata) EXCEPT
                  !.load_done = FALSE, !.stationaryCtrl = FALSE,
                  !.in_block_cnt = 0, !.state = "WAITING",
                  !.row_cnt = IF lastRow THEN 0 ELSE @ + 1,
                  !.col_cnt = CASE lastRow /\ lastCol -> 0
                                [] lastRow /\ ~lastCol -> @ + 1
                                [] OTHER -> @,
                  !.Final = IF lastRow /\ lastCol THEN TRUE ELSE @]

B_Wait(load, rddata) ==
  /\ sb.state = "WAITING" /\ ~(load \/ sb.first)
  /\ sb' = [Datapath(rddata) EXCEPT !.load_done = FALSE]

B_Load(load, rddata) ==
  /\ sb.state = "WAITING" /\ (load \/ sb.first)
  /\ sb' = [Datapath(rddata) EXCEPT !.load_done = FALSE, !.state = "LOADING",
              !.stationaryCtrl = TRUE, !.first = FALSE]

B_Shift(rddata) ==
  /\ sb.state = "LOADING" /\ sb.load_cnt # N - 1
  /\ sb' = [Datapath(rddata) EXCEPT !.load_cnt = Incr(@)]

\* Faulty variant: the sequencer is not told that the tile is loaded.
B_Loaded_NotSignalled(rddata) ==
  /\ sb.state = "LOADING" /\ sb.load_cnt = N - 1
  /\ sb' = [Datapath(rddata) EXCEPT
              !.stationaryCtrl = TRUE, !.load_cnt = 0, !.Final = FALSE,
              !.state = IF sb.Final THEN "IDLE" ELSE "PREPARING"]

B_Loaded(rddata) ==
  /\ sb.state = "LOADING" /\ sb.load_cnt = N - 1
  /\ sb' = [Datapath(rddata) EXCEPT !.load_done = TRUE,
              !.stationaryCtrl = TRUE, !.load_cnt = 0, !.Final = FALSE,
              !.state = IF sb.Final THEN "IDLE" ELSE "PREPARING"]

ScatterBPosedge(load, rddata) ==
  \/ B_Idle(load, rddata)
  \/ B_Accept(load, rddata)
  \/ B_Fetch(rddata)
  \/ B_Fetched(rddata)
  \/ B_Wait(load, rddata)
  \/ B_Load(load, rddata)
  \/ B_Shift(rddata)
  \/ B_Loaded(rddata)
=============================================================================
