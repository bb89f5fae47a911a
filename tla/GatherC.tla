------------------------------ MODULE GatherC -------------------------------
(***************************************************************************)
(* Gather_C.sv: accumulates the partial rows of a tile column into a        *)
(* buffer (receive machine, gr) and, after the last tile of the column,    *)
(* writes the buffer to the C RAM (write-back machine, gw). The two        *)
(* machines step together and signal each other.                           *)
(***************************************************************************)
EXTENDS MatrixParams

VARIABLES
  gr,       \* receive machine: state, in_block_cnt, row_cnt, col_cnt, ...
  gw,       \* write-back machine: bram_state, write_back_cnt, ...
  cbuf      \* buffer[DATA_A_SIZE_Y][N]

C_ROW_CNT == B_SIZE_Y \div N
C_COL_CNT == B_SIZE_X \div N

BufferRow == 0 .. A_SIZE_Y - 1

ReceiveType ==
  [state : {"IDLE", "GATHERING", "WAITING"}, in_block_cnt : 0 .. A_SIZE_Y + 1,
   row_cnt : 0 .. C_ROW_CNT - 1, col_cnt : 0 .. C_COL_CNT - 1,
   recieve_done : BOOLEAN, write_back : BOOLEAN]
WriteBackType ==
  [bram_state : {"IDLE", "WRITING", "CLEANING"}, write_back_cnt : BufferRow,
   write_back_done : BOOLEAN]

GatherInit ==
  /\ gr = [state |-> "IDLE", in_block_cnt |-> 0, row_cnt |-> 0, col_cnt |-> 0,
           recieve_done |-> FALSE, write_back |-> FALSE]
  /\ gw = [bram_state |-> "IDLE", write_back_cnt |-> 0,
           write_back_done |-> FALSE]
  /\ cbuf = [r \in BufferRow |-> ZeroLanes]

\* The clearing loop of gen_block1 counts to DATA_A_SIZE_X, not _Y.
CleanBuffer ==
  [r \in BufferRow |-> IF r < A_SIZE_X THEN ZeroLanes ELSE cbuf[r]]

\* write_back is not reset.
GatherReset ==
  /\ gr' = [gr EXCEPT !.state = "IDLE", !.recieve_done = FALSE,
                      !.in_block_cnt = 0, !.row_cnt = 0, !.col_cnt = 0]
  /\ gw' = [bram_state |-> "IDLE", write_back_cnt |-> 0,
            write_back_done |-> TRUE]
  /\ cbuf' = CleanBuffer

GatherDone ==
  IF gw.bram_state = "CLEANING" THEN gw.write_back_done
                                ELSE gr.recieve_done /\ ~gr.write_back

\* bram_addr_pointer[12:5], bram_we_c and bram_wrdata_c
GatherCAddr == (gw.write_back_cnt * B_SIZE_X + gr.col_cnt * N) \div N
GatherCWe == gw.bram_state = "WRITING"
GatherCData == cbuf[gw.write_back_cnt]

WB_Idle ==
  /\ gw.bram_state = "IDLE"
  /\ gw' = IF gr.write_back
           THEN [gw EXCEPT !.bram_state = "WRITING", !.write_back_done = FALSE]
           ELSE [gw EXCEPT !.write_back_cnt = 0, !.write_back_done = TRUE]

WB_Write ==
  /\ gw.bram_state = "WRITING"
  /\ gw' = IF gw.write_back_cnt = A_SIZE_Y - 1
           THEN [bram_state |-> "CLEANING", write_back_done |-> TRUE,
                 write_back_cnt |-> 0]
           ELSE [gw EXCEPT !.write_back_cnt = Incr(@), !.write_back_done = FALSE]

WB_Clean ==
  /\ gw.bram_state = "CLEANING"
  /\ gw' = [gw EXCEPT !.bram_state = "IDLE"]

RX_Idle(start_cal) ==
  /\ gr.state = "IDLE"
  /\ gr' = [gr EXCEPT !.recieve_done = FALSE, !.write_back = FALSE,
                      !.state = IF start_cal THEN "GATHERING" ELSE @]

RX_Gather ==
  /\ gr.state = "GATHERING" /\ gr.in_block_cnt # A_SIZE_Y + 1
  /\ gr' = [gr EXCEPT !.in_block_cnt = Incr(@), !.recieve_done = FALSE]

RX_Gathered ==
  /\ gr.state = "GATHERING" /\ gr.in_block_cnt = A_SIZE_Y + 1
  /\ gr' = [gr EXCEPT !.state = "WAITING", !.in_block_cnt = 0,
                      !.recieve_done = TRUE,
                      !.write_back = IF gr.row_cnt = C_ROW_CNT - 1
                                     THEN TRUE ELSE @]

RX_Wait(start_cal) ==
  /\ gr.state = "WAITING" /\ ~GatherDone
  /\ gr' = [gr EXCEPT !.write_back = FALSE, !.recieve_done = FALSE,
                      !.state = IF start_cal THEN "GATHERING" ELSE @]

RX_TileDone ==
  /\ gr.state = "WAITING" /\ GatherDone
  /\ LET lastRow == gr.row_cnt = C_ROW_CNT - 1
         lastCol == gr.col_cnt = C_COL_CNT - 1
     IN  gr' = [gr EXCEPT
                  !.write_back = FALSE, !.recieve_done = FALSE,
                  !.row_cnt = IF lastRow THEN 0 ELSE @ + 1,
                  !.col_cnt = CASE lastRow /\ lastCol -> 0
                                [] lastRow /\ ~lastCol -> @ + 1
                                [] OTHER -> @,
                  !.state = IF lastRow /\ lastCol THEN "IDLE" ELSE "WAITING"]

\* Faulty variant: the buffer is not cleared between two columns of tiles.
BufferPosedge_NotCleaned(c_outs) ==
  cbuf' = CASE gr.state = "IDLE" -> CleanBuffer
            [] gr.state = "GATHERING" /\ gr.in_block_cnt - 1 \in BufferRow
                 -> [cbuf EXCEPT ![gr.in_block_cnt - 1] =
                       [j \in Lane |-> Add(@[j], c_outs[j])]]
            [] OTHER -> cbuf

\* The gen_block1 processes. An index outside the buffer writes nothing.
BufferPosedge(c_outs) ==
  cbuf' = CASE gr.state = "IDLE" \/ gw.bram_state = "CLEANING"
                 -> CleanBuffer
            [] gr.state = "GATHERING" /\ gw.bram_state # "CLEANING"
                 /\ gr.in_block_cnt - 1 \in BufferRow
                 -> [cbuf EXCEPT ![gr.in_block_cnt - 1] =
                       [j \in Lane |-> Add(@[j], c_outs[j])]]
            [] OTHER -> cbuf

GatherPosedge(start_cal, c_outs) ==
  /\ \/ WB_Idle \/ WB_Write \/ WB_Clean
  /\ \/ RX_Idle(start_cal) \/ RX_Gather \/ RX_Gathered
     \/ RX_Wait(start_cal) \/ RX_TileDone
  /\ BufferPosedge(c_outs)
=============================================================================
