------------------------ MODULE MatrixMultiply_proofs ------------------------
(***************************************************************************)
(* Proofs about MatrixMultiply. The first part is about the handshakes,    *)
(* for every tile side and every size of the matrices, also where the      *)
(* units disagree on how many tiles there are; nothing in it depends on    *)
(* the data. The second part is about the data path, for square matrices:  *)
(* what is in the C RAM when the accelerator says Finish.                  *)
(***************************************************************************)
EXTENDS MatrixMultiply, SumTheorems, TLAPS

(***************************************************************************)
(* The inductive invariant: by the state of the sequencer, where the other *)
(* units are.                                                              *)
(***************************************************************************)

\* The gather unit has nothing to receive or to write back.
GatherQuiet ==
  /\ gr.state \in {"IDLE", "WAITING"} /\ gr.in_block_cnt = 0
  /\ ~gr.recieve_done /\ ~gr.write_back
  /\ gw.bram_state = "IDLE"

\* Scatter_a has no row under way.
ScatterAQuiet ==
  /\ sa.state \in {"IDLE", "WAITING"}
  /\ sa.state = "WAITING" => sa.in_block_cnt = 0
  /\ ~sa.output_enable

\* Scatter_b waits for a load pulse, with a tile or with none.
ScatterBWaits ==
  \/ sb.state = "IDLE"
  \/ sb.state = "WAITING" /\ ~sb.first /\ ~sb.load_done /\ ~sb.stationaryCtrl

\* The sequencer is at rest. A reset may have left output_enable,
\* stationaryCtrl or load_done set; the next clock clears them.
AtRest ==
  /\ GatherQuiet /\ ScatterBWaits
  /\ sa.state \in {"IDLE", "WAITING"}
  /\ sa.state = "WAITING" => sa.in_block_cnt = 0 /\ ~sa.output_enable
  /\ sa.output_enable => ~sb.stationaryCtrl

\* A tile is being loaded: from the load pulse to load_done.
Loading ==
  /\ GatherQuiet /\ ScatterAQuiet
  /\ IF cc.B_load
     THEN \/ /\ sb.state = "IDLE" /\ sb.first /\ sb.in_block_cnt = 0
             /\ ~sb.load_done /\ ~sb.stationaryCtrl
          \/ sb.state = "WAITING" /\ ~sb.load_done /\ ~sb.stationaryCtrl
     ELSE \/ sb.state \in {"PREPARING", "WAITING"} /\ ~sb.load_done
          \/ sb.state = "LOADING" /\ ~sb.load_done /\ ~sb.first
          \/ /\ sb.load_done
             /\ \/ sb.state = "IDLE"
                \/ sb.state = "PREPARING" /\ ~sb.first /\ sb.in_block_cnt = 0

\* The rows of A are streamed. The prefetch of the next tile began two clocks
\* before the first row is counted and needs fewer clocks than there are rows.
Starting ==
  /\ cc.start_cal /\ GatherQuiet /\ ScatterAQuiet
  /\ \/ sb.state = "IDLE"
     \/ sb.state = "PREPARING" /\ ~sb.first /\ sb.in_block_cnt = 1

Streaming ==
  /\ ~cc.start_cal
  /\ gr.state = "GATHERING" /\ ~gr.recieve_done /\ ~gr.write_back
  /\ gw.bram_state = "IDLE"
  /\ \/ /\ sa.state = "CALCULATE" /\ sa.in_block_cnt = gr.in_block_cnt
     \/ /\ gr.in_block_cnt = A_SIZE_Y
        /\ sa.state \in {"IDLE", "WAITING"}
        /\ sa.state = "WAITING" => sa.in_block_cnt = 0
     \/ gr.in_block_cnt = A_SIZE_Y + 1 /\ ScatterAQuiet
  /\ \/ ScatterBWaits
     \/ sb.state = "PREPARING" /\ ~sb.first /\ sb.in_block_cnt = gr.in_block_cnt + 2

\* The rows are in; the column of tiles may have to be written back.
Gathered ==
  /\ ~cc.start_cal /\ ScatterAQuiet /\ ScatterBWaits
  /\ gr.state = "WAITING" /\ gr.in_block_cnt = 0
  /\ \/ gr.recieve_done /\ gw.bram_state = "IDLE"
     \/ /\ ~gr.recieve_done /\ ~gr.write_back
        /\ \/ gw.bram_state = "WRITING"
           \/ gw.bram_state = "CLEANING" /\ gw.write_back_done

Computing ==
  /\ ~sb.load_done /\ ~sb.stationaryCtrl
  /\ Starting \/ Streaming \/ Gathered

HandshakeInv ==
  /\ cc.B_load => cc.state = "PREPARING"
  /\ cc.start_cal => cc.state = "COMPUTING"
  /\ cc.state = "IDLE" => AtRest
  /\ cc.state = "PREPARING" => Loading
  /\ cc.state = "COMPUTING" => Computing
  /\ sb.state \in {"WAITING", "LOADING"} => sb.in_block_cnt = 0

\* Outside the runs after a reset that left Final or write_back set.
AccelInv == TypeOK /\ (residue # {} \/ HandshakeInv)
-----------------------------------------------------------------------------
(***************************************************************************)
(* The sizes: no counter wraps before its last value, and a tile has no    *)
(* more rows than A.                                                       *)
(***************************************************************************)
LEMMA Sizes ==
  /\ N \in Nat \ {0} /\ A_SIZE_Y \in Nat \ {0} /\ N <= A_SIZE_Y
  /\ Control_ROW_CNT \in Nat \ {0} /\ Control_COL_CNT \in Nat \ {0}
  /\ A_COL_CNT \in Nat \ {0} /\ B_ROW_CNT \in Nat \ {0} /\ B_COL_CNT \in Nat \ {0}
  /\ C_ROW_CNT \in Nat \ {0} /\ C_COL_CNT \in Nat \ {0}
<1>1. /\ N \in Nat \ {0} /\ A_SIZE_Y \in Nat \ {0} /\ A_SIZE_X \in Nat \ {0}
      /\ B_SIZE_X \in Nat \ {0} /\ B_SIZE_Y \in Nat \ {0}
      /\ A_SIZE_Y % N = 0 /\ A_SIZE_X % N = 0 /\ B_SIZE_X % N = 0 /\ B_SIZE_Y % N = 0
  BY SizeAssumption
<1>2. \A s \in Nat \ {0} : s % N = 0 => s \div N \in Nat \ {0} /\ N <= s
  BY <1>1
<1> QED
  BY <1>1, <1>2
     DEF Control_ROW_CNT, Control_COL_CNT, A_COL_CNT, B_ROW_CNT, B_COL_CNT, C_ROW_CNT, C_COL_CNT

LEMMA NoWrap ==
  /\ \A c \in 0 .. A_SIZE_Y : Incr(c) = c + 1
  /\ \A c \in 0 .. N : Incr(c) = c + 1
BY SizeAssumption, WidthAssumption DEF Incr
-----------------------------------------------------------------------------
(***************************************************************************)
(* One clock of each unit, by the registers the handshakes use.            *)
(***************************************************************************)
ControlMoves(start, B_load_done, C_gather_done) ==
  \/ /\ cc.state = "IDLE" /\ ~start /\ cc'.state = "IDLE"
     /\ ~cc'.B_load /\ ~cc'.start_cal /\ ~cc'.Finish
  \/ /\ cc.state = "IDLE" /\ start /\ cc'.state = "PREPARING"
     /\ cc'.B_load /\ cc'.start_cal = cc.start_cal /\ cc'.Finish = cc.Finish
  \/ /\ cc.state = "PREPARING"
     /\ cc'.state = (IF B_load_done THEN "COMPUTING" ELSE "PREPARING")
     /\ ~cc'.B_load /\ cc'.start_cal = B_load_done /\ cc'.Finish = cc.Finish
  \/ /\ cc.state = "COMPUTING" /\ ~C_gather_done /\ cc'.state = "COMPUTING"
     /\ cc'.B_load = cc.B_load /\ ~cc'.start_cal /\ ~cc'.Finish
  \/ /\ cc.state = "COMPUTING" /\ C_gather_done /\ cc'.state = "PREPARING"
     /\ cc'.B_load /\ cc'.start_cal = cc.start_cal /\ ~cc'.Finish
  \/ /\ cc.state = "COMPUTING" /\ C_gather_done /\ cc'.state = "IDLE"
     /\ cc'.B_load = cc.B_load /\ cc'.start_cal = cc.start_cal /\ cc'.Finish

LEMMA ControlClock ==
  ASSUME cc \in ControlType, NEW start \in BOOLEAN, NEW ld \in BOOLEAN,
         NEW gd \in BOOLEAN, ControlPosedge(start, ld, gd)
  PROVE  cc' \in ControlType /\ ControlMoves(start, ld, gd)
<1> USE Sizes DEF ControlType
<1>1. CASE Control_Idle(start)
  BY <1>1 DEF Control_Idle, ControlMoves
<1>2. CASE Control_Start(start)
  BY <1>2 DEF Control_Start, ControlMoves
<1>3. CASE Control_Prepare(ld)
  BY <1>3 DEF Control_Prepare, ControlMoves
<1>4. CASE Control_Compute(gd)
  BY <1>4 DEF Control_Compute, ControlMoves
<1>5. CASE Control_NextTile(gd)
  <2>1. cc' \in ControlType
    <3>1. /\ 0 \in 0 .. Control_ROW_CNT - 1
          /\ cc.row_cnt # Control_ROW_CNT - 1 => cc.row_cnt + 1 \in 0 .. Control_ROW_CNT - 1
          /\ cc.col_cnt # Control_COL_CNT - 1 => cc.col_cnt + 1 \in 0 .. Control_COL_CNT - 1
      OBVIOUS
    <3> QED
      BY <3>1, <1>5, ZenonT(60) DEF Control_NextTile
  <2>2. ControlMoves(start, ld, gd)
    BY <1>5, ZenonT(60) DEF Control_NextTile, ControlMoves
  <2> QED
    BY <2>1, <2>2
<1>6. CASE Control_LastTile(gd)
  <2>1. cc' \in ControlType
    <3>1. 0 \in 0 .. Control_ROW_CNT - 1 /\ 0 \in 0 .. Control_COL_CNT - 1
      OBVIOUS
    <3> QED
      BY <3>1, <1>6 DEF Control_LastTile
  <2>2. ControlMoves(start, ld, gd)
    BY <1>6 DEF Control_LastTile, ControlMoves
  <2> QED
    BY <2>1, <2>2
<1> QED
  BY <1>1, <1>2, <1>3, <1>4, <1>5, <1>6 DEF ControlPosedge

ScatterAMoves(start_cal) ==
  \/ /\ sa.state = "IDLE" /\ ~start_cal /\ sa'.state = "IDLE" /\ ~sa'.output_enable
  \/ /\ sa.state = "IDLE" /\ start_cal /\ sa'.state = "CALCULATE" /\ sa'.in_block_cnt = 0
     /\ sa'.output_enable = sa.output_enable
  \/ /\ sa.state = "CALCULATE" /\ sa.in_block_cnt < A_SIZE_Y - 1
     /\ sa'.state = "CALCULATE" /\ sa'.in_block_cnt = sa.in_block_cnt + 1
  \/ /\ sa.state = "CALCULATE" /\ sa.in_block_cnt = A_SIZE_Y - 1
     /\ \/ sa'.state = "IDLE"
        \/ sa'.state = "WAITING" /\ sa'.in_block_cnt = 0
  \/ /\ sa.state = "WAITING" /\ sa'.in_block_cnt = sa.in_block_cnt
     /\ IF start_cal THEN sa'.state = "CALCULATE" /\ sa'.output_enable = sa.output_enable
                     ELSE sa'.state = "WAITING" /\ ~sa'.output_enable

LEMMA ScatterAClock ==
  ASSUME sa \in ScatterAType, NEW start_cal \in BOOLEAN, ScatterAPosedge(start_cal)
  PROVE  sa' \in ScatterAType /\ ScatterAMoves(start_cal)
<1> USE Sizes DEF ScatterAType
<1>1. CASE A_Idle(start_cal)
  <2>1. sa' \in ScatterAType
    <3>1. 0 \in 0 .. A_SIZE_Y - 1
      OBVIOUS
    <3> QED
      BY <3>1, <1>1 DEF A_Idle
  <2>2. ScatterAMoves(start_cal)
    BY <1>1 DEF A_Idle, ScatterAMoves
  <2> QED
    BY <2>1, <2>2
<1>2. CASE A_Start(start_cal)
  <2>1. sa' \in ScatterAType
    <3>1. 0 \in 0 .. A_SIZE_Y - 1
      OBVIOUS
    <3> QED
      BY <3>1, <1>2 DEF A_Start
  <2>2. ScatterAMoves(start_cal)
    BY <1>2 DEF A_Start, ScatterAMoves
  <2> QED
    BY <2>1, <2>2
<1>3. CASE A_NextRow
  <2>1. sa.in_block_cnt \in 0 .. A_SIZE_Y - 1 /\ sa.in_block_cnt < A_SIZE_Y - 1
    BY <1>3 DEF A_NextRow
  <2>2. Incr(sa.in_block_cnt) = sa.in_block_cnt + 1
    BY <2>1, NoWrap
  <2>8. sa' \in ScatterAType
    <3>1. sa.in_block_cnt + 1 \in 0 .. A_SIZE_Y - 1
      BY <2>1
    <3> QED
      BY <3>1, <1>3, <2>1, <2>2 DEF A_NextRow
  <2>9. ScatterAMoves(start_cal)
    BY <1>3, <2>1, <2>2 DEF A_NextRow, ScatterAMoves
  <2> QED
    BY <2>8, <2>9
<1>4. CASE A_BlockDone
  <2>1. sa' \in ScatterAType
    <3>1. /\ 0 \in 0 .. A_SIZE_Y - 1 /\ 0 \in 0 .. A_COL_CNT - 1
          /\ sa.col_cnt # A_COL_CNT - 1 => sa.col_cnt + 1 \in 0 .. A_COL_CNT - 1
      OBVIOUS
    <3> QED
      BY <3>1, <1>4, ZenonT(60) DEF A_BlockDone
  <2>2. ScatterAMoves(start_cal)
    BY <1>4 DEF A_BlockDone, ScatterAMoves
  <2> QED
    BY <2>1, <2>2
<1>5. CASE A_Wait(start_cal)
  BY <1>5 DEF A_Wait, ScatterAMoves
<1> QED
  BY <1>1, <1>2, <1>3, <1>4, <1>5 DEF ScatterAPosedge

ScatterBMoves(load) ==
  \/ /\ sb.state = "IDLE" /\ ~load /\ sb'.state = "IDLE" /\ sb'.first
     /\ ~sb'.stationaryCtrl /\ ~sb'.load_done /\ sb'.in_block_cnt = 0
  \/ /\ sb.state = "IDLE" /\ load /\ sb'.state = "PREPARING" /\ sb'.first = sb.first
     /\ sb'.stationaryCtrl = sb.stationaryCtrl /\ sb'.load_done = sb.load_done
     /\ sb'.in_block_cnt = sb.in_block_cnt
  \/ /\ sb.state = "PREPARING" /\ sb.in_block_cnt < N + 1 /\ sb'.state = "PREPARING"
     /\ sb'.first = sb.first /\ ~sb'.stationaryCtrl /\ ~sb'.load_done
     /\ sb'.in_block_cnt = sb.in_block_cnt + 1
  \/ /\ sb.state = "PREPARING" /\ sb.in_block_cnt = N + 1 /\ sb'.state = "WAITING"
     /\ sb'.first = sb.first /\ ~sb'.stationaryCtrl /\ ~sb'.load_done
     /\ sb'.in_block_cnt = 0
  \/ /\ sb.state = "WAITING" /\ ~(load \/ sb.first) /\ sb'.state = "WAITING"
     /\ sb'.first = sb.first /\ sb'.stationaryCtrl = sb.stationaryCtrl
     /\ ~sb'.load_done /\ sb'.in_block_cnt = sb.in_block_cnt
  \/ /\ sb.state = "WAITING" /\ (load \/ sb.first) /\ sb'.state = "LOADING"
     /\ ~sb'.first /\ ~sb'.load_done /\ sb'.in_block_cnt = sb.in_block_cnt
  \/ /\ sb.state = "LOADING" /\ sb'.state = "LOADING" /\ sb'.first = sb.first
     /\ sb'.load_done = sb.load_done /\ sb'.in_block_cnt = sb.in_block_cnt
  \/ /\ sb.state = "LOADING" /\ sb'.state \in {"IDLE", "PREPARING"}
     /\ sb'.first = sb.first /\ sb'.load_done /\ sb'.in_block_cnt = sb.in_block_cnt

LEMMA ScatterBClock ==
  ASSUME sb \in ScatterBType, NEW load \in BOOLEAN, NEW rd, ScatterBPosedge(load, rd)
  PROVE  (sb \in ScatterBType)' /\ ScatterBMoves(load)
<1> DEFINE dp == Datapath(rd)
<1>1. PICK bb, bi : dp = [sb EXCEPT !.buffer_B = bb, !.b_ins = bi]
  BY Zenon DEF Datapath
<1> HIDE DEF dp
<1> USE Sizes DEF ScatterBType, Lane
<1>2. CASE B_Idle(load, rd)
  <2>1. (sb \in ScatterBType)'
    <3>1. 0 \in 0 .. N + 1 /\ 0 \in 0 .. B_ROW_CNT - 1 /\ 0 \in 0 .. B_COL_CNT - 1 /\ 0 \in Lane
      OBVIOUS
    <3> QED
      BY <3>1, <1>1, <1>2, ZenonT(60) DEF B_Idle, dp
  <2>2. ScatterBMoves(load)
    BY <1>1, <1>2 DEF B_Idle, ScatterBMoves, dp
  <2> QED
    BY <2>1, <2>2
<1>3. CASE B_Accept(load, rd)
  BY <1>1, <1>3 DEF B_Accept, ScatterBMoves, dp
<1>4. CASE B_Fetch(rd)
  <2>1. sb.in_block_cnt \in 0 .. N /\ sb.in_block_cnt < N + 1
    BY <1>4 DEF B_Fetch
  <2>2. Incr(sb.in_block_cnt) = sb.in_block_cnt + 1
    BY <2>1, NoWrap
  <2>8. (sb \in ScatterBType)'
    <3>1. sb.in_block_cnt + 1 \in 0 .. N + 1
      BY <2>1
    <3>2. dp.in_block_cnt = sb.in_block_cnt
      BY <1>1
    <3>3. sb' = [dp EXCEPT !.load_done = FALSE, !.stationaryCtrl = FALSE,
                           !.in_block_cnt = sb.in_block_cnt + 1]
      BY <1>4, <2>2, <3>2 DEF B_Fetch, dp
    <3> QED
      BY <1>1, <3>1, <3>3, ZenonT(60)
  <2>9. ScatterBMoves(load)
    BY <1>1, <1>4, <2>1, <2>2 DEF B_Fetch, ScatterBMoves, dp
  <2> QED
    BY <2>8, <2>9
<1>5. CASE B_Fetched(rd)
  <2>1. (sb \in ScatterBType)'
    <3>1. /\ 0 \in 0 .. N + 1 /\ 0 \in 0 .. B_ROW_CNT - 1 /\ 0 \in 0 .. B_COL_CNT - 1
          /\ sb.row_cnt # B_ROW_CNT - 1 => sb.row_cnt + 1 \in 0 .. B_ROW_CNT - 1
          /\ sb.col_cnt # B_COL_CNT - 1 => sb.col_cnt + 1 \in 0 .. B_COL_CNT - 1
      OBVIOUS
    <3> QED
      BY <3>1, <1>1, <1>5, ZenonT(60) DEF B_Fetched, dp
  <2>2. ScatterBMoves(load)
    BY <1>1, <1>5 DEF B_Fetched, ScatterBMoves, dp
  <2> QED
    BY <2>1, <2>2
<1>6. CASE B_Wait(load, rd)
  BY <1>1, <1>6 DEF B_Wait, ScatterBMoves, dp
<1>7. CASE B_Load(load, rd)
  BY <1>1, <1>7, ZenonT(60) DEF B_Load, ScatterBMoves, dp
<1>8. CASE B_Shift(rd)
  <2>1. sb.load_cnt \in 0 .. N /\ sb.load_cnt + 1 \in Lane
    BY <1>8 DEF B_Shift
  <2>2. Incr(sb.load_cnt) = sb.load_cnt + 1
    BY <2>1, NoWrap
  <2>8. (sb \in ScatterBType)'
    <3>1. dp.load_cnt = sb.load_cnt
      BY <1>1
    <3>2. sb' = [dp EXCEPT !.load_cnt = sb.load_cnt + 1]
      BY <1>8, <2>2, <3>1 DEF B_Shift, dp
    <3> QED
      BY <1>1, <2>1, <3>2
  <2>9. ScatterBMoves(load)
    BY <1>1, <1>8, <2>1, <2>2 DEF B_Shift, ScatterBMoves, dp
  <2> QED
    BY <2>8, <2>9
<1>9. CASE B_Loaded(rd)
  <2>1. (sb \in ScatterBType)'
    <3>1. 0 \in Lane
      OBVIOUS
    <3> QED
      BY <3>1, <1>1, <1>9, ZenonT(60) DEF B_Loaded, dp
  <2>2. ScatterBMoves(load)
    BY <1>1, <1>9 DEF B_Loaded, ScatterBMoves, dp
  <2> QED
    BY <2>1, <2>2
<1> QED
  BY <1>2, <1>3, <1>4, <1>5, <1>6, <1>7, <1>8, <1>9 DEF ScatterBPosedge

ReceiveMoves(start_cal) ==
  \/ /\ gr.state = "IDLE" /\ ~gr'.recieve_done /\ ~gr'.write_back
     /\ gr'.in_block_cnt = gr.in_block_cnt
     /\ gr'.state = (IF start_cal THEN "GATHERING" ELSE "IDLE")
  \/ /\ gr.state = "GATHERING" /\ gr.in_block_cnt < A_SIZE_Y + 1
     /\ gr'.state = "GATHERING" /\ gr'.in_block_cnt = gr.in_block_cnt + 1
     /\ ~gr'.recieve_done /\ gr'.write_back = gr.write_back
  \/ /\ gr.state = "GATHERING" /\ gr.in_block_cnt = A_SIZE_Y + 1
     /\ gr'.state = "WAITING" /\ gr'.in_block_cnt = 0 /\ gr'.recieve_done
  \/ /\ gr.state = "WAITING" /\ ~GatherDone /\ ~gr'.recieve_done /\ ~gr'.write_back
     /\ gr'.in_block_cnt = gr.in_block_cnt
     /\ gr'.state = (IF start_cal THEN "GATHERING" ELSE "WAITING")
  \/ /\ gr.state = "WAITING" /\ GatherDone /\ ~gr'.recieve_done /\ ~gr'.write_back
     /\ gr'.in_block_cnt = gr.in_block_cnt /\ gr'.state \in {"IDLE", "WAITING"}

WriteBackMoves ==
  \/ /\ gw.bram_state = "IDLE"
     /\ gw'.bram_state = (IF gr.write_back THEN "WRITING" ELSE "IDLE")
  \/ /\ gw.bram_state = "WRITING"
     /\ gw'.bram_state = "WRITING" \/ (gw'.bram_state = "CLEANING" /\ gw'.write_back_done)
  \/ gw.bram_state = "CLEANING" /\ gw'.bram_state = "IDLE"

LEMMA GatherClock ==
  ASSUME gr \in ReceiveType, gw \in WriteBackType, NEW start_cal \in BOOLEAN, NEW c_outs,
         GatherPosedge(start_cal, c_outs)
  PROVE  /\ gr' \in ReceiveType /\ ReceiveMoves(start_cal)
         /\ gw' \in WriteBackType /\ WriteBackMoves
<1>1. gw' \in WriteBackType /\ WriteBackMoves
  <2> USE Sizes DEF WriteBackType, BufferRow
  <2>1. CASE WB_Idle
    <3>1. 0 \in BufferRow
      OBVIOUS
    <3>2. gw' \in WriteBackType
      BY <2>1, <3>1 DEF WB_Idle
    <3>3. WriteBackMoves
      BY <2>1 DEF WB_Idle, WriteBackMoves
    <3> QED
      BY <3>2, <3>3
  <2>2. CASE WB_Write
    <3>1. 0 \in BufferRow
      OBVIOUS
    <3>2. CASE gw.write_back_cnt = A_SIZE_Y - 1
      BY <2>2, <3>1, <3>2 DEF WB_Write, WriteBackMoves
    <3>3. CASE gw.write_back_cnt # A_SIZE_Y - 1
      <4>1. gw.write_back_cnt \in 0 .. A_SIZE_Y /\ gw.write_back_cnt + 1 \in BufferRow
        BY <3>3
      <4>2. Incr(gw.write_back_cnt) = gw.write_back_cnt + 1
        BY <4>1, NoWrap
      <4>3. gw' = [gw EXCEPT !.write_back_cnt = gw.write_back_cnt + 1, !.write_back_done = FALSE]
        BY <2>2, <3>3, <4>2 DEF WB_Write
      <4> QED
        BY <2>2, <4>1, <4>3 DEF WB_Write, WriteBackMoves
    <3> QED
      BY <3>2, <3>3
  <2>3. CASE WB_Clean
    BY <2>3 DEF WB_Clean, WriteBackMoves
  <2> QED
    BY <2>1, <2>2, <2>3 DEF GatherPosedge
<1>2. gr' \in ReceiveType /\ ReceiveMoves(start_cal)
  <2> USE Sizes DEF ReceiveType
  <2>1. CASE RX_Idle(start_cal)
    BY <2>1 DEF RX_Idle, ReceiveMoves
  <2>2. CASE RX_Gather
    <3>1. gr.in_block_cnt \in 0 .. A_SIZE_Y /\ gr.in_block_cnt + 1 \in 0 .. A_SIZE_Y + 1
      BY <2>2 DEF RX_Gather
    <3>2. Incr(gr.in_block_cnt) = gr.in_block_cnt + 1
      BY <3>1, NoWrap
    <3>3. gr' = [gr EXCEPT !.in_block_cnt = gr.in_block_cnt + 1, !.recieve_done = FALSE]
      BY <2>2, <3>2 DEF RX_Gather
    <3>4. gr' \in ReceiveType
      BY <3>1, <3>3
    <3>5. /\ gr.state = "GATHERING" /\ gr.in_block_cnt # A_SIZE_Y + 1
          /\ gr'.state = "GATHERING" /\ gr'.in_block_cnt = gr.in_block_cnt + 1
          /\ ~gr'.recieve_done /\ gr'.write_back = gr.write_back
      BY <2>2, <3>1, <3>3 DEF RX_Gather
    <3>6. ReceiveMoves(start_cal)
      BY <3>5 DEF ReceiveMoves
    <3> QED
      BY <3>4, <3>6
  <2>3. CASE RX_Gathered
    <3>1. 0 \in 0 .. A_SIZE_Y + 1
      OBVIOUS
    <3>2. gr' \in ReceiveType
      BY <2>3, <3>1 DEF RX_Gathered
    <3>3. ReceiveMoves(start_cal)
      BY <2>3 DEF RX_Gathered, ReceiveMoves
    <3> QED
      BY <3>2, <3>3
  <2>4. CASE RX_Wait(start_cal)
    BY <2>4 DEF RX_Wait, ReceiveMoves
  <2>5. CASE RX_TileDone
    <3>1. /\ 0 \in 0 .. C_ROW_CNT - 1 /\ 0 \in 0 .. C_COL_CNT - 1
          /\ gr.row_cnt # C_ROW_CNT - 1 => gr.row_cnt + 1 \in 0 .. C_ROW_CNT - 1
          /\ gr.col_cnt # C_COL_CNT - 1 => gr.col_cnt + 1 \in 0 .. C_COL_CNT - 1
      OBVIOUS
    <3>2. gr' \in ReceiveType
      BY <2>5, <3>1 DEF RX_TileDone
    <3>3. ReceiveMoves(start_cal)
      BY <2>5 DEF RX_TileDone, ReceiveMoves
    <3> QED
      BY <3>2, <3>3
  <2> QED
    BY <2>1, <2>2, <2>3, <2>4, <2>5 DEF GatherPosedge
<1> QED
  BY <1>1, <1>2
-----------------------------------------------------------------------------
(***************************************************************************)
(* One clock of the whole accelerator.                                     *)
(***************************************************************************)
LEMMA ClockMoves ==
  ASSUME TypeOK, NEW start \in BOOLEAN, Clock(start)
  PROVE  /\ TypeOK'
         /\ ControlMoves(start, sb.load_done, GatherDone)
         /\ ScatterAMoves(cc.start_cal) /\ ScatterBMoves(cc.B_load)
         /\ ReceiveMoves(cc.start_cal) /\ WriteBackMoves
         /\ residue' = residue
<1>1. /\ sb.load_done \in BOOLEAN /\ cc.start_cal \in BOOLEAN /\ cc.B_load \in BOOLEAN
  BY DEF TypeOK, ControlType, ScatterBType
<1>2. GatherDone \in BOOLEAN
  BY DEF TypeOK, GatherDone, ReceiveType, WriteBackType
<1>3. /\ ControlPosedge(start, sb.load_done, GatherDone)
      /\ ScatterAPosedge(cc.start_cal)
      /\ ScatterBPosedge(cc.B_load, rdB)
      /\ GatherPosedge(cc.start_cal, COuts(AIn(rdA)))
      /\ UNCHANGED <<gen, resets, residue>>
  BY Zenon DEF Clock, Posedge
<1>4. /\ cc \in ControlType /\ sa \in ScatterAType /\ sb \in ScatterBType
      /\ gr \in ReceiveType /\ gw \in WriteBackType
  BY DEF TypeOK
<1>5. cc' \in ControlType /\ ControlMoves(start, sb.load_done, GatherDone)
  BY <1>1, <1>2, <1>3, <1>4, ControlClock
<1>6. sa' \in ScatterAType /\ ScatterAMoves(cc.start_cal)
  BY <1>1, <1>3, <1>4, ScatterAClock
<1>7. (sb \in ScatterBType)' /\ ScatterBMoves(cc.B_load)
  BY <1>1, <1>3, <1>4, ScatterBClock
<1>8. /\ gr' \in ReceiveType /\ ReceiveMoves(cc.start_cal)
      /\ gw' \in WriteBackType /\ WriteBackMoves
  BY <1>1, <1>3, <1>4, GatherClock
<1>9. TypeOK'
  BY <1>3, <1>5, <1>6, <1>7, <1>8, Zenon
     DEF TypeOK, ControlType, ScatterAType, ReceiveType, WriteBackType
<1> QED
  BY <1>3, <1>5, <1>6, <1>7, <1>8, <1>9

LEMMA TypeInit == Init => TypeOK
<1> SUFFICES ASSUME Init PROVE TypeOK
  OBVIOUS
<1> USE Sizes
<1>1. /\ 0 \in 0 .. Control_ROW_CNT - 1 /\ 0 \in 0 .. Control_COL_CNT - 1
      /\ 0 \in 0 .. A_SIZE_Y - 1 /\ 0 \in 0 .. A_COL_CNT - 1
      /\ 0 \in 0 .. B_ROW_CNT - 1 /\ 0 \in 0 .. B_COL_CNT - 1 /\ 0 \in 0 .. N + 1
      /\ 0 \in 0 .. C_ROW_CNT - 1 /\ 0 \in 0 .. C_COL_CNT - 1
      /\ 0 \in 0 .. A_SIZE_Y + 1 /\ 0 \in Lane /\ 0 \in BufferRow
  BY DEF Lane, BufferRow
<1>2. cc \in ControlType
  BY <1>1 DEF Init, ControlInit, ControlType
<1>3. sa \in ScatterAType
  BY <1>1 DEF Init, ScatterAInit, ScatterAType
<1>4. sb \in ScatterBType
  BY <1>1 DEF Init, ScatterBInit, ScatterBType
<1>5. gr \in ReceiveType /\ gw \in WriteBackType
  BY <1>1 DEF Init, GatherInit, ReceiveType, WriteBackType
<1>6. gen \in 1 .. MaxRuns /\ resets \in 0 .. MaxResets
  BY BoundAssumption DEF Init
<1>7. residue \subseteq {"Final", "write_back"}
  BY Zenon DEF Init
<1> QED
  BY <1>2, <1>3, <1>4, <1>5, <1>6, <1>7 DEF TypeOK

LEMMA TypeReset == TypeOK /\ Reset => TypeOK'
<1> SUFFICES ASSUME TypeOK, Reset PROVE TypeOK'
  OBVIOUS
<1> USE Sizes DEF TypeOK, Reset
<1>1. /\ 0 \in 0 .. Control_ROW_CNT - 1 /\ 0 \in 0 .. Control_COL_CNT - 1
      /\ 0 \in 0 .. A_COL_CNT - 1 /\ 0 \in 0 .. B_COL_CNT - 1
      /\ 0 \in 0 .. C_ROW_CNT - 1 /\ 0 \in 0 .. C_COL_CNT - 1
      /\ 0 \in 0 .. A_SIZE_Y + 1 /\ 0 \in Lane /\ 0 \in BufferRow
  BY DEF Lane, BufferRow
<1>2. (cc \in ControlType)'
  BY <1>1 DEF ControlReset, ControlType
<1>3. (sa \in ScatterAType)'
  BY <1>1 DEF ScatterAReset, ScatterAType
<1>4. (sb \in ScatterBType)'
  BY <1>1 DEF ScatterBReset, ScatterBType
<1>5. (gr \in ReceiveType /\ gw \in WriteBackType)'
  BY <1>1 DEF GatherReset, ReceiveType, WriteBackType
<1>6. (gen \in 1 .. MaxRuns /\ resets \in 0 .. MaxResets)'
  BY BoundAssumption
<1>7. residue' \subseteq {"Final", "write_back"}
  BY Zenon
<1> QED
  BY <1>2, <1>3, <1>4, <1>5, <1>6, <1>7

LEMMA TypeStore == TypeOK /\ Store => TypeOK'
<1> SUFFICES ASSUME TypeOK, Store PROVE TypeOK'
  OBVIOUS
<1>1. gen' \in 1 .. MaxRuns
  BY BoundAssumption DEF TypeOK, Store
<1> QED
  BY <1>1 DEF TypeOK, Store, coreVars, ControlType, ScatterAType, ScatterBType,
              ReceiveType, WriteBackType

LEMMA TypeStep == TypeOK /\ [Next]_mmVars => TypeOK'
<1> SUFFICES ASSUME TypeOK, [Next]_mmVars PROVE TypeOK'
  OBVIOUS
<1>1. ASSUME NEW start \in BOOLEAN, Clock(start) PROVE TypeOK'
  BY <1>1, ClockMoves
<1>2. CASE UNCHANGED mmVars
  BY <1>2 DEF TypeOK, mmVars, coreVars, ControlType, ScatterAType, ScatterBType,
              ReceiveType, WriteBackType
<1> QED
  BY <1>1, <1>2, TypeReset, TypeStore DEF Next
-----------------------------------------------------------------------------
(***************************************************************************)
(* The handshakes over one clock, by the state of the sequencer.           *)
(***************************************************************************)

\* The ranges the counters of the handshakes have.
CounterRanges ==
  /\ sa.in_block_cnt \in 0 .. A_SIZE_Y - 1
  /\ sb.in_block_cnt \in 0 .. N + 1
  /\ gr.in_block_cnt \in 0 .. A_SIZE_Y + 1
  /\ cc.start_cal \in BOOLEAN /\ cc.B_load \in BOOLEAN /\ cc.Finish \in BOOLEAN
  /\ sa.output_enable \in BOOLEAN
  /\ sb.first \in BOOLEAN /\ sb.stationaryCtrl \in BOOLEAN /\ sb.load_done \in BOOLEAN
  /\ gr.recieve_done \in BOOLEAN /\ gr.write_back \in BOOLEAN
  /\ gw.write_back_done \in BOOLEAN
  /\ cc.state \in {"IDLE", "PREPARING", "COMPUTING"}
  /\ sa.state \in {"IDLE", "CALCULATE", "WAITING"}
  /\ sb.state \in {"IDLE", "PREPARING", "WAITING", "LOADING"}
  /\ gr.state \in {"IDLE", "GATHERING", "WAITING"}
  /\ gw.bram_state \in {"IDLE", "WRITING", "CLEANING"}

LEMMA Ranges == TypeOK => CounterRanges
BY DEF TypeOK, ControlType, ScatterAType, ScatterBType, ReceiveType, WriteBackType,
       CounterRanges

\* After a clock scatter_b still knows nothing of a tile it has not fetched.
ScatterBCount == sb.state \in {"WAITING", "LOADING"} => sb.in_block_cnt = 0

LEMMA CountStep ==
  ASSUME NEW load \in BOOLEAN, ScatterBMoves(load), ScatterBCount
  PROVE  ScatterBCount'
BY DEF ScatterBMoves, ScatterBCount

LEMMA FromIdle ==
  ASSUME CounterRanges, CounterRanges', AtRest, cc.state = "IDLE", ~cc.B_load, ~cc.start_cal,
         NEW start \in BOOLEAN, ControlMoves(start, sb.load_done, GatherDone),
         ScatterAMoves(FALSE), ScatterBMoves(FALSE), ReceiveMoves(FALSE), WriteBackMoves
  PROVE  \/ cc'.state = "IDLE" /\ ~cc'.B_load /\ ~cc'.start_cal /\ AtRest'
         \/ cc'.state = "PREPARING" /\ cc'.B_load /\ ~cc'.start_cal /\ Loading'
<1>1. GatherQuiet'
  BY DEF AtRest, GatherQuiet, GatherDone, ReceiveMoves, WriteBackMoves
<1>2. ScatterAQuiet'
  BY DEF AtRest, ScatterAQuiet, ScatterAMoves
<1>3. /\ ~sb'.load_done /\ ~sb'.stationaryCtrl
      /\ \/ sb'.state = "IDLE" /\ sb'.first /\ sb'.in_block_cnt = 0
         \/ sb'.state = "WAITING" /\ ~sb'.first
  BY DEF AtRest, ScatterBWaits, ScatterBMoves
<1>4. ScatterBWaits'
  BY <1>3 DEF ScatterBWaits
<1>5. AtRest'
  BY <1>1, <1>2, <1>3, <1>4 DEF AtRest, ScatterAQuiet
<1>6. cc'.B_load => Loading'
  BY <1>1, <1>2, <1>3 DEF Loading
<1>7. \/ cc'.state = "IDLE" /\ ~cc'.B_load /\ ~cc'.start_cal
      \/ cc'.state = "PREPARING" /\ cc'.B_load /\ ~cc'.start_cal
  BY DEF ControlMoves, CounterRanges
<1> QED
  BY <1>5, <1>6, <1>7

LEMMA FromPreparing ==
  ASSUME CounterRanges, CounterRanges', Loading, ScatterBCount, cc.state = "PREPARING",
         ~cc.start_cal, NEW start \in BOOLEAN,
         ControlMoves(start, sb.load_done, GatherDone),
         ScatterAMoves(FALSE), ScatterBMoves(cc.B_load), ReceiveMoves(FALSE), WriteBackMoves
  PROVE  \/ cc'.state = "PREPARING" /\ ~cc'.B_load /\ ~cc'.start_cal /\ Loading'
         \/ cc'.state = "COMPUTING" /\ ~cc'.B_load /\ Computing'
<1>1. GatherQuiet'
  BY DEF Loading, GatherQuiet, GatherDone, ReceiveMoves, WriteBackMoves
<1>2. ScatterAQuiet'
  BY DEF Loading, ScatterAQuiet, ScatterAMoves
<1>3. CASE sb.load_done
  <2>1. cc'.state = "COMPUTING" /\ ~cc'.B_load /\ cc'.start_cal
    BY <1>3 DEF ControlMoves, CounterRanges
  <2>2. /\ ~cc.B_load
        /\ \/ sb.state = "IDLE"
           \/ sb.state = "PREPARING" /\ ~sb.first /\ sb.in_block_cnt = 0
    BY <1>3 DEF Loading
  <2>3. /\ ~sb'.load_done /\ ~sb'.stationaryCtrl
        /\ \/ sb'.state = "IDLE"
           \/ sb'.state = "PREPARING" /\ ~sb'.first /\ sb'.in_block_cnt = 1
    BY <2>2, Sizes DEF ScatterBMoves, CounterRanges
  <2>4. Computing'
    BY <1>1, <1>2, <2>1, <2>3 DEF Computing, Starting
  <2> QED
    BY <2>1, <2>4
<1>4. CASE ~sb.load_done
  <2>1. cc'.state = "PREPARING" /\ ~cc'.B_load /\ ~cc'.start_cal
    BY <1>4 DEF ControlMoves, CounterRanges
  <2>2. \/ sb'.state \in {"PREPARING", "WAITING"} /\ ~sb'.load_done
        \/ sb'.state = "LOADING" /\ ~sb'.load_done /\ ~sb'.first
        \/ /\ sb'.load_done
           /\ \/ sb'.state = "IDLE"
              \/ sb'.state = "PREPARING" /\ ~sb'.first /\ sb'.in_block_cnt = 0
    <3>1. CASE cc.B_load
      BY <1>4, <3>1 DEF Loading, ScatterBMoves, CounterRanges
    <3>2. CASE ~cc.B_load
      BY <1>4, <3>2 DEF Loading, ScatterBMoves, CounterRanges, ScatterBCount
    <3> QED
      BY <3>1, <3>2
  <2>3. Loading'
    BY <1>1, <1>2, <2>1, <2>2 DEF Loading
  <2> QED
    BY <2>1, <2>3
<1> QED
  BY <1>3, <1>4 DEF CounterRanges

LEMMA FromStarting ==
  ASSUME CounterRanges, CounterRanges', cc.state = "COMPUTING", Starting,
         ~sb.load_done, ~sb.stationaryCtrl, ~cc.B_load,
         NEW start \in BOOLEAN, ControlMoves(start, sb.load_done, GatherDone),
         ScatterAMoves(cc.start_cal), ScatterBMoves(FALSE), ReceiveMoves(cc.start_cal),
         WriteBackMoves
  PROVE  cc'.state = "COMPUTING" /\ ~cc'.B_load /\ Computing'
<1>1. ~GatherDone
  BY DEF Starting, GatherQuiet, GatherDone
<1>2. cc'.state = "COMPUTING" /\ ~cc'.B_load /\ ~cc'.start_cal
  BY <1>1 DEF ControlMoves, CounterRanges
<1>3. /\ gr'.state = "GATHERING" /\ gr'.in_block_cnt = 0
      /\ ~gr'.recieve_done /\ ~gr'.write_back /\ gw'.bram_state = "IDLE"
  BY <1>1 DEF Starting, GatherQuiet, ReceiveMoves, WriteBackMoves
<1>4. sa'.state = "CALCULATE" /\ sa'.in_block_cnt = 0
  BY DEF Starting, ScatterAQuiet, ScatterAMoves
<1>5. /\ ~sb'.load_done /\ ~sb'.stationaryCtrl
      /\ \/ sb'.state = "IDLE"
         \/ sb'.state = "PREPARING" /\ ~sb'.first /\ sb'.in_block_cnt = 2
  BY Sizes DEF Starting, ScatterBMoves, CounterRanges
<1>6. Streaming'
  BY <1>2, <1>3, <1>4, <1>5 DEF Streaming, ScatterBWaits
<1> QED
  BY <1>2, <1>5, <1>6 DEF Computing

LEMMA FromStreaming ==
  ASSUME CounterRanges, CounterRanges', cc.state = "COMPUTING", Streaming,
         ~sb.load_done, ~sb.stationaryCtrl, ~cc.B_load,
         NEW start \in BOOLEAN, ControlMoves(start, sb.load_done, GatherDone),
         ScatterAMoves(FALSE), ScatterBMoves(FALSE), ReceiveMoves(FALSE), WriteBackMoves
  PROVE  cc'.state = "COMPUTING" /\ ~cc'.B_load /\ Computing'
<1>1. ~GatherDone
  BY DEF Streaming, GatherDone
<1>2. cc'.state = "COMPUTING" /\ ~cc'.B_load /\ ~cc'.start_cal
  BY <1>1 DEF ControlMoves, CounterRanges, Streaming
<1>3. gw'.bram_state = "IDLE"
  BY DEF Streaming, WriteBackMoves
<1>4. ~sb'.load_done /\ ~sb'.stationaryCtrl
  BY DEF Streaming, ScatterBWaits, ScatterBMoves, CounterRanges
<1>5. \/ ScatterBWaits'
      \/ /\ sb'.state = "PREPARING" /\ ~sb'.first
         /\ sb'.in_block_cnt = gr.in_block_cnt + 3 /\ gr.in_block_cnt + 3 <= N + 1
  <2>1. CASE ScatterBWaits
    BY <2>1 DEF ScatterBWaits, ScatterBMoves, CounterRanges
  <2>2. CASE sb.state = "PREPARING" /\ ~sb.first /\ sb.in_block_cnt = gr.in_block_cnt + 2
    <3>1. CASE sb.in_block_cnt < N + 1
      BY <2>2, <3>1, Sizes DEF ScatterBMoves, CounterRanges
    <3>2. CASE sb.in_block_cnt = N + 1
      BY <1>4, <2>2, <3>2 DEF ScatterBWaits, ScatterBMoves, CounterRanges
    <3> QED
      BY <3>1, <3>2, Sizes DEF CounterRanges
  <2> QED
    BY <2>1, <2>2 DEF Streaming
<1>6. CASE gr.in_block_cnt = A_SIZE_Y + 1
  <2>1. gr'.state = "WAITING" /\ gr'.in_block_cnt = 0 /\ gr'.recieve_done
    BY <1>6, Sizes DEF Streaming, ReceiveMoves
  <2>2. ScatterAQuiet
    BY <1>6, Sizes DEF Streaming, CounterRanges
  <2>3. ScatterAQuiet'
    BY <2>2 DEF ScatterAQuiet, ScatterAMoves
  <2>4. ScatterBWaits'
    BY <1>5, <1>6, Sizes
  <2>5. Gathered'
    BY <1>2, <1>3, <2>1, <2>3, <2>4 DEF Gathered
  <2> QED
    BY <1>2, <1>4, <2>5 DEF Computing
<1>7. CASE gr.in_block_cnt # A_SIZE_Y + 1
  <2>1. /\ gr'.state = "GATHERING" /\ gr'.in_block_cnt = gr.in_block_cnt + 1
        /\ ~gr'.recieve_done /\ ~gr'.write_back
    BY <1>7 DEF Streaming, ReceiveMoves
  <2>2. \/ ScatterBWaits'
        \/ sb'.state = "PREPARING" /\ ~sb'.first /\ sb'.in_block_cnt = gr'.in_block_cnt + 2
    BY <1>5, <2>1, Sizes DEF CounterRanges
  <2>3. \/ sa'.state = "CALCULATE" /\ sa'.in_block_cnt = gr'.in_block_cnt
        \/ /\ gr'.in_block_cnt = A_SIZE_Y
           /\ sa'.state \in {"IDLE", "WAITING"}
           /\ sa'.state = "WAITING" => sa'.in_block_cnt = 0
        \/ gr'.in_block_cnt = A_SIZE_Y + 1 /\ ScatterAQuiet'
    <3>1. CASE sa.state = "CALCULATE" /\ sa.in_block_cnt = gr.in_block_cnt
      BY <2>1, <3>1, Sizes DEF ScatterAMoves, CounterRanges
    <3>2. CASE /\ gr.in_block_cnt = A_SIZE_Y
               /\ sa.state \in {"IDLE", "WAITING"}
               /\ sa.state = "WAITING" => sa.in_block_cnt = 0
      BY <2>1, <3>2 DEF ScatterAMoves, ScatterAQuiet
    <3> QED
      BY <1>7, <3>1, <3>2 DEF Streaming
  <2>4. Streaming'
    BY <1>2, <1>3, <2>1, <2>2, <2>3 DEF Streaming
  <2> QED
    BY <1>2, <1>4, <2>4 DEF Computing
<1> QED
  BY <1>6, <1>7

LEMMA FromGathered ==
  ASSUME CounterRanges, CounterRanges', cc.state = "COMPUTING", Gathered,
         ~sb.load_done, ~sb.stationaryCtrl, ~cc.B_load,
         NEW start \in BOOLEAN, ControlMoves(start, sb.load_done, GatherDone),
         ScatterAMoves(FALSE), ScatterBMoves(FALSE), ReceiveMoves(FALSE), WriteBackMoves
  PROVE  \/ cc'.state = "COMPUTING" /\ ~cc'.B_load /\ Computing'
         \/ cc'.state = "PREPARING" /\ cc'.B_load /\ ~cc'.start_cal /\ Loading'
         \/ cc'.state = "IDLE" /\ ~cc'.B_load /\ ~cc'.start_cal /\ AtRest'
<1>1. ScatterAQuiet'
  BY DEF Gathered, ScatterAQuiet, ScatterAMoves
<1>2. /\ ~sb'.load_done /\ ~sb'.stationaryCtrl
      /\ \/ sb'.state = "IDLE" /\ sb'.first /\ sb'.in_block_cnt = 0
         \/ sb'.state = "WAITING" /\ ~sb'.first
  BY DEF Gathered, ScatterBWaits, ScatterBMoves
<1>3. ScatterBWaits'
  BY <1>2 DEF ScatterBWaits
<1>4. CASE GatherDone
  <2>1. GatherQuiet'
    <3>1. /\ gr'.state \in {"IDLE", "WAITING"} /\ gr'.in_block_cnt = 0
          /\ ~gr'.recieve_done /\ ~gr'.write_back
      BY <1>4 DEF Gathered, ReceiveMoves
    <3>2. gw'.bram_state = "IDLE"
      BY <1>4 DEF Gathered, GatherDone, WriteBackMoves, CounterRanges
    <3> QED
      BY <3>1, <3>2 DEF GatherQuiet
  <2>2. \/ cc'.state = "PREPARING" /\ cc'.B_load /\ ~cc'.start_cal
        \/ cc'.state = "IDLE" /\ ~cc'.B_load /\ ~cc'.start_cal
    BY <1>4 DEF ControlMoves, CounterRanges, Gathered
  <2>3. cc'.B_load => Loading'
    BY <1>1, <1>2, <2>1 DEF Loading
  <2>4. AtRest'
    BY <1>1, <1>2, <1>3, <2>1 DEF AtRest, ScatterAQuiet
  <2> QED
    BY <2>2, <2>3, <2>4
<1>5. CASE ~GatherDone
  <2>1. cc'.state = "COMPUTING" /\ ~cc'.B_load /\ ~cc'.start_cal
    BY <1>5 DEF ControlMoves, CounterRanges, Gathered
  <2>2. /\ gr'.state = "WAITING" /\ gr'.in_block_cnt = 0
        /\ ~gr'.recieve_done /\ ~gr'.write_back
    BY <1>5 DEF Gathered, ReceiveMoves
  <2>3. \/ gw'.bram_state = "WRITING"
        \/ gw'.bram_state = "CLEANING" /\ gw'.write_back_done
    BY <1>5 DEF Gathered, GatherDone, WriteBackMoves, CounterRanges
  <2>4. Gathered'
    BY <1>1, <1>3, <2>1, <2>2, <2>3 DEF Gathered
  <2> QED
    BY <1>2, <2>1, <2>4 DEF Computing
<1> QED
  BY <1>4, <1>5

LEMMA HandshakeClock ==
  ASSUME TypeOK, HandshakeInv, NEW start \in BOOLEAN, Clock(start)
  PROVE  HandshakeInv'
<1>1. /\ ControlMoves(start, sb.load_done, GatherDone)
      /\ ScatterAMoves(cc.start_cal) /\ ScatterBMoves(cc.B_load)
      /\ ReceiveMoves(cc.start_cal) /\ WriteBackMoves
      /\ TypeOK'
  BY ClockMoves
<1>2. CounterRanges /\ CounterRanges'
  <2>1. CounterRanges
    BY Ranges
  <2>2. CounterRanges'
    BY <1>1, Ranges, PTL
  <2> QED
    BY <2>1, <2>2
<1>3. ScatterBCount'
  <2>1. ScatterBCount /\ cc.B_load \in BOOLEAN
    BY <1>2 DEF HandshakeInv, ScatterBCount, CounterRanges
  <2> QED
    BY <1>1, <2>1, CountStep
<1>4. CASE cc.state = "IDLE"
  <2>1. cc.B_load = FALSE /\ cc.start_cal = FALSE /\ AtRest
    BY <1>2, <1>4 DEF HandshakeInv, CounterRanges
  <2>2. /\ ScatterAMoves(FALSE) /\ ScatterBMoves(FALSE) /\ ReceiveMoves(FALSE)
    BY <1>1, <2>1
  <2>3. \/ cc'.state = "IDLE" /\ ~cc'.B_load /\ ~cc'.start_cal /\ AtRest'
        \/ cc'.state = "PREPARING" /\ cc'.B_load /\ ~cc'.start_cal /\ Loading'
    BY <1>1, <1>2, <1>4, <2>1, <2>2, FromIdle
  <2> QED
    BY <1>3, <2>3 DEF HandshakeInv, ScatterBCount
<1>5. CASE cc.state = "PREPARING"
  <2>1. cc.start_cal = FALSE /\ Loading /\ ScatterBCount
    BY <1>2, <1>5 DEF HandshakeInv, CounterRanges, ScatterBCount
  <2>2. ScatterAMoves(FALSE) /\ ReceiveMoves(FALSE)
    BY <1>1, <2>1
  <2>3. \/ cc'.state = "PREPARING" /\ ~cc'.B_load /\ ~cc'.start_cal /\ Loading'
        \/ cc'.state = "COMPUTING" /\ ~cc'.B_load /\ Computing'
    BY <1>1, <1>2, <1>5, <2>1, <2>2, FromPreparing
  <2> QED
    BY <1>3, <2>3 DEF HandshakeInv, ScatterBCount
<1>6. CASE cc.state = "COMPUTING"
  <2>1. cc.B_load = FALSE /\ Computing
    BY <1>2, <1>6 DEF HandshakeInv, CounterRanges
  <2>2. ScatterBMoves(FALSE) /\ ~sb.load_done /\ ~sb.stationaryCtrl
    BY <1>1, <2>1 DEF Computing
  <2>3. \/ cc'.state = "COMPUTING" /\ ~cc'.B_load /\ Computing'
        \/ cc'.state = "PREPARING" /\ cc'.B_load /\ ~cc'.start_cal /\ Loading'
        \/ cc'.state = "IDLE" /\ ~cc'.B_load /\ ~cc'.start_cal /\ AtRest'
    <3>1. CASE Starting
      BY <1>1, <1>2, <1>6, <2>1, <2>2, <3>1, FromStarting
    <3>2. CASE Streaming \/ Gathered
      <4>1. cc.start_cal = FALSE
        BY <1>2, <3>2 DEF Streaming, Gathered, CounterRanges
      <4>2. ScatterAMoves(FALSE) /\ ReceiveMoves(FALSE)
        BY <1>1, <4>1
      <4> QED
        BY <1>1, <1>2, <1>6, <2>1, <2>2, <3>2, <4>2, FromStreaming, FromGathered
    <3> QED
      BY <2>1, <3>1, <3>2 DEF Computing
  <2> QED
    BY <1>3, <2>3 DEF HandshakeInv, ScatterBCount
<1> QED
  BY <1>2, <1>4, <1>5, <1>6 DEF CounterRanges

(***************************************************************************)
(* A reset in any state of a run that did not leave a residue brings all   *)
(* the units to rest.                                                      *)
(***************************************************************************)
LEMMA HandshakeReset ==
  ASSUME TypeOK, HandshakeInv, Reset
  PROVE  residue' # {} \/ HandshakeInv'
<1> SUFFICES ASSUME residue' = {} PROVE HandshakeInv'
  OBVIOUS
<1>1. ~gr.write_back
  BY DEF Reset
<1>2. cc'.state = "IDLE" /\ ~cc'.B_load /\ ~cc'.start_cal
  BY DEF Reset, ControlReset
<1>3. /\ sa'.state = "IDLE" /\ sa'.output_enable = sa.output_enable
  BY DEF Reset, ScatterAReset, TypeOK, ScatterAType
<1>4. /\ sb'.state = "IDLE" /\ sb'.stationaryCtrl = sb.stationaryCtrl
  BY DEF Reset, ScatterBReset, TypeOK, ScatterBType
<1>5. GatherQuiet'
  BY <1>1 DEF Reset, GatherReset, GatherQuiet, TypeOK, ReceiveType
<1>6. sa.output_enable => ~sb.stationaryCtrl
  BY DEF HandshakeInv, AtRest, Loading, Computing, ScatterAQuiet, TypeOK, ControlType
<1>7. AtRest'
  BY <1>3, <1>4, <1>5, <1>6 DEF AtRest, ScatterBWaits
<1> QED
  BY <1>2, <1>4, <1>7 DEF HandshakeInv

LEMMA HandshakeInit == Init => HandshakeInv
BY DEF Init, ControlInit, ScatterAInit, ScatterBInit, GatherInit, HandshakeInv, AtRest,
       GatherQuiet, ScatterBWaits

LEMMA HandshakeFrame ==
  ASSUME HandshakeInv, UNCHANGED coreVars
  PROVE  HandshakeInv'
BY DEF coreVars, HandshakeInv, AtRest, Loading, Computing, Starting, Streaming, Gathered,
       GatherQuiet, ScatterAQuiet, ScatterBWaits

LEMMA AccelStep == AccelInv /\ [Next]_mmVars => AccelInv'
<1> SUFFICES ASSUME AccelInv, [Next]_mmVars PROVE AccelInv'
  OBVIOUS
<1>1. TypeOK'
  BY TypeStep DEF AccelInv
<1>2. residue' # {} \/ HandshakeInv'
  <2>1. CASE residue # {}
    <3>1. residue' # {}
      BY <2>1 DEF Next, Clock, Reset, Store, mmVars
    <3> QED
      BY <3>1
  <2>2. CASE HandshakeInv
    <3>1. ASSUME NEW start \in BOOLEAN, Clock(start) PROVE HandshakeInv'
      BY <2>2, <3>1, HandshakeClock DEF AccelInv
    <3>2. CASE Store
      BY <2>2, <3>2, HandshakeFrame DEF Store
    <3>3. CASE UNCHANGED mmVars
      BY <2>2, <3>3, HandshakeFrame DEF mmVars
    <3> QED
      BY <2>2, <3>1, <3>2, <3>3, HandshakeReset DEF Next, AccelInv
  <2> QED
    BY <2>1, <2>2 DEF AccelInv
<1> QED
  BY <1>1, <1>2 DEF AccelInv

THEOREM AccelInvariant == Spec => []AccelInv
<1>1. Init => AccelInv
  BY TypeInit, HandshakeInit DEF AccelInv
<1> QED
  BY <1>1, AccelStep, PTL DEF Spec
-----------------------------------------------------------------------------
(***************************************************************************)
(* Whatever the tile side, the sizes and the data, and however often the   *)
(* accelerator is started or reset, every register keeps its type: no      *)
(* counter of the units leaves its range or wraps.                         *)
(***************************************************************************)
THEOREM TypeCorrect == Spec => []TypeOK
<1>1. AccelInv => TypeOK
  BY DEF AccelInv
<1> QED
  BY <1>1, AccelInvariant, PTL

(***************************************************************************)
(* The load pulse of compute_control finds scatter_b ready, for all sizes: *)
(* fetching a tile takes N + 2 clocks, streaming A at least A_SIZE_Y + 2,  *)
(* and N divides A_SIZE_Y.                                                 *)
(***************************************************************************)
THEOREM LoadPulseIsSeen == Spec => [](residue # {} \/ LoadPulseSeen)
<1>1. AccelInv => residue # {} \/ LoadPulseSeen
  BY DEF AccelInv, HandshakeInv, Loading, LoadPulseSeen
<1> QED
  BY <1>1, AccelInvariant, PTL

(***************************************************************************)
(* While scatter_a drives rows of A the tile in the processing elements    *)
(* does not move, for all sizes.                                           *)
(***************************************************************************)
THEOREM TileIsStationary == Spec => [](residue # {} \/ TileStationary)
<1>1. AccelInv => residue # {} \/ TileStationary
  BY DEF AccelInv, HandshakeInv, AtRest, Loading, Computing, ScatterAQuiet,
         TileStationary, TypeOK, ControlType
<1> QED
  BY <1>1, AccelInvariant, PTL
-----------------------------------------------------------------------------
(***************************************************************************)
(* Sums of terms: the accelerator adds up blocks of N products, the        *)
(* reference all products of a row and a column.                           *)
(***************************************************************************)
\* AddUp(n, f) is the last element of a chain of sums.
IsChain(g, n, f) == g = [k \in 0 .. n |-> IF k = 0 THEN Zero ELSE Add(g[k - 1], f[k - 1])]

LEMMA AddUpIsChain ==
  ASSUME NEW n, NEW f
  PROVE  AddUp(n, f) = (CHOOSE g : IsChain(g, n, f))[n]
BY DEF AddUp, IsChain

\* There is such a chain for every number of terms.
LEMMA ChainExists ==
  ASSUME NEW f
  PROVE  \A n \in Nat : \E g : IsChain(g, n, f)
<1> DEFINE P == {n \in Nat : \E g : IsChain(g, n, f)}
<1>1. 0 \in P
  <2>1. IsChain([k \in 0 .. 0 |-> Zero], 0, f)
    BY DEF IsChain
  <2> QED
    BY <2>1
<1>2. ASSUME NEW n \in P
      PROVE  n + 1 \in P
  <2>1. n \in Nat /\ \E g : IsChain(g, n, f)
    OBVIOUS
  <2>2. PICK g : IsChain(g, n, f)
    BY <2>1, Zenon
  <2> DEFINE h == [k \in 0 .. n + 1 |-> IF k = n + 1 THEN Add(g[n], f[n]) ELSE g[k]]
             e == [k \in 0 .. n + 1 |-> IF k = 0 THEN Zero ELSE Add(h[k - 1], f[k - 1])]
  <2>3. ASSUME NEW k \in 0 .. n + 1
        PROVE  h[k] = e[k]
    <3>1. CASE k = n + 1
      <4>1. n \in 0 .. n + 1 /\ k # 0 /\ k - 1 = n /\ n # n + 1
        BY <2>1, <3>1
      <4> QED
        BY <3>1, <4>1
    <3>2. CASE k # n + 1
      <4>1. k \in 0 .. n /\ (k # 0 => k - 1 \in 0 .. n + 1 /\ k - 1 # n + 1)
        BY <2>1, <3>2
      <4>2. g[k] = IF k = 0 THEN Zero ELSE Add(g[k - 1], f[k - 1])
        BY <2>2, <4>1 DEF IsChain
      <4> QED
        BY <3>2, <4>1, <4>2
    <3> QED
      BY <3>1, <3>2
  <2>4. h = e
    BY <2>3
  <2>5. IsChain(h, n + 1, f)
    BY <2>4 DEF IsChain
  <2> QED
    BY <2>1, <2>5
<1>3. P = Nat
  <2>1. P \in SUBSET Nat
    OBVIOUS
  <2> HIDE DEF P
  <2> QED
    BY <1>1, <1>2, <2>1, SetInduction
<1> QED
  BY <1>3, Zenon

\* Two chains of the same terms agree as far as both go.
LEMMA ChainsAgree ==
  ASSUME NEW f, NEW g, NEW h, NEW n \in Nat, NEW m \in Nat, n <= m,
         IsChain(g, n, f), IsChain(h, m, f)
  PROVE  \A k \in 0 .. n : g[k] = h[k]
<1> DEFINE P == {k \in Nat : k <= n => g[k] = h[k]}
<1>1. 0 \in P
  <2>1. 0 \in 0 .. n /\ 0 \in 0 .. m
    OBVIOUS
  <2> QED
    BY <2>1 DEF IsChain
<1>2. ASSUME NEW k \in P
      PROVE  k + 1 \in P
  <2>1. SUFFICES ASSUME k + 1 <= n
                 PROVE  g[k + 1] = h[k + 1]
    OBVIOUS
  <2>2. k \in Nat /\ k + 1 \in 0 .. n /\ k + 1 \in 0 .. m /\ k + 1 # 0 /\ k + 1 - 1 = k /\ k <= n
    BY <2>1
  <2>3. g[k] = h[k]
    BY <2>2
  <2>4. g[k + 1] = Add(g[k], f[k]) /\ h[k + 1] = Add(h[k], f[k])
    BY <2>2 DEF IsChain
  <2> QED
    BY <2>3, <2>4
<1>3. P = Nat
  <2>1. P \in SUBSET Nat
    OBVIOUS
  <2> HIDE DEF P
  <2> QED
    BY <1>1, <1>2, <2>1, SetInduction
<1> QED
  <2>1. ASSUME NEW k \in 0 .. n PROVE g[k] = h[k]
    <3>1. k \in P /\ k <= n
      BY <1>3
    <3> QED
      BY <3>1
  <2> QED
    BY <2>1

\* What AddUp computes, one term at a time.
LEMMA AddUpSteps ==
  ASSUME NEW f
  PROVE  /\ AddUp(0, f) = Zero
         /\ \A n \in Nat : AddUp(n + 1, f) = Add(AddUp(n, f), f[n])
<1> DEFINE Ch(n) == CHOOSE g : IsChain(g, n, f)
<1>1. ASSUME NEW n \in Nat
      PROVE  IsChain(Ch(n), n, f) /\ AddUp(n, f) = Ch(n)[n]
  <2>1. \E g : IsChain(g, n, f)
    BY ChainExists
  <2> QED
    BY <2>1, AddUpIsChain, Zenon
<1> HIDE DEF Ch
<1>2. AddUp(0, f) = Zero
  <2>1. 0 \in Nat /\ 0 \in 0 .. 0
    OBVIOUS
  <2>2. IsChain(Ch(0), 0, f) /\ AddUp(0, f) = Ch(0)[0]
    BY <1>1, <2>1, Zenon
  <2> QED
    BY <2>1, <2>2 DEF IsChain
<1>3. ASSUME NEW n \in Nat
      PROVE  AddUp(n + 1, f) = Add(AddUp(n, f), f[n])
  <2>1. /\ n + 1 \in Nat /\ n <= n + 1 /\ n \in 0 .. n /\ n + 1 \in 0 .. n + 1
        /\ n + 1 # 0 /\ n + 1 - 1 = n
    OBVIOUS
  <2>2. /\ IsChain(Ch(n), n, f) /\ AddUp(n, f) = Ch(n)[n]
        /\ IsChain(Ch(n + 1), n + 1, f) /\ AddUp(n + 1, f) = Ch(n + 1)[n + 1]
    BY <1>1, <2>1, Zenon
  <2>3. Ch(n)[n] = Ch(n + 1)[n]
    BY <2>1, <2>2, ChainsAgree
  <2>4. Ch(n + 1)[n + 1] = Add(Ch(n + 1)[n], f[n])
    BY <2>1, <2>2 DEF IsChain
  <2> QED
    BY <2>2, <2>3, <2>4
<1> QED
  BY <1>2, <1>3

(***************************************************************************)
(* What the proofs need of the data: addition of the values in V is        *)
(* associative, a cleared register adds nothing, and products of stored    *)
(* elements are values. That addition is the same in any order is not      *)
(* needed. The adders of the array and of gather_c meet this               *)
(* (AdderIsArithmetic).                                                    *)
(***************************************************************************)
Arithmetic(V) ==
  /\ Zero \in V
  /\ \A a, b \in V : Add(a, b) \in V
  /\ \A a, b, c \in V : Add(Add(a, b), c) = Add(a, Add(b, c))
  /\ \A a \in V : Add(a, Zero) = a
  /\ \A g, x, y \in Nat : Mul(BData(g, x), AData(g, y)) \in V

\* Sums of values are values.
LEMMA AddUpInV ==
  ASSUME NEW V, Arithmetic(V), NEW f, NEW m \in Nat, \A k \in 0 .. m - 1 : f[k] \in V
  PROVE  \A n \in 0 .. m : AddUp(n, f) \in V
<1> DEFINE P == {n \in Nat : n <= m => AddUp(n, f) \in V}
<1>1. 0 \in P
  BY AddUpSteps DEF Arithmetic
<1>2. ASSUME NEW n \in P
      PROVE  n + 1 \in P
  <2>1. SUFFICES ASSUME n + 1 <= m
                 PROVE  AddUp(n + 1, f) \in V
    OBVIOUS
  <2>2. n \in Nat /\ n \in 0 .. m - 1 /\ n <= m
    BY <2>1
  <2>3. AddUp(n, f) \in V /\ f[n] \in V
    BY <2>2
  <2>4. AddUp(n + 1, f) = Add(AddUp(n, f), f[n])
    BY <2>2, AddUpSteps
  <2>5. \A u, v \in V : Add(u, v) \in V
    BY Zenon DEF Arithmetic
  <2> QED
    BY <2>3, <2>4, <2>5, Zenon
<1>3. P = Nat
  <2>1. P \in SUBSET Nat
    OBVIOUS
  <2> HIDE DEF P
  <2> QED
    BY <1>1, <1>2, <2>1, SetInduction
<1>4. ASSUME NEW n \in 0 .. m PROVE AddUp(n, f) \in V
  <2>1. n \in P /\ n <= m
    BY <1>3
  <2> QED
    BY <2>1
<1> QED
  BY <1>4

\* e has m terms of f, from term a on.
PartOf(e, f, a, m, V) ==
  /\ \A k \in 0 .. a + m - 1 : f[k] \in V
  /\ \A k \in 0 .. m - 1 : e[k] = f[a + k]

\* The sum of these terms, added to the sum of the terms before them.
LEMMA AddUpBlock ==
  ASSUME NEW V, Arithmetic(V), NEW f, NEW e, NEW a \in Nat, NEW m \in Nat,
         PartOf(e, f, a, m, V)
  PROVE  Add(AddUp(a, f), AddUp(m, e)) = AddUp(a + m, f)
<1>0. /\ \A k \in 0 .. a + m - 1 : f[k] \in V
      /\ \A k \in 0 .. m - 1 : e[k] = f[a + k]
  BY DEF PartOf
<1> DEFINE P == {n \in Nat : n <= m => Add(AddUp(a, f), AddUp(n, e)) = AddUp(a + n, f)}
<1>1. AddUp(a, f) \in V
  <2>1. PICK w \in Nat : w = a + m
    OBVIOUS
  <2>2. \A k \in 0 .. w - 1 : f[k] \in V
    BY <1>0, <2>1
  <2>3. a \in 0 .. w
    BY <2>1
  <2> QED
    BY <2>2, <2>3, AddUpInV
<1>2. ASSUME NEW n \in 0 .. m PROVE AddUp(n, e) \in V
  <2>1. \A k \in 0 .. m - 1 : e[k] \in V
    <3>1. ASSUME NEW k \in 0 .. m - 1 PROVE e[k] \in V
      <4>1. a + k \in 0 .. a + m - 1
        OBVIOUS
      <4> QED
        BY <1>0, <4>1
    <3> QED
      BY <3>1
  <2> QED
    BY <2>1, AddUpInV
<1>3. 0 \in P
  <2>1. Add(AddUp(a, f), Zero) = AddUp(a, f)
    BY <1>1 DEF Arithmetic
  <2>2. AddUp(0, e) = Zero /\ a + 0 = a
    BY AddUpSteps
  <2> QED
    BY <2>1, <2>2
<1>4. ASSUME NEW n \in P
      PROVE  n + 1 \in P
  <2>1. SUFFICES ASSUME n + 1 <= m
                 PROVE  Add(AddUp(a, f), AddUp(n + 1, e)) = AddUp(a + (n + 1), f)
    OBVIOUS
  <2>2. /\ n \in Nat /\ n \in 0 .. m - 1 /\ n \in 0 .. m /\ n <= m
        /\ a + n \in 0 .. a + m - 1 /\ a + n \in Nat /\ a + (n + 1) = (a + n) + 1
    BY <2>1
  <2>3. Add(AddUp(a, f), AddUp(n, e)) = AddUp(a + n, f)
    BY <2>2
  <2>4. AddUp(n + 1, e) = Add(AddUp(n, e), e[n])
    BY <2>2, AddUpSteps
  <2>5. AddUp(a + (n + 1), f) = Add(AddUp(a + n, f), f[a + n])
    BY <2>2, AddUpSteps
  <2>6. e[n] = f[a + n] /\ f[a + n] \in V /\ AddUp(n, e) \in V
    BY <1>0, <2>2, <1>2
  <2>7. Add(Add(AddUp(a, f), AddUp(n, e)), f[a + n]) = Add(AddUp(a, f), Add(AddUp(n, e), f[a + n]))
    BY <1>1, <2>6, ZenonT(60) DEF Arithmetic
  <2> QED
    BY <2>3, <2>4, <2>5, <2>6, <2>7, Zenon
<1>5. P = Nat
  <2>1. P \in SUBSET Nat
    OBVIOUS
  <2> HIDE DEF P
  <2> QED
    BY <1>3, <1>4, <2>1, SetInduction
<1> QED
  <2>1. m \in P /\ m <= m
    BY <1>5
  <2> QED
    BY <2>1

-----------------------------------------------------------------------------
\* A number written as q * d + e with a remainder e.
LEMMA DivUnique ==
  ASSUME NEW d \in Nat \ {0}, NEW q \in Nat, NEW e \in 0 .. d - 1, NEW x, x = q * d + e
  PROVE  x \in Nat /\ x \div d = q /\ x % d = e
<1>1. q * d \in Nat /\ x \in Nat
  OBVIOUS
<1>2. PICK p \in Nat : p = x \div d
  BY <1>1
<1>3. PICK f \in 0 .. d - 1 : f = x % d
  BY <1>1
<1>4. x = d * p + f
  BY <1>1, <1>2, <1>3
<1>5. ASSUME NEW u \in Nat, NEW v \in Nat, u < v
      PROVE  u * d + d <= v * d
  <2>1. PICK w \in Nat : v = u + 1 + w
    <3>1. v - u - 1 \in Nat /\ v = u + 1 + (v - u - 1)
      BY <1>5
    <3> QED
      BY <3>1
  <2>2. v * d = u * d + d + w * d /\ w * d \in Nat /\ u * d \in Nat
    BY <2>1
  <2> QED
    BY <2>2
<1>6. d * p = p * d /\ p * d \in Nat
  OBVIOUS
<1>7. ~(p < q)
  BY <1>1, <1>3, <1>4, <1>5, <1>6
<1>8. ~(q < p)
  BY <1>1, <1>3, <1>4, <1>5, <1>6
<1>9. p = q
  BY <1>7, <1>8
<1> QED
  BY <1>1, <1>2, <1>3, <1>4, <1>6, <1>9

\* The adders of 2W bits, whatever the multiplier puts out: M is 2^(2W).
LEMMA AdderIsArithmetic ==
  ASSUME NEW M \in Nat \ {0}, Zero = 0, \A a, b \in 0 .. M - 1 : Add(a, b) = (a + b) % M,
         \A g, x, y \in Nat : Mul(BData(g, x), AData(g, y)) \in 0 .. M - 1
  PROVE  Arithmetic(0 .. M - 1)
<1> DEFINE V == 0 .. M - 1
<1>1. ASSUME NEW a \in V, NEW b \in V
      PROVE  Add(a, b) = (IF a + b < M THEN a + b ELSE a + b - M) /\ Add(a, b) \in V
  <2>0. Add(a, b) = (a + b) % M
    OBVIOUS
  <2>1. CASE a + b < M
    <3>1. PICK s \in V : s = a + b
      BY <2>1
    <3>2. s = 0 * M + s
      BY <3>1
    <3>3. s % M = s
      BY <3>2, DivUnique
    <3> QED
      BY <2>0, <2>1, <3>1, <3>3
  <2>2. CASE ~(a + b < M)
    <3>1. PICK s \in V : s = a + b - M
      BY <2>2
    <3>2. PICK t \in Nat : t = a + b
      OBVIOUS
    <3>3. t = 1 * M + s
      BY <3>1, <3>2
    <3>4. t % M = s
      BY <3>3, DivUnique
    <3> QED
      BY <2>0, <2>2, <3>1, <3>2, <3>4
  <2> QED
    BY <2>1, <2>2
<1>2. ASSUME NEW a \in V, NEW b \in V, NEW c \in V
      PROVE  Add(Add(a, b), c) = Add(a, Add(b, c))
  <2>1. PICK u \in V : u = Add(a, b)
    BY <1>1
  <2>2. PICK v \in V : v = Add(b, c)
    BY <1>1
  <2>3. /\ u = IF a + b < M THEN a + b ELSE a + b - M
        /\ v = IF b + c < M THEN b + c ELSE b + c - M
    BY <1>1, <2>1, <2>2
  <2>4. PICK p \in V : p = Add(u, c)
    BY <1>1
  <2>5. PICK q \in V : q = Add(a, v)
    BY <1>1
  <2>6. /\ p = IF u + c < M THEN u + c ELSE u + c - M
        /\ q = IF a + v < M THEN a + v ELSE a + v - M
    BY <1>1, <2>4, <2>5
  <2>7. p = q
    BY <2>3, <2>6
  <2> QED
    BY <2>1, <2>2, <2>4, <2>5, <2>7
<1>3. Zero \in V /\ \A a \in V : Add(a, Zero) = a
  BY <1>1
<1> QED
  BY <1>1, <1>2, <1>3 DEF Arithmetic
-----------------------------------------------------------------------------
(***************************************************************************)
(* The data path, for square matrices: then all units count the same       *)
(* tiles. For others the code is wrong: scatter_b steps by A_SIZE_X        *)
(* through B, stored with B_SIZE_X elements in a row, and gather_c clears  *)
(* A_SIZE_X of the A_SIZE_Y rows of its buffer.                            *)
(***************************************************************************)
Square == A_SIZE_Y = A_SIZE_X /\ B_SIZE_X = A_SIZE_X

Tiles == A_SIZE_X \div N

\* The tile after tile (r, c): down the column, then the next column.
RowAfter(r) == IF r = Tiles - 1 THEN 0 ELSE r + 1
ColAfter(r, c) == IF r = Tiles - 1 THEN (IF c = Tiles - 1 THEN 0 ELSE c + 1) ELSE c

\* The tile scatter_b fetches, holds or loads: the tile of the sequencer
\* until that one is loaded, then the tile after it.
Ahead == cc.state = "COMPUTING" \/ sb.load_done
FetchRow == IF Ahead THEN RowAfter(cc.row_cnt) ELSE cc.row_cnt
FetchCol == IF Ahead THEN ColAfter(cc.row_cnt, cc.col_cnt) ELSE cc.col_cnt

IsLast(r, c) == r = Tiles - 1 /\ c = Tiles - 1

\* Where the counters of the other units are, seen from the sequencer.
GatherCounts ==
  /\ gr.row_cnt = cc.row_cnt /\ gr.col_cnt = cc.col_cnt
  /\ cc.state = "IDLE" => gr.state = "IDLE"
  /\ gr.state = "IDLE" => cc.row_cnt = 0 /\ cc.col_cnt = 0
  /\ gw.bram_state # "WRITING" => gw.write_back_cnt = 0
  /\ cc.state = "COMPUTING" /\ gr.state = "WAITING" /\ ~cc.start_cal =>
       IF gr.recieve_done THEN (gr.write_back <=> cc.row_cnt = Tiles - 1)
                          ELSE cc.row_cnt = Tiles - 1

\* Scatter_a goes on to the next block of columns of A when it has streamed one.
ScatterACounts ==
  /\ sa.col_cnt = IF cc.state = "COMPUTING" /\ ~cc.start_cal /\ sa.state # "CALCULATE"
                  THEN RowAfter(cc.row_cnt) ELSE cc.row_cnt
  /\ cc.state = "COMPUTING" /\ gr.state = "GATHERING" /\ gr.in_block_cnt \in 1 .. A_SIZE_Y =>
       sa.output_enable

\* Scatter_b fetches ahead, and stops after the last tile.
ScatterBCounts ==
  /\ cc.state = "IDLE" => sb.state = "IDLE"
  /\ sb.state # "LOADING" => sb.load_cnt = 0
  /\ sb.state = "LOADING" \/ (cc.state = "PREPARING" /\ sb.load_done) => sb.stationaryCtrl
  /\ sb.state = "PREPARING" => sb.row_cnt = FetchRow /\ sb.col_cnt = FetchCol
  /\ sb.state \in {"WAITING", "LOADING"} =>
       /\ sb.row_cnt = RowAfter(FetchRow)
       /\ sb.col_cnt = ColAfter(FetchRow, FetchCol)
  /\ (sb.Final <=> sb.state \in {"WAITING", "LOADING"} /\ IsLast(FetchRow, FetchCol))
  /\ cc.state # "IDLE" /\ Ahead => (sb.state = "IDLE" <=> IsLast(cc.row_cnt, cc.col_cnt))
  /\ cc.state = "PREPARING" /\ ~sb.load_done /\ sb.state = "IDLE" =>
       cc.row_cnt = 0 /\ cc.col_cnt = 0 /\ sb.row_cnt = 0 /\ sb.col_cnt = 0

\* The elements of the matrices by tile.
BElem(g, r, c, i, j) == BData(g, (r * N + i) * A_SIZE_X + (c * N + j))
BRow(r, c, i) == [j \in Lane |-> BElem(gen, r, c, i, j)]
BCol(r, c, j) == [i \in Lane |-> BElem(gen, r, c, i, j)]
ARow(y, r)    == [j \in Lane |-> AData(gen, y * A_SIZE_X + (r * N + j))]

RamsHold == ramA = MatrixA(gen) /\ ramB = MatrixB(gen)

\* The row of A that gather_c counts is on the inputs of the array.
RowOnInputs ==
  cc.state = "COMPUTING" /\ gr.state = "GATHERING" /\ gr.in_block_cnt \in 1 .. A_SIZE_Y =>
    rdA = ARow(gr.in_block_cnt - 1, cc.row_cnt)

\* The rows of the tile fetched so far are in the buffer, the last on rdB.
BufferFilled ==
  /\ DOMAIN sb.buffer_B = Lane
  /\ sb.state = "PREPARING" =>
       /\ \A i \in Lane : i < sb.in_block_cnt - 1 =>
            sb.buffer_B[i] = BRow(FetchRow, FetchCol, i)
       /\ sb.in_block_cnt - 1 \in Lane =>
            rdB = BRow(FetchRow, FetchCol, sb.in_block_cnt - 1)
  /\ sb.state \in {"WAITING", "LOADING"} =>
       \A i \in Lane : sb.buffer_B[i] = BRow(FetchRow, FetchCol, i)

\* After n columns of tile (r, c) left the buffer, the last is on b_ins and
\* the earlier ones are in the rows of the array.
Shifted(r, c, n) ==
  /\ n > 0 => sb.b_ins = BCol(r, c, n - 1)
  /\ \A m \in Lane : m < n - 1 => pe[m] = BCol(r, c, n - 2 - m)

\* The tile of the sequencer is shifted into the array, last column first.
ArrayLoaded ==
  /\ sb.state = "LOADING" => Shifted(cc.row_cnt, cc.col_cnt, sb.load_cnt)
  /\ cc.state = "PREPARING" /\ sb.load_done => Shifted(cc.row_cnt, cc.col_cnt, N)
  /\ cc.state = "COMPUTING" =>
       \A m \in Lane : pe[m] = BCol(cc.row_cnt, cc.col_cnt, N - 1 - m)

\* How many of the products of an element of row y are in the buffer.
Summed(y) ==
  CASE cc.state = "COMPUTING" /\ gr.state = "GATHERING" ->
         IF y < gr.in_block_cnt - 1 THEN (cc.row_cnt + 1) * N ELSE cc.row_cnt * N
    [] cc.state = "COMPUTING" /\ gr.state = "WAITING" /\ ~cc.start_cal ->
         (cc.row_cnt + 1) * N
    [] OTHER -> cc.row_cnt * N

\* The buffer holds the partial sums of the column of tiles under way.
Sums ==
  /\ DOMAIN cbuf = BufferRow
  /\ \A y \in BufferRow :
       cbuf[y] = [j \in Lane |->
                    AddUp(Summed(y), Terms(gen, y, cc.col_cnt * N + (N - 1 - j)))]

\* What is written of C: the columns of the tiles before the one under way,
\* and the rows that are written back.
Written(y, c) ==
  \/ cc.state # "IDLE" /\ c < cc.col_cnt
  \/ /\ cc.state = "COMPUTING" /\ c = cc.col_cnt
     /\ \/ gw.bram_state = "WRITING" /\ y < gw.write_back_cnt
        \/ gw.bram_state = "CLEANING"

\* What element x of C is to be.
Wanted(g, x) == ProductAt(g, x \div B_SIZE_X, MirrorColumn(x % B_SIZE_X))
Cells == 0 .. A_SIZE_Y * B_SIZE_X - 1

\* The columns written back are those of the product, all of them at Finish.
Columns ==
  /\ ramC = [x \in Cells |-> ramC[x]]
  /\ \A x \in Cells :
       Written(x \div A_SIZE_X, (x % A_SIZE_X) \div N) => ramC[x] = Wanted(gen, x)
  /\ cc.Finish => \A x \in Cells : ramC[x] = Wanted(gen, x)

\* The inductive invariant; after a reset that left a residue nothing is claimed.
CountInv == GatherCounts /\ ScatterACounts /\ ScatterBCounts
DataInv == CountInv /\ RamsHold /\ RowOnInputs /\ BufferFilled /\ ArrayLoaded /\ Sums /\ Columns
CleanDataInv == residue # {} \/ DataInv
-----------------------------------------------------------------------------
\* Under Square every unit counts Tiles tiles in a row and in a column.
LEMMA SquareSizes ==
  ASSUME Square
  PROVE  /\ N \in Nat \ {0} /\ Tiles \in Nat \ {0} /\ A_SIZE_X \in Nat \ {0}
         /\ A_SIZE_X = Tiles * N /\ N <= A_SIZE_X /\ 1 < A_SIZE_X
         /\ A_SIZE_Y = A_SIZE_X /\ B_SIZE_X = A_SIZE_X /\ B_SIZE_Y = A_SIZE_X
         /\ Control_ROW_CNT = Tiles /\ Control_COL_CNT = Tiles /\ A_COL_CNT = Tiles
         /\ B_ROW_CNT = Tiles /\ B_COL_CNT = Tiles /\ C_ROW_CNT = Tiles /\ C_COL_CNT = Tiles
<1>1. /\ N \in Nat \ {0} /\ A_SIZE_X \in Nat \ {0} /\ A_SIZE_X % N = 0
      /\ A_SIZE_Y = A_SIZE_X /\ B_SIZE_X = A_SIZE_X /\ B_SIZE_Y = A_SIZE_X
  BY SizeAssumption DEF Square
<1>2. /\ Tiles \in Nat \ {0} /\ A_SIZE_X = Tiles * N /\ N <= A_SIZE_X
  <2>1. Tiles \in Nat /\ A_SIZE_X = N * Tiles
    BY <1>1 DEF Tiles
  <2>2. N * Tiles = Tiles * N /\ Tiles # 0
    BY <1>1, <2>1
  <2>3. N <= A_SIZE_X
    BY <1>1, Sizes
  <2> QED
    BY <2>1, <2>2, <2>3
<1>3. N # 1
  <2> SUFFICES ASSUME N = 1
               PROVE  FALSE
    OBVIOUS
  <2>1. 2^N = 2
    OBVIOUS
  <2> QED
    BY <2>1, WidthAssumption
<1> QED
  BY <1>1, <1>2, <1>3 DEF Tiles, Control_ROW_CNT, Control_COL_CNT, A_COL_CNT, B_ROW_CNT,
                          B_COL_CNT, C_ROW_CNT, C_COL_CNT

\* One clock of each unit, by its counters.
ControlCounts(gd) ==
  /\ cc.state = "COMPUTING" /\ gd =>
       /\ cc'.row_cnt = RowAfter(cc.row_cnt) /\ cc'.col_cnt = ColAfter(cc.row_cnt, cc.col_cnt)
       /\ IF IsLast(cc.row_cnt, cc.col_cnt) THEN cc'.state = "IDLE"
                                            ELSE cc'.state = "PREPARING" /\ ~cc'.Finish
  /\ ~(cc.state = "COMPUTING" /\ gd) =>
       /\ cc'.row_cnt = cc.row_cnt /\ cc'.col_cnt = cc.col_cnt
       /\ cc'.Finish => cc.Finish /\ cc.state # "COMPUTING"

LEMMA ControlCounter ==
  ASSUME Square, cc \in ControlType, NEW start \in BOOLEAN, NEW ld \in BOOLEAN,
         NEW gd \in BOOLEAN, ControlPosedge(start, ld, gd)
  PROVE  ControlCounts(gd)
<1> USE SquareSizes DEF ControlType, ControlCounts
<1>1. CASE Control_Idle(start)
  BY <1>1 DEF Control_Idle
<1>2. CASE Control_Start(start)
  BY <1>2 DEF Control_Start
<1>3. CASE Control_Prepare(ld)
  BY <1>3 DEF Control_Prepare
<1>4. CASE Control_Compute(gd)
  BY <1>4 DEF Control_Compute
<1>5. CASE Control_NextTile(gd)
  BY <1>5 DEF Control_NextTile, RowAfter, ColAfter, IsLast
<1>6. CASE Control_LastTile(gd)
  BY <1>6 DEF Control_LastTile, RowAfter, ColAfter, IsLast
<1> QED
  BY <1>1, <1>2, <1>3, <1>4, <1>5, <1>6 DEF ControlPosedge

ScatterACounter ==
  /\ sa.state # "CALCULATE" => sa'.col_cnt = sa.col_cnt
  /\ sa.state = "CALCULATE" /\ sa.in_block_cnt # A_SIZE_Y - 1 =>
       sa'.col_cnt = sa.col_cnt /\ sa'.output_enable /\ sa'.state = "CALCULATE"
  /\ sa.state = "CALCULATE" /\ sa.in_block_cnt = A_SIZE_Y - 1 =>
       /\ sa'.col_cnt = RowAfter(sa.col_cnt) /\ sa'.output_enable = sa.output_enable
       /\ sa'.state # "CALCULATE"

LEMMA ScatterACountsOn ==
  ASSUME Square, sa \in ScatterAType, NEW start_cal \in BOOLEAN, ScatterAPosedge(start_cal)
  PROVE  ScatterACounter
<1> USE SquareSizes DEF ScatterAType, ScatterACounter
<1>1. CASE A_Idle(start_cal)
  BY <1>1 DEF A_Idle
<1>2. CASE A_Start(start_cal)
  BY <1>2 DEF A_Start
<1>3. CASE A_NextRow
  BY <1>3 DEF A_NextRow
<1>4. CASE A_BlockDone
  BY <1>4, ZenonT(60) DEF A_BlockDone, RowAfter
<1>5. CASE A_Wait(start_cal)
  BY <1>5 DEF A_Wait
<1> QED
  BY <1>1, <1>2, <1>3, <1>4, <1>5 DEF ScatterAPosedge

ReceiveCounts ==
  /\ gr.state = "WAITING" /\ GatherDone =>
       /\ gr'.row_cnt = RowAfter(gr.row_cnt) /\ gr'.col_cnt = ColAfter(gr.row_cnt, gr.col_cnt)
       /\ gr'.state = IF IsLast(gr.row_cnt, gr.col_cnt) THEN "IDLE" ELSE "WAITING"
  /\ ~(gr.state = "WAITING" /\ GatherDone) =>
       gr'.row_cnt = gr.row_cnt /\ gr'.col_cnt = gr.col_cnt
  /\ gr.state = "GATHERING" /\ gr.in_block_cnt = A_SIZE_Y + 1 =>
       gr'.write_back <=> (gr.row_cnt = Tiles - 1 \/ gr.write_back)

WriteBackCounts ==
  /\ gw.bram_state = "IDLE" =>
       gw'.write_back_cnt = IF gr.write_back THEN gw.write_back_cnt ELSE 0
  /\ gw.bram_state = "WRITING" =>
       IF gw.write_back_cnt = A_SIZE_Y - 1
       THEN gw'.bram_state = "CLEANING" /\ gw'.write_back_cnt = 0
       ELSE gw'.bram_state = "WRITING" /\ gw'.write_back_cnt = gw.write_back_cnt + 1
  /\ gw.bram_state = "CLEANING" => gw'.write_back_cnt = gw.write_back_cnt

LEMMA GatherCounter ==
  ASSUME Square, gr \in ReceiveType, gw \in WriteBackType, NEW start_cal \in BOOLEAN,
         NEW c_outs, GatherPosedge(start_cal, c_outs)
  PROVE  ReceiveCounts /\ WriteBackCounts /\ BufferPosedge(c_outs)
<1>1. ReceiveCounts
  <2> USE SquareSizes DEF ReceiveType, ReceiveCounts
  <2>1. CASE RX_Idle(start_cal)
    BY <2>1 DEF RX_Idle
  <2>2. CASE RX_Gather
    BY <2>2 DEF RX_Gather
  <2>3. CASE RX_Gathered
    BY <2>3 DEF RX_Gathered
  <2>4. CASE RX_Wait(start_cal)
    BY <2>4 DEF RX_Wait
  <2>5. CASE RX_TileDone
    BY <2>5 DEF RX_TileDone, RowAfter, ColAfter, IsLast
  <2> QED
    BY <2>1, <2>2, <2>3, <2>4, <2>5 DEF GatherPosedge
<1>2. WriteBackCounts
  <2> USE SquareSizes DEF WriteBackType, WriteBackCounts, BufferRow
  <2>1. CASE WB_Idle
    BY <2>1 DEF WB_Idle
  <2>2. CASE WB_Write
    <3>1. CASE gw.write_back_cnt = A_SIZE_Y - 1
      BY <2>2, <3>1 DEF WB_Write
    <3>2. CASE gw.write_back_cnt # A_SIZE_Y - 1
      <4>1. gw.write_back_cnt \in 0 .. A_SIZE_Y
        BY <3>2
      <4>2. Incr(gw.write_back_cnt) = gw.write_back_cnt + 1
        BY <4>1, NoWrap
      <4> QED
        BY <2>2, <3>2, <4>2 DEF WB_Write
    <3> QED
      BY <3>1, <3>2
  <2>3. CASE WB_Clean
    BY <2>3 DEF WB_Clean
  <2> QED
    BY <2>1, <2>2, <2>3 DEF GatherPosedge
<1> QED
  BY <1>1, <1>2 DEF GatherPosedge

\* What gen_buffer and gen_load leave in buffer_B and on b_ins.
NewBuffer(rddata) ==
  IF sb.state = "PREPARING" /\ sb.in_block_cnt - 1 \in Lane
  THEN [sb.buffer_B EXCEPT ![sb.in_block_cnt - 1] = rddata]
  ELSE sb.buffer_B

NewIns ==
  IF sb.state = "LOADING" THEN [i \in Lane |-> sb.buffer_B[i][sb.load_cnt]] ELSE ZeroLanes

\* One clock of scatter_b with its counters.
ScatterBCounter(load) ==
  \/ /\ sb.state = "IDLE" /\ ~load /\ sb'.state = "IDLE"
     /\ sb'.row_cnt = 0 /\ sb'.col_cnt = 0 /\ sb'.load_cnt = 0 /\ (sb'.Final <=> sb.Final)
  \/ /\ sb.state = "IDLE" /\ load /\ sb'.state = "PREPARING"
     /\ sb'.row_cnt = sb.row_cnt /\ sb'.col_cnt = sb.col_cnt
     /\ sb'.load_cnt = sb.load_cnt /\ (sb'.Final <=> sb.Final)
  \/ /\ sb.state = "PREPARING" /\ sb.in_block_cnt # N + 1 /\ sb'.state = "PREPARING"
     /\ sb'.row_cnt = sb.row_cnt /\ sb'.col_cnt = sb.col_cnt
     /\ sb'.load_cnt = sb.load_cnt /\ (sb'.Final <=> sb.Final)
     /\ sb'.in_block_cnt = sb.in_block_cnt + 1
  \/ /\ sb.state = "PREPARING" /\ sb.in_block_cnt = N + 1 /\ sb'.state = "WAITING"
     /\ sb'.row_cnt = RowAfter(sb.row_cnt) /\ sb'.col_cnt = ColAfter(sb.row_cnt, sb.col_cnt)
     /\ sb'.load_cnt = sb.load_cnt
     /\ (sb'.Final <=> IsLast(sb.row_cnt, sb.col_cnt) \/ sb.Final)
  \/ /\ sb.state = "WAITING" /\ sb'.state = "WAITING"
     /\ sb'.row_cnt = sb.row_cnt /\ sb'.col_cnt = sb.col_cnt
     /\ sb'.load_cnt = sb.load_cnt /\ (sb'.Final <=> sb.Final)
  \/ /\ sb.state = "WAITING" /\ sb'.state = "LOADING" /\ sb'.stationaryCtrl
     /\ sb'.row_cnt = sb.row_cnt /\ sb'.col_cnt = sb.col_cnt
     /\ sb'.load_cnt = sb.load_cnt /\ (sb'.Final <=> sb.Final)
  \/ /\ sb.state = "LOADING" /\ sb.load_cnt < N - 1 /\ sb'.state = "LOADING"
     /\ sb'.stationaryCtrl = sb.stationaryCtrl /\ sb'.load_done = sb.load_done
     /\ sb'.row_cnt = sb.row_cnt /\ sb'.col_cnt = sb.col_cnt
     /\ sb'.load_cnt = sb.load_cnt + 1 /\ (sb'.Final <=> sb.Final)
  \/ /\ sb.state = "LOADING" /\ sb.load_cnt = N - 1 /\ sb'.load_done
     /\ sb'.state = (IF sb.Final THEN "IDLE" ELSE "PREPARING") /\ sb'.stationaryCtrl
     /\ sb'.row_cnt = sb.row_cnt /\ sb'.col_cnt = sb.col_cnt
     /\ sb'.load_cnt = 0 /\ ~sb'.Final /\ sb'.in_block_cnt = sb.in_block_cnt

LEMMA ScatterBCountsOn ==
  ASSUME Square, sb \in ScatterBType, NEW load \in BOOLEAN, NEW rd, ScatterBPosedge(load, rd)
  PROVE  /\ ScatterBCounter(load)
         /\ sb'.buffer_B = NewBuffer(rd) /\ sb'.b_ins = NewIns
<1> DEFINE dp == Datapath(rd)
           bb == NewBuffer(rd)
           bi == NewIns
<1>1. dp = [sb EXCEPT !.buffer_B = bb, !.b_ins = bi]
  BY Zenon DEF Datapath, NewBuffer, NewIns
<1> HIDE DEF dp, bb, bi
<1> USE SquareSizes DEF ScatterBType, Lane
<1>2. CASE B_Idle(load, rd)
  BY <1>1, <1>2 DEF B_Idle, ScatterBCounter, dp, bb, bi
<1>3. CASE B_Accept(load, rd)
  BY <1>1, <1>3 DEF B_Accept, ScatterBCounter, dp, bb, bi
<1>4. CASE B_Fetch(rd)
  <2>1. sb.in_block_cnt \in 0 .. N /\ sb.in_block_cnt < N + 1
    BY <1>4 DEF B_Fetch
  <2>2. Incr(sb.in_block_cnt) = sb.in_block_cnt + 1
    BY <2>1, NoWrap
  <2> QED
    BY <1>1, <1>4, <2>1, <2>2 DEF B_Fetch, ScatterBCounter, dp, bb, bi
<1>5. CASE B_Fetched(rd)
  BY <1>1, <1>5 DEF B_Fetched, ScatterBCounter, RowAfter, ColAfter, IsLast, dp, bb, bi
<1>6. CASE B_Wait(load, rd)
  BY <1>1, <1>6 DEF B_Wait, ScatterBCounter, dp, bb, bi
<1>7. CASE B_Load(load, rd)
  BY <1>1, <1>7 DEF B_Load, ScatterBCounter, dp, bb, bi
<1>8. CASE B_Shift(rd)
  <2>1. sb.load_cnt \in 0 .. N /\ sb.load_cnt < N - 1
    BY <1>8 DEF B_Shift
  <2>2. Incr(sb.load_cnt) = sb.load_cnt + 1
    BY <2>1, NoWrap
  <2> QED
    BY <1>1, <1>8, <2>1, <2>2 DEF B_Shift, ScatterBCounter, dp, bb, bi
<1>9. CASE B_Loaded(rd)
  BY <1>1, <1>9 DEF B_Loaded, ScatterBCounter, dp, bb, bi
<1> QED
  BY <1>2, <1>3, <1>4, <1>5, <1>6, <1>7, <1>8, <1>9 DEF ScatterBPosedge
-----------------------------------------------------------------------------
(***************************************************************************)
(* The counters over one clock.                                            *)
(***************************************************************************)
\* What one clock does to the counters, beside the moves of the handshakes.
ClockCounts ==
  /\ ControlCounts(GatherDone) /\ ScatterACounter /\ ScatterBCounter(cc.B_load)
  /\ ReceiveCounts /\ WriteBackCounts

\* One clock of the accelerator has all of this.
LEMMA ClockCounter ==
  ASSUME Square, TypeOK, NEW start \in BOOLEAN, Clock(start)
  PROVE  /\ ClockCounts
         /\ sb'.buffer_B = NewBuffer(rdB) /\ sb'.b_ins = NewIns
         /\ BufferPosedge(COuts(AIn(rdA)))
         /\ PEPosedge(sb.stationaryCtrl, sb.b_ins) /\ RamPosedge
         /\ gen' = gen
<1>1. /\ sb.load_done \in BOOLEAN /\ cc.start_cal \in BOOLEAN /\ cc.B_load \in BOOLEAN
  BY DEF TypeOK, ControlType, ScatterBType
<1>2. GatherDone \in BOOLEAN
  BY DEF TypeOK, GatherDone, ReceiveType, WriteBackType
<1>3. /\ ControlPosedge(start, sb.load_done, GatherDone)
      /\ ScatterAPosedge(cc.start_cal)
      /\ ScatterBPosedge(cc.B_load, rdB)
      /\ PEPosedge(sb.stationaryCtrl, sb.b_ins)
      /\ GatherPosedge(cc.start_cal, COuts(AIn(rdA)))
      /\ RamPosedge /\ gen' = gen
  BY Zenon DEF Clock, Posedge
<1>4. /\ cc \in ControlType /\ sa \in ScatterAType /\ sb \in ScatterBType
      /\ gr \in ReceiveType /\ gw \in WriteBackType
  BY DEF TypeOK
<1>5. ControlCounts(GatherDone)
  BY <1>1, <1>2, <1>3, <1>4, ControlCounter
<1>6. ScatterACounter
  BY <1>1, <1>3, <1>4, ScatterACountsOn
<1>7. ScatterBCounter(cc.B_load) /\ sb'.buffer_B = NewBuffer(rdB) /\ sb'.b_ins = NewIns
  BY <1>1, <1>3, <1>4, ScatterBCountsOn
<1>8. ReceiveCounts /\ WriteBackCounts /\ BufferPosedge(COuts(AIn(rdA)))
  BY <1>1, <1>3, <1>4, GatherCounter
<1> QED
  BY <1>3, <1>5, <1>6, <1>7, <1>8 DEF ClockCounts

\* The moves and the counts of one clock together, and the handshakes after it.
ClockFacts(start) ==
  /\ CounterRanges /\ CounterRanges' /\ HandshakeInv /\ HandshakeInv'
  /\ ControlMoves(start, sb.load_done, GatherDone)
  /\ ScatterAMoves(cc.start_cal) /\ ScatterBMoves(cc.B_load)
  /\ ReceiveMoves(cc.start_cal) /\ WriteBackMoves
  /\ ClockCounts

LEMMA ClockGives ==
  ASSUME Square, TypeOK, HandshakeInv, NEW start \in BOOLEAN, Clock(start)
  PROVE  ClockFacts(start)
<1>1. /\ ControlMoves(start, sb.load_done, GatherDone)
      /\ ScatterAMoves(cc.start_cal) /\ ScatterBMoves(cc.B_load)
      /\ ReceiveMoves(cc.start_cal) /\ WriteBackMoves
      /\ TypeOK'
  BY ClockMoves
<1>2. CounterRanges
  BY Ranges
<1>3. CounterRanges'
  BY <1>1, Ranges, PTL
<1> QED
  BY <1>1, <1>2, <1>3, HandshakeClock, ClockCounter DEF ClockFacts

\* gather_c is done with a tile only where the sequencer waits for it.
LEMMA DoneIsGathered ==
  ASSUME CounterRanges, HandshakeInv, GatherDone
  PROVE  cc.state = "COMPUTING" /\ Gathered /\ gr.state = "WAITING"
BY DEF CounterRanges, HandshakeInv, AtRest, Loading, Computing, Starting, Streaming, Gathered,
       GatherQuiet, GatherDone

\* The counters of gather_c stay with those of the sequencer.
LEMMA GatherCountsStep ==
  ASSUME Square, NEW start \in BOOLEAN, ClockFacts(start), GatherCounts,
         cc.row_cnt \in 0 .. Tiles - 1, cc.col_cnt \in 0 .. Tiles - 1
  PROVE  GatherCounts'
<1> USE DEF ClockFacts, ClockCounts
<1>1. gr'.row_cnt = cc'.row_cnt /\ gr'.col_cnt = cc'.col_cnt
  <2>1. CASE GatherDone
    <3>1. cc.state = "COMPUTING" /\ gr.state = "WAITING"
      BY <2>1, DoneIsGathered
    <3> QED
      BY <2>1, <3>1 DEF GatherCounts, ControlCounts, ReceiveCounts
  <2>2. CASE ~GatherDone
    BY <2>2 DEF GatherCounts, ControlCounts, ReceiveCounts
  <2> QED
    BY <2>1, <2>2
<1>2. cc'.state = "IDLE" => gr'.state = "IDLE"
  <2> SUFFICES ASSUME cc'.state = "IDLE"
               PROVE  gr'.state = "IDLE"
    OBVIOUS
  <2>1. CASE cc.state = "IDLE"
    <3>1. gr.state = "IDLE" /\ ~cc.start_cal
      BY <2>1 DEF GatherCounts, HandshakeInv
    <3> QED
      BY <3>1 DEF ReceiveMoves
  <2>2. CASE cc.state # "IDLE"
    <3>1. cc.state = "COMPUTING" /\ GatherDone
      BY <2>2 DEF ControlMoves
    <3>2. gr.state = "WAITING"
      BY <3>1, DoneIsGathered
    <3>3. IsLast(cc.row_cnt, cc.col_cnt)
      BY <3>1 DEF ControlCounts
    <3> QED
      BY <3>1, <3>2, <3>3 DEF ReceiveCounts, GatherCounts
  <2> QED
    BY <2>1, <2>2
<1>3. gr'.state = "IDLE" => cc'.row_cnt = 0 /\ cc'.col_cnt = 0
  <2> SUFFICES ASSUME gr'.state = "IDLE"
               PROVE  gr'.row_cnt = 0 /\ gr'.col_cnt = 0
    BY <1>1
  <2>1. CASE gr.state = "IDLE"
    BY <2>1 DEF GatherCounts, ReceiveCounts
  <2>2. CASE gr.state # "IDLE"
    <3>1. gr.state = "WAITING" /\ GatherDone
      BY <2>2 DEF ReceiveMoves
    <3>2. IsLast(gr.row_cnt, gr.col_cnt)
      BY <3>1 DEF ReceiveCounts
    <3> QED
      BY <3>1, <3>2 DEF ReceiveCounts, IsLast, RowAfter, ColAfter
  <2> QED
    BY <2>1, <2>2
<1>4. gw'.bram_state # "WRITING" => gw'.write_back_cnt = 0
  BY DEF GatherCounts, WriteBackCounts, WriteBackMoves, CounterRanges
<1>5. ASSUME cc'.state = "COMPUTING", gr'.state = "WAITING", ~cc'.start_cal
      PROVE  IF gr'.recieve_done THEN (gr'.write_back <=> cc'.row_cnt = Tiles - 1)
                                 ELSE cc'.row_cnt = Tiles - 1
  <2>1. cc.state = "COMPUTING" /\ ~GatherDone
    BY <1>5 DEF ControlMoves, CounterRanges
  <2>2. cc'.row_cnt = cc.row_cnt
    BY <2>1 DEF ControlCounts
  <2>3. CASE Starting
    BY <1>5, <2>1, <2>3 DEF Starting, GatherQuiet, ReceiveMoves
  <2>4. CASE Streaming
    <3>1. gr.in_block_cnt = A_SIZE_Y + 1 /\ gr'.recieve_done
      BY <1>5, <2>4 DEF Streaming, ReceiveMoves
    <3>2. gr'.write_back <=> (gr.row_cnt = Tiles - 1)
      BY <2>4, <3>1 DEF Streaming, ReceiveCounts, CounterRanges
    <3>3. gr.row_cnt = cc'.row_cnt
      BY <2>2 DEF GatherCounts
    <3> QED
      BY <3>1, <3>2, <3>3, Zenon
  <2>5. CASE Gathered
    <3>1. gr.state = "WAITING" /\ ~cc.start_cal /\ ~gr'.recieve_done
      BY <2>1, <2>5 DEF Gathered, ReceiveMoves
    <3>2. cc.row_cnt = Tiles - 1
      BY <2>1, <2>5, <3>1 DEF Gathered, GatherCounts, GatherDone, CounterRanges
    <3> QED
      BY <2>2, <3>1, <3>2
  <2> QED
    BY <2>1, <2>3, <2>4, <2>5 DEF HandshakeInv, Computing
<1> QED
  BY <1>1, <1>2, <1>3, <1>4, <1>5 DEF GatherCounts

\* So do those of scatter_a.
LEMMA ScatterACountsStep ==
  ASSUME Square, NEW start \in BOOLEAN, ClockFacts(start), ScatterACounts, GatherCounts
  PROVE  ScatterACounts'
<1> USE DEF ClockFacts, ClockCounts
<1>1. CASE cc.state = "IDLE"
  <2>1. /\ sa.state # "CALCULATE" /\ sa.col_cnt = cc.row_cnt /\ cc'.state # "COMPUTING"
        /\ cc'.row_cnt = cc.row_cnt
    BY <1>1 DEF HandshakeInv, AtRest, ScatterACounts, ControlMoves, ControlCounts
  <2> QED
    BY <2>1 DEF ScatterACounts, ScatterACounter
<1>2. CASE cc.state = "PREPARING"
  <2>1. /\ sa.state # "CALCULATE" /\ sa.col_cnt = cc.row_cnt /\ cc'.row_cnt = cc.row_cnt
        /\ cc'.state = "COMPUTING" => cc'.start_cal
        /\ gr'.state # "GATHERING"
    BY <1>2 DEF HandshakeInv, Loading, ScatterAQuiet, GatherQuiet, ScatterACounts, ControlMoves,
                ControlCounts, ReceiveMoves, CounterRanges
  <2> QED
    BY <2>1 DEF ScatterACounts, ScatterACounter
<1>3. CASE cc.state = "COMPUTING" /\ Starting
  <2>1. ~GatherDone
    BY <1>3 DEF Starting, GatherQuiet, GatherDone
  <2>2. /\ sa.state # "CALCULATE" /\ sa.col_cnt = cc.row_cnt /\ cc'.row_cnt = cc.row_cnt
        /\ cc'.state = "COMPUTING" /\ ~cc'.start_cal
        /\ sa'.state = "CALCULATE" /\ gr'.in_block_cnt = 0
    BY <1>3, <2>1 DEF Starting, ScatterAQuiet, GatherQuiet, ScatterACounts, ControlMoves,
                      ControlCounts,
                ReceiveMoves, ScatterAMoves, CounterRanges
  <2>3. ~(gr'.in_block_cnt \in 1 .. A_SIZE_Y)
    BY <2>2
  <2> QED
    BY <2>2, <2>3 DEF ScatterACounts, ScatterACounter
<1>4. CASE cc.state = "COMPUTING" /\ Streaming
  <2>1. ~GatherDone
    BY <1>4 DEF Streaming, GatherDone
  <2>2. cc'.state = "COMPUTING" /\ ~cc'.start_cal /\ cc'.row_cnt = cc.row_cnt
    BY <1>4, <2>1 DEF ControlMoves, ControlCounts
  <2>3. sa'.col_cnt = IF sa'.state # "CALCULATE" THEN RowAfter(cc.row_cnt) ELSE cc.row_cnt
    <3>1. CASE sa.state = "CALCULATE"
      <4>1. sa.col_cnt = cc.row_cnt
        BY <1>4, <3>1 DEF ScatterACounts
      <4> QED
        BY <3>1, <4>1 DEF ScatterACounter, CounterRanges
    <3>2. CASE sa.state # "CALCULATE"
      <4>1. sa.col_cnt = RowAfter(cc.row_cnt)
        BY <1>4, <3>2 DEF ScatterACounts, Streaming
      <4>2. sa'.state # "CALCULATE"
        BY <1>4, <3>2 DEF ScatterAMoves, Streaming, CounterRanges
      <4> QED
        BY <3>2, <4>1, <4>2 DEF ScatterACounter
    <3> QED
      BY <3>1, <3>2
  <2>4. ASSUME gr'.state = "GATHERING", gr'.in_block_cnt \in 1 .. A_SIZE_Y
        PROVE  sa'.output_enable
    <3>1. gr'.in_block_cnt = gr.in_block_cnt + 1 /\ gr.in_block_cnt \in 0 .. A_SIZE_Y - 1
      BY <1>4, <2>4, SquareSizes DEF Streaming, ReceiveMoves, CounterRanges
    <3>2. sa.state = "CALCULATE" /\ sa.in_block_cnt = gr.in_block_cnt
      BY <1>4, <3>1, SquareSizes DEF Streaming, CounterRanges
    <3>3. CASE sa.in_block_cnt # A_SIZE_Y - 1
      BY <3>2, <3>3 DEF ScatterACounter
    <3>4. CASE sa.in_block_cnt = A_SIZE_Y - 1
      <4>1. gr.in_block_cnt \in 1 .. A_SIZE_Y
        BY <3>1, <3>2, <3>4, SquareSizes
      <4>2. sa.output_enable
        BY <1>4, <4>1 DEF Streaming, ScatterACounts
      <4> QED
        BY <3>2, <3>4, <4>2 DEF ScatterACounter
    <3> QED
      BY <3>3, <3>4
  <2> QED
    BY <2>2, <2>3, <2>4 DEF ScatterACounts
<1>5. CASE cc.state = "COMPUTING" /\ Gathered
  <2>1. /\ sa.state # "CALCULATE" /\ ~cc.start_cal /\ sa.col_cnt = RowAfter(cc.row_cnt)
        /\ sa'.col_cnt = RowAfter(cc.row_cnt) /\ sa'.state # "CALCULATE"
        /\ gr'.state # "GATHERING"
    BY <1>5 DEF Gathered, ScatterAQuiet, ScatterACounts, ScatterAMoves, ScatterACounter,
                ReceiveMoves,
                CounterRanges
  <2>2. CASE GatherDone
    <3>1. cc'.row_cnt = RowAfter(cc.row_cnt) /\ cc'.state # "COMPUTING"
      BY <1>5, <2>2 DEF ControlCounts
    <3> QED
      BY <2>1, <3>1 DEF ScatterACounts
  <2>3. CASE ~GatherDone
    <3>1. cc'.row_cnt = cc.row_cnt /\ cc'.state = "COMPUTING" /\ ~cc'.start_cal
      BY <1>5, <2>3 DEF ControlCounts, ControlMoves
    <3> QED
      BY <2>1, <3>1 DEF ScatterACounts
  <2> QED
    BY <2>2, <2>3
<1> QED
  BY <1>1, <1>2, <1>3, <1>4, <1>5 DEF CounterRanges, HandshakeInv, Computing

\* In a run scatter_b goes on to the next tile when it has loaded one.
FetchSame == FetchRow' = FetchRow /\ FetchCol' = FetchCol
FetchNext == FetchRow' = RowAfter(FetchRow) /\ FetchCol' = ColAfter(FetchRow, FetchCol)

LEMMA FetchMoves ==
  ASSUME NEW start \in BOOLEAN, ClockFacts(start), cc.state # "IDLE", cc'.state # "IDLE"
  PROVE  IF sb.state = "LOADING" /\ sb'.load_done THEN FetchNext /\ ~Ahead /\ Ahead'
                                                  ELSE FetchSame
<1> USE DEF ClockFacts, ClockCounts
<1>1. CASE cc.state = "PREPARING" /\ ~sb.load_done
  <2>1. cc'.state = "PREPARING" /\ cc'.row_cnt = cc.row_cnt /\ cc'.col_cnt = cc.col_cnt
    BY <1>1 DEF ControlMoves, ControlCounts, CounterRanges
  <2>2. sb'.load_done => sb.state = "LOADING"
    BY <1>1 DEF ScatterBMoves, CounterRanges
  <2> QED
    BY <1>1, <2>1, <2>2 DEF FetchSame, FetchNext, FetchRow, FetchCol, Ahead
<1>2. CASE cc.state = "PREPARING" /\ sb.load_done
  <2>1. cc'.state = "COMPUTING" /\ cc'.row_cnt = cc.row_cnt /\ cc'.col_cnt = cc.col_cnt
    BY <1>2 DEF ControlMoves, ControlCounts, CounterRanges
  <2>2. sb.state # "LOADING"
    BY <1>2 DEF HandshakeInv, Loading
  <2> QED
    BY <1>2, <2>1, <2>2 DEF FetchSame, FetchRow, FetchCol, Ahead
<1>3. CASE cc.state = "COMPUTING"
  <2>1. sb.state # "LOADING"
    BY <1>3 DEF HandshakeInv, Computing, Starting, Streaming, Gathered, ScatterBWaits
  <2>2. CASE GatherDone
    <3>1. /\ cc'.state = "PREPARING" /\ cc'.row_cnt = RowAfter(cc.row_cnt)
          /\ cc'.col_cnt = ColAfter(cc.row_cnt, cc.col_cnt)
      BY <1>3, <2>2 DEF ControlCounts
    <3>2. ~sb'.load_done
      BY <1>3, <2>1 DEF HandshakeInv, Computing, ScatterBMoves
    <3> QED
      BY <1>3, <2>1, <3>1, <3>2 DEF FetchSame, FetchRow, FetchCol, Ahead
  <2>3. CASE ~GatherDone
    <3>1. cc'.state = "COMPUTING" /\ cc'.row_cnt = cc.row_cnt /\ cc'.col_cnt = cc.col_cnt
      BY <1>3, <2>3 DEF ControlMoves, ControlCounts, CounterRanges
    <3> QED
      BY <1>3, <2>1, <3>1 DEF FetchSame, FetchRow, FetchCol, Ahead
  <2> QED
    BY <2>2, <2>3
<1> QED
  BY <1>1, <1>2, <1>3 DEF CounterRanges

\* The counters of scatter_b where a run begins or ends ...
LEMMA ScatterBIdleStep ==
  ASSUME Square, NEW start \in BOOLEAN, ClockFacts(start), ScatterBCounts, GatherCounts,
         cc.state = "IDLE" \/ cc'.state = "IDLE"
  PROVE  ScatterBCounts'
<1> USE DEF ClockFacts, ClockCounts
<1>1. sb.state = "IDLE" /\ ~cc.B_load
  <2>1. CASE cc.state = "IDLE"
    BY <2>1 DEF ScatterBCounts, HandshakeInv
  <2>2. CASE cc.state # "IDLE"
    <3>1. cc.state = "COMPUTING" /\ GatherDone
      BY <2>2 DEF ControlMoves
    <3>2. IsLast(cc.row_cnt, cc.col_cnt)
      BY <2>2, <3>1 DEF ControlCounts
    <3> QED
      BY <3>1, <3>2 DEF ScatterBCounts, Ahead, HandshakeInv
  <2> QED
    BY <2>1, <2>2
<1>2. /\ sb'.state = "IDLE" /\ ~sb'.load_done /\ sb'.row_cnt = 0 /\ sb'.col_cnt = 0
      /\ sb'.load_cnt = 0 /\ (sb'.Final <=> sb.Final)
  BY <1>1 DEF ScatterBMoves, ScatterBCounter
<1>3. ~sb.Final
  BY <1>1 DEF ScatterBCounts
<1>4. cc'.state # "COMPUTING" /\ cc'.row_cnt = 0 /\ cc'.col_cnt = 0
  <2>1. CASE cc.state = "IDLE"
    <3>1. cc.row_cnt = 0 /\ cc.col_cnt = 0
      BY <2>1 DEF GatherCounts
    <3> QED
      BY <2>1, <3>1 DEF ControlMoves, ControlCounts
  <2>2. CASE cc.state # "IDLE"
    <3>1. cc.state = "COMPUTING" /\ GatherDone
      BY <2>2 DEF ControlMoves
    <3>2. IsLast(cc.row_cnt, cc.col_cnt)
      BY <2>2, <3>1 DEF ControlCounts
    <3> QED
      BY <2>2, <3>1, <3>2 DEF ControlCounts, IsLast, RowAfter, ColAfter
  <2> QED
    BY <2>1, <2>2
<1> QED
  BY <1>2, <1>3, <1>4 DEF ScatterBCounts, Ahead

\* ... and inside a run.
LEMMA ScatterBCountsStep ==
  ASSUME Square, NEW start \in BOOLEAN, ClockFacts(start), ScatterBCounts, GatherCounts,
         cc.state # "IDLE", cc'.state # "IDLE"
  PROVE  ScatterBCounts'
<1> USE DEF ClockFacts, ClockCounts
<1>1. IF sb.state = "LOADING" /\ sb'.load_done THEN FetchNext /\ ~Ahead /\ Ahead'
                                               ELSE FetchSame
  BY FetchMoves
<1>2. sb'.state # "LOADING" => sb'.load_cnt = 0
  BY DEF ScatterBCounts, ScatterBCounter
<1>3. sb'.state = "LOADING" \/ (cc'.state = "PREPARING" /\ sb'.load_done) => sb'.stationaryCtrl
  <2>1. CASE sb'.state = "LOADING"
    BY <2>1 DEF ScatterBCounts, ScatterBCounter
  <2>2. CASE sb'.state # "LOADING" /\ cc'.state = "PREPARING" /\ sb'.load_done
    <3>1. sb.state = "LOADING" \/ sb.load_done
      BY <2>2 DEF ScatterBMoves, CounterRanges
    <3>2. cc.state = "PREPARING" \/ cc.state = "COMPUTING"
      BY DEF CounterRanges
    <3>3. CASE sb.state = "LOADING"
      BY <2>2, <3>3 DEF ScatterBCounter
    <3>4. CASE sb.state # "LOADING" /\ sb.load_done
      <4>1. cc.state = "PREPARING"
        BY <3>2, <3>4 DEF HandshakeInv, Computing
      <4>2. cc'.state = "COMPUTING"
        BY <4>1, <3>4 DEF ControlMoves
      <4> QED
        BY <2>2, <4>2
    <3> QED
      BY <3>1, <3>3, <3>4
  <2> QED
    BY <2>1, <2>2
<1>4. /\ sb'.state = "PREPARING" => sb'.row_cnt = FetchRow' /\ sb'.col_cnt = FetchCol'
      /\ sb'.state \in {"WAITING", "LOADING"} =>
           /\ sb'.row_cnt = RowAfter(FetchRow')
           /\ sb'.col_cnt = ColAfter(FetchRow', FetchCol')
      /\ (sb'.Final <=> sb'.state \in {"WAITING", "LOADING"} /\ IsLast(FetchRow', FetchCol'))
  <2>1. CASE sb.state = "IDLE"
    <3>1. ~sb.Final /\ FetchSame
      BY <1>1, <2>1 DEF ScatterBCounts
    <3>2. CASE cc.B_load
      <4>1. /\ cc.state = "PREPARING" /\ ~sb.load_done
        BY <2>1, <3>2 DEF HandshakeInv, Loading
      <4>2. cc.row_cnt = 0 /\ cc.col_cnt = 0 /\ sb.row_cnt = 0 /\ sb.col_cnt = 0
        BY <2>1, <4>1 DEF ScatterBCounts
      <4>3. FetchRow = 0 /\ FetchCol = 0
        BY <4>1, <4>2 DEF FetchRow, FetchCol, Ahead
      <4> QED
        BY <2>1, <3>1, <3>2, <4>2, <4>3 DEF ScatterBCounter, FetchSame
    <3>3. CASE ~cc.B_load
      BY <2>1, <3>1, <3>3 DEF ScatterBCounter
    <3> QED
      BY <3>2, <3>3
  <2>2. CASE sb.state = "PREPARING"
    <3>1. FetchSame /\ sb.row_cnt = FetchRow /\ sb.col_cnt = FetchCol /\ ~sb.Final
      BY <1>1, <2>2 DEF ScatterBCounts
    <3> QED
      BY <2>2, <3>1 DEF ScatterBCounter, FetchSame
  <2>3. CASE sb.state = "WAITING"
    <3>1. /\ FetchSame /\ sb.row_cnt = RowAfter(FetchRow)
          /\ sb.col_cnt = ColAfter(FetchRow, FetchCol)
          /\ (sb.Final <=> IsLast(FetchRow, FetchCol))
      BY <1>1, <2>3 DEF ScatterBCounts
    <3> QED
      BY <2>3, <3>1 DEF ScatterBCounter, FetchSame
  <2>4. CASE sb.state = "LOADING" /\ sb.load_cnt < N - 1
    <3>1. ~sb.load_done
      BY <2>4 DEF HandshakeInv, Loading, Computing, Starting, Streaming, Gathered, ScatterBWaits,
                  CounterRanges
    <3>2. /\ sb'.state = "LOADING" /\ ~sb'.load_done /\ sb'.row_cnt = sb.row_cnt
          /\ sb'.col_cnt = sb.col_cnt /\ (sb'.Final <=> sb.Final)
      BY <2>4, <3>1, SquareSizes DEF ScatterBCounter
    <3>3. /\ FetchSame /\ sb.row_cnt = RowAfter(FetchRow)
          /\ sb.col_cnt = ColAfter(FetchRow, FetchCol)
          /\ (sb.Final <=> IsLast(FetchRow, FetchCol))
      BY <1>1, <2>4, <3>2 DEF ScatterBCounts
    <3> QED
      BY <3>2, <3>3 DEF FetchSame
  <2>5. CASE sb.state = "LOADING" /\ ~(sb.load_cnt < N - 1)
    <3>1. /\ sb'.state \in {"IDLE", "PREPARING"} /\ sb'.load_done /\ sb'.row_cnt = sb.row_cnt
          /\ sb'.col_cnt = sb.col_cnt /\ ~sb'.Final
      BY <2>5 DEF ScatterBCounter
    <3>2. /\ FetchNext /\ sb.row_cnt = RowAfter(FetchRow)
          /\ sb.col_cnt = ColAfter(FetchRow, FetchCol)
      BY <1>1, <2>5, <3>1 DEF ScatterBCounts
    <3> QED
      BY <3>1, <3>2 DEF FetchNext
  <2> QED
    BY <2>1, <2>2, <2>3, <2>4, <2>5 DEF CounterRanges
<1>5. Ahead' => (sb'.state = "IDLE" <=> IsLast(cc'.row_cnt, cc'.col_cnt))
  <2> SUFFICES ASSUME Ahead'
               PROVE  sb'.state = "IDLE" <=> IsLast(cc'.row_cnt, cc'.col_cnt)
    OBVIOUS
  <2>0. ~(cc.state = "COMPUTING" /\ GatherDone)
    <3> SUFFICES ASSUME cc.state = "COMPUTING", GatherDone
                 PROVE  FALSE
      OBVIOUS
    <3>1. cc'.state = "PREPARING" /\ sb'.load_done
      BY DEF ControlCounts, Ahead
    <3> QED
      BY <3>1 DEF HandshakeInv, Computing, ScatterBMoves, Gathered, Streaming, Starting,
                  ScatterBWaits
  <2>1. cc'.row_cnt = cc.row_cnt /\ cc'.col_cnt = cc.col_cnt
    BY <2>0 DEF ControlCounts
  <2>2. CASE sb.state = "LOADING"
    <3>1. ~sb.load_done /\ cc.state = "PREPARING"
      BY <2>2 DEF HandshakeInv, Loading, Computing, Starting, Streaming, Gathered, ScatterBWaits,
                  CounterRanges
    <3>2. cc'.state = "PREPARING"
      BY <3>1 DEF ControlMoves
    <3>3. sb'.load_done
      BY <3>2 DEF Ahead
    <3>4. sb'.state = IF sb.Final THEN "IDLE" ELSE "PREPARING"
      BY <2>2, <3>1, <3>3 DEF ScatterBCounter
    <3>5. sb.Final <=> IsLast(cc.row_cnt, cc.col_cnt)
      BY <2>2, <3>1 DEF ScatterBCounts, FetchRow, FetchCol, Ahead
    <3>6. IsLast(cc.row_cnt, cc.col_cnt) \in BOOLEAN
      BY DEF IsLast
    <3> QED
      BY <2>1, <3>4, <3>5, <3>6
  <2>3. CASE sb.state # "LOADING"
    <3>1. Ahead
      BY <2>3 DEF Ahead, ControlMoves, ScatterBMoves, CounterRanges
    <3>2. sb.state = "IDLE" <=> IsLast(cc.row_cnt, cc.col_cnt)
      BY <3>1 DEF ScatterBCounts
    <3>3. ~cc.B_load
      BY <3>1 DEF HandshakeInv, Loading, Ahead, CounterRanges
    <3>4. sb'.state = "IDLE" <=> (sb.state = "IDLE")
      BY <2>3, <3>3 DEF ScatterBCounter
    <3> QED
      BY <2>1, <3>2, <3>4
  <2> QED
    BY <2>2, <2>3
<1>6. ~(cc'.state = "PREPARING" /\ ~sb'.load_done /\ sb'.state = "IDLE")
  <2> SUFFICES ASSUME cc'.state = "PREPARING", ~sb'.load_done, sb'.state = "IDLE"
               PROVE  FALSE
    OBVIOUS
  <2>1. sb.state = "IDLE" /\ ~cc.B_load
    BY DEF ScatterBMoves
  <2>2. CASE cc.state = "PREPARING"
    BY <2>1, <2>2 DEF HandshakeInv, Loading, ControlMoves
  <2>3. CASE cc.state = "COMPUTING"
    <3>1. IsLast(cc.row_cnt, cc.col_cnt)
      BY <2>1, <2>3 DEF ScatterBCounts, Ahead
    <3>2. GatherDone
      BY <2>3 DEF ControlMoves
    <3> QED
      BY <2>3, <3>1, <3>2 DEF ControlCounts
  <2> QED
    BY <2>2, <2>3 DEF CounterRanges
<1> QED
  BY <1>2, <1>3, <1>4, <1>5, <1>6 DEF ScatterBCounts
-----------------------------------------------------------------------------
(***************************************************************************)
(* The addresses, and what is read at them.                                *)
(***************************************************************************)
\* An element of a tile is an element of the matrix.
LEMMA InTile ==
  ASSUME Square, NEW r \in 0 .. Tiles - 1, NEW j \in Lane
  PROVE  r * N + j \in 0 .. A_SIZE_X - 1
<1>1. N \in Nat \ {0} /\ Tiles \in Nat \ {0} /\ A_SIZE_X = Tiles * N /\ j \in 0 .. N - 1
  BY SquareSizes DEF Lane
<1>2. PICK w \in Nat : Tiles = r + 1 + w
  <2>1. Tiles - r - 1 \in Nat /\ Tiles = r + 1 + (Tiles - r - 1)
    BY <1>1
  <2> QED
    BY <2>1
<1>3. r * N \in Nat /\ w * N \in Nat /\ Tiles * N = r * N + N + w * N
  BY <1>1, <1>2
<1> QED
  BY <1>1, <1>3

\* The index of an element in row-major order.
LEMMA InMatrix ==
  ASSUME Square, NEW y \in 0 .. A_SIZE_X - 1, NEW c \in 0 .. A_SIZE_X - 1
  PROVE  y * A_SIZE_X + c \in 0 .. A_SIZE_X * A_SIZE_X - 1
<1>1. A_SIZE_X \in Nat \ {0}
  BY SquareSizes
<1>2. PICK w \in Nat : A_SIZE_X = y + 1 + w
  <2>1. A_SIZE_X - y - 1 \in Nat /\ A_SIZE_X = y + 1 + (A_SIZE_X - y - 1)
    BY <1>1
  <2> QED
    BY <2>1
<1>3. /\ y * A_SIZE_X \in Nat /\ w * A_SIZE_X \in Nat
      /\ A_SIZE_X * A_SIZE_X = y * A_SIZE_X + A_SIZE_X + w * A_SIZE_X
  BY <1>1, <1>2
<1> QED
  BY <1>1, <1>3

\* The address of word number q of a RAM.
LEMMA WordAddr ==
  ASSUME NEW q \in Nat, NEW j \in Lane, NEW x, x = q * N
  PROVE  (x \div N) * N + j = x + j /\ x \div N = q
<1>1. N \in Nat \ {0} /\ 0 \in 0 .. N - 1 /\ x = q * N + 0 /\ q * N \in Nat
  BY Sizes
<1>2. x \div N = q
  BY <1>1, DivUnique
<1> QED
  BY <1>1, <1>2

\* The word at the address of scatter_a is a row of the tile it counts.
LEMMA ReadA ==
  ASSUME Square, RamsHold, NEW y \in 0 .. A_SIZE_X - 1, NEW r \in 0 .. Tiles - 1,
         sa.in_block_cnt = y, sa.col_cnt = r
  PROVE  ReadWord(ramA, ScatterAAddr) = ARow(y, r)
<1> DEFINE S == A_SIZE_X
           q == y * Tiles + r
           x == y * S + r * N
<1>1. N \in Nat \ {0} /\ Tiles \in Nat \ {0} /\ S \in Nat \ {0} /\ S = Tiles * N
  BY SquareSizes
<1>2. q \in Nat /\ x = q * N
  BY <1>1
<1>3. ScatterAAddr = x \div N
  BY DEF ScatterAAddr
<1>4. ASSUME NEW j \in Lane
      PROVE  /\ ScatterAAddr * N + j = y * S + (r * N + j)
             /\ y * S + (r * N + j) \in 0 .. S * S - 1
  <2>1. (x \div N) * N + j = x + j
    BY <1>2, WordAddr
  <2>2. x + j = y * S + (r * N + j)
    BY <1>1 DEF Lane
  <2>3. r * N + j \in 0 .. S - 1
    BY InTile
  <2> QED
    BY <1>3, <2>1, <2>2, <2>3, InMatrix
<1>5. DOMAIN ramA = 0 .. S * S - 1 /\ \A k \in 0 .. S * S - 1 : ramA[k] = AData(gen, k)
  BY SquareSizes DEF RamsHold, MatrixA
<1>6. ASSUME NEW j \in Lane
      PROVE  ReadWord(ramA, ScatterAAddr)[j] = AData(gen, y * S + (r * N + j))
  <2> HIDE DEF S
  <2> QED
    BY <1>4, <1>5 DEF ReadWord
<1> QED
  BY <1>6 DEF ReadWord, ARow

\* The same for scatter_b.
LEMMA ReadB ==
  ASSUME Square, RamsHold, NEW r \in 0 .. Tiles - 1, NEW c \in 0 .. Tiles - 1, NEW i \in Lane,
         sb.in_block_cnt = i, sb.row_cnt = r, sb.col_cnt = c
  PROVE  ReadWord(ramB, ScatterBAddr) = BRow(r, c, i)
<1> DEFINE S == A_SIZE_X
           q == r * S + c + i * Tiles
           x == r * N * S + c * N + i * S
<1>1. N \in Nat \ {0} /\ Tiles \in Nat \ {0} /\ S \in Nat \ {0} /\ S = Tiles * N /\ i \in 0 .. N - 1
  BY SquareSizes DEF Lane
<1>2. q \in Nat /\ x = q * N
  <2>1. /\ r * S \in Nat /\ i * Tiles \in Nat
        /\ (r * S) * N = r * N * S /\ (i * Tiles) * N = i * S
    BY <1>1
  <2> QED
    BY <1>1, <2>1
<1>3. ScatterBAddr = x \div N
  BY SquareSizes DEF ScatterBAddr
<1>4. ASSUME NEW j \in Lane
      PROVE  /\ ScatterBAddr * N + j = (r * N + i) * S + (c * N + j)
             /\ (r * N + i) * S + (c * N + j) \in 0 .. S * S - 1
  <2>1. (x \div N) * N + j = x + j
    BY <1>2, WordAddr
  <2>2. x + j = (r * N + i) * S + (c * N + j)
    <3>1. (r * N + i) * S = r * N * S + i * S
      BY <1>1
    <3> QED
      BY <1>1, <3>1 DEF Lane
  <2>3. c * N + j \in 0 .. S - 1 /\ r * N + i \in 0 .. S - 1
    BY InTile
  <2> QED
    BY <1>3, <2>1, <2>2, <2>3, InMatrix
<1>5. DOMAIN ramB = 0 .. S * S - 1 /\ \A k \in 0 .. S * S - 1 : ramB[k] = BData(gen, k)
  BY SquareSizes DEF RamsHold, MatrixB
<1>6. ASSUME NEW j \in Lane
      PROVE  ReadWord(ramB, ScatterBAddr)[j] = BElem(gen, r, c, i, j)
  <2> HIDE DEF S
  <2> QED
    BY <1>4, <1>5 DEF ReadWord, BElem, S
<1> QED
  BY <1>6 DEF ReadWord, BRow
-----------------------------------------------------------------------------
(***************************************************************************)
(* The data over one clock.                                                *)
(***************************************************************************)
\* The row that comes out of the RAM is the one gather_c counts next.
LEMMA RowOnInputsStep ==
  ASSUME Square, NEW start \in BOOLEAN, ClockFacts(start), ScatterACounts, RamsHold,
         cc.row_cnt \in 0 .. Tiles - 1, rdA' = ReadWord(ramA, ScatterAAddr), gen' = gen
  PROVE  RowOnInputs'
<1> USE DEF ClockFacts, ClockCounts
<1> SUFFICES ASSUME cc'.state = "COMPUTING", gr'.state = "GATHERING",
                    gr'.in_block_cnt \in 1 .. A_SIZE_Y
             PROVE  rdA' = ARow(gr.in_block_cnt - 1, cc.row_cnt)'
  BY DEF RowOnInputs
<1>1. cc.state = "COMPUTING" /\ ~GatherDone
  <2>1. cc.state # "IDLE"
    BY DEF ControlMoves
  <2>2. CASE cc.state = "PREPARING"
    BY <2>2 DEF HandshakeInv, Loading, GatherQuiet, ReceiveMoves
  <2>3. CASE cc.state = "COMPUTING"
    BY <2>3 DEF ControlMoves
  <2> QED
    BY <2>1, <2>2, <2>3 DEF CounterRanges
<1>2. cc'.row_cnt = cc.row_cnt
  BY <1>1 DEF ControlCounts
<1>3. ~Starting
  BY <1>1 DEF Starting, GatherQuiet, ReceiveMoves
<1>4. ~Gathered
  BY <1>1 DEF Gathered, ReceiveMoves
<1>5. Streaming
  BY <1>1, <1>3, <1>4 DEF HandshakeInv, Computing
<1>6. gr'.in_block_cnt = gr.in_block_cnt + 1 /\ gr.in_block_cnt \in 0 .. A_SIZE_Y - 1
  BY <1>5, SquareSizes DEF Streaming, ReceiveMoves, CounterRanges
<1>7. sa.state = "CALCULATE" /\ sa.in_block_cnt = gr.in_block_cnt
  BY <1>5, <1>6, SquareSizes DEF Streaming, CounterRanges
<1>8. sa.col_cnt = cc.row_cnt
  BY <1>7 DEF ScatterACounts
<1>9. rdA' = ARow(gr.in_block_cnt, cc.row_cnt)
  BY <1>6, <1>7, <1>8, ReadA, SquareSizes
<1>10. gr.in_block_cnt = gr'.in_block_cnt - 1
  BY <1>6
<1> QED
  BY <1>2, <1>9, <1>10 DEF ARow

\* The prefetch fills the buffer with the tile it is for.
LEMMA BufferStep ==
  ASSUME Square, NEW start \in BOOLEAN, ClockFacts(start), ScatterBCounts, RamsHold, BufferFilled,
         cc.state # "IDLE", cc'.state # "IDLE",
         sb.row_cnt \in 0 .. Tiles - 1, sb.col_cnt \in 0 .. Tiles - 1,
         sb'.buffer_B = NewBuffer(rdB), rdB' = ReadWord(ramB, ScatterBAddr), gen' = gen
  PROVE  BufferFilled'
<1> USE DEF ClockFacts, ClockCounts
<1> DEFINE m == sb.in_block_cnt
<1>0. N \in Nat \ {0} /\ Lane = 0 .. N - 1 /\ m \in 0 .. N + 1
  BY SquareSizes DEF Lane, CounterRanges
<1>1. DOMAIN sb'.buffer_B = Lane
  BY DEF NewBuffer, BufferFilled
<1>2. IF sb.state = "LOADING" /\ sb'.load_done THEN FetchNext /\ ~Ahead /\ Ahead'
                                               ELSE FetchSame
  BY FetchMoves
<1>3. FetchSame => \A i : BRow(FetchRow, FetchCol, i)' = BRow(FetchRow, FetchCol, i)
  BY DEF FetchSame, BRow
<1>4. CASE sb'.state = "PREPARING" /\ sb.state # "PREPARING"
  <2>1. sb'.in_block_cnt = 0
    <3>1. CASE sb.state = "IDLE"
      BY <1>4, <3>1 DEF ScatterBMoves, HandshakeInv, Loading
    <3>2. CASE sb.state # "IDLE"
      BY <1>4, <3>2 DEF ScatterBMoves, HandshakeInv
    <3> QED
      BY <3>1, <3>2
  <2>2. ~(sb'.in_block_cnt - 1 \in Lane) /\ \A i \in Lane : ~(i < sb'.in_block_cnt - 1)
    BY <1>0, <2>1
  <2> QED
    BY <1>1, <1>4, <2>2 DEF BufferFilled
<1>5. CASE sb'.state = "PREPARING" /\ sb.state = "PREPARING"
  <2>1. sb'.in_block_cnt = m + 1 /\ m # N + 1 /\ FetchSame
    BY <1>2, <1>5 DEF ScatterBCounter
  <2>2. sb.row_cnt = FetchRow /\ sb.col_cnt = FetchCol
    BY <1>5 DEF ScatterBCounts
  <2>3. ASSUME m \in Lane
        PROVE  rdB' = BRow(FetchRow, FetchCol, m)
    BY <2>2, <2>3, ReadB
  <2>4. ASSUME NEW i \in Lane, i < m
        PROVE  sb'.buffer_B[i] = BRow(FetchRow, FetchCol, i)
    <3>1. m - 1 \in Lane
      BY <1>0, <2>1, <2>4
    <3>2. sb'.buffer_B = [sb.buffer_B EXCEPT ![m - 1] = rdB]
      BY <1>5, <3>1 DEF NewBuffer
    <3>3. CASE i = m - 1
      BY <1>5, <3>1, <3>2, <3>3 DEF BufferFilled
    <3>4. CASE i # m - 1
      <4>1. i < m - 1
        BY <1>0, <2>4, <3>4
      <4> QED
        BY <1>5, <3>2, <3>4, <4>1 DEF BufferFilled
    <3> QED
      BY <3>3, <3>4
  <2>5. sb'.in_block_cnt - 1 = m
    BY <1>0, <2>1
  <2>6. /\ \A i \in Lane : i < sb'.in_block_cnt - 1 =>
             sb'.buffer_B[i] = BRow(FetchRow, FetchCol, i)'
        /\ sb'.in_block_cnt - 1 \in Lane =>
             rdB' = BRow(FetchRow, FetchCol, sb.in_block_cnt - 1)'
    <3>1. ASSUME NEW i \in Lane, i < sb'.in_block_cnt - 1
          PROVE  sb'.buffer_B[i] = BRow(FetchRow, FetchCol, i)'
      BY <1>3, <2>1, <2>4, <2>5, <3>1
    <3>2. BRow(FetchRow, FetchCol, sb.in_block_cnt - 1)' = BRow(FetchRow, FetchCol, m)
      BY <2>1, <2>5 DEF BRow, FetchSame
    <3>3. ASSUME sb'.in_block_cnt - 1 \in Lane
          PROVE  rdB' = BRow(FetchRow, FetchCol, sb.in_block_cnt - 1)'
      BY <2>3, <2>5, <3>2, <3>3
    <3> QED
      BY <3>1, <3>3
  <2> QED
    BY <1>1, <1>5, <2>6 DEF BufferFilled
<1>6. CASE sb'.state \in {"WAITING", "LOADING"}
  <2>1. FetchSame /\ sb.state \in {"PREPARING", "WAITING", "LOADING"}
    <3>1. sb.state \in {"PREPARING", "WAITING", "LOADING"}
      BY <1>6 DEF ScatterBMoves, CounterRanges
    <3>2. ~(sb.state = "LOADING" /\ sb'.load_done)
      BY <1>6 DEF ScatterBCounter, HandshakeInv, Loading, Computing, Starting, Streaming, Gathered,
                  ScatterBWaits, CounterRanges
    <3> QED
      BY <1>2, <3>1, <3>2
  <2>2. CASE sb.state = "PREPARING"
    <3>1. m = N + 1
      BY <1>6, <2>2 DEF ScatterBCounter
    <3>2. sb'.buffer_B = sb.buffer_B
      BY <1>0, <3>1 DEF NewBuffer
    <3>3. ASSUME NEW i \in Lane
          PROVE  sb.buffer_B[i] = BRow(FetchRow, FetchCol, i)
      <4>1. i < m - 1
        BY <1>0, <3>1
      <4> QED
        BY <2>2, <4>1 DEF BufferFilled
    <3> QED
      BY <1>1, <1>3, <1>6, <2>1, <3>2, <3>3 DEF BufferFilled
  <2>3. CASE sb.state # "PREPARING"
    <3>1. sb'.buffer_B = sb.buffer_B
      BY <2>3 DEF NewBuffer
    <3> QED
      BY <1>1, <1>3, <1>6, <2>1, <2>3, <3>1 DEF BufferFilled
  <2> QED
    BY <2>2, <2>3
<1>7. CASE sb'.state = "IDLE"
  BY <1>1, <1>7 DEF BufferFilled
<1> QED
  BY <1>4, <1>5, <1>6, <1>7 DEF CounterRanges

\* One column more leaves the buffer, the others move down a row.
LEMMA ArrayShifts ==
  ASSUME NEW r, NEW c, NEW n \in 0 .. N, Shifted(r, c, n), gen' = gen,
         PEPosedge(TRUE, sb.b_ins), NEW m \in Lane, m < n
  PROVE  pe'[m] = BCol(r, c, n - 1 - m)
<1>1. N \in Nat \ {0} /\ Lane = 0 .. N - 1
  BY Sizes DEF Lane
<1>2. pe'[m] = IF m = 0 THEN sb.b_ins ELSE pe[m - 1]
  BY DEF PEPosedge
<1>3. CASE m = 0
  <2>1. n > 0 /\ n - 1 = n - 1 - m
    BY <1>1, <1>3
  <2> QED
    BY <1>2, <1>3, <2>1 DEF Shifted
<1>4. CASE m # 0
  <2>1. m - 1 \in Lane /\ m - 1 < n - 1 /\ n - 2 - (m - 1) = n - 1 - m
    BY <1>1, <1>4
  <2> QED
    BY <1>2, <1>4, <2>1 DEF Shifted
<1> QED
  BY <1>3, <1>4

\* The tile goes from the buffer to the array.
LEMMA ArrayStep ==
  ASSUME Square, NEW start \in BOOLEAN, ClockFacts(start), ScatterBCounts, BufferFilled,
         ArrayLoaded, cc.state # "IDLE", cc'.state # "IDLE", sb.load_cnt \in Lane,
         sb'.b_ins = NewIns, PEPosedge(sb.stationaryCtrl, sb.b_ins), gen' = gen
  PROVE  ArrayLoaded'
<1> USE DEF ClockFacts, ClockCounts
<1> DEFINE l == sb.load_cnt
           R == cc.row_cnt
           C == cc.col_cnt
<1>0. N \in Nat \ {0} /\ Lane = 0 .. N - 1
  BY SquareSizes DEF Lane
<1>1. \A r, c, j : BCol(r, c, j)' = BCol(r, c, j)
  BY DEF BCol
<1>2. ASSUME sb.state = "LOADING"
      PROVE  /\ sb'.b_ins = BCol(R, C, l)
             /\ \A m \in Lane : m < l => pe'[m] = BCol(R, C, l - 1 - m)
             /\ cc'.state = "PREPARING" /\ cc'.row_cnt = R /\ cc'.col_cnt = C
  <2>1. cc.state = "PREPARING" /\ ~sb.load_done
    BY <1>2 DEF HandshakeInv, Loading, Computing, Starting, Streaming, Gathered, ScatterBWaits,
                CounterRanges
  <2>2. FetchRow = R /\ FetchCol = C
    BY <2>1 DEF FetchRow, FetchCol, Ahead
  <2>3. \A i \in Lane : sb.buffer_B[i] = BRow(R, C, i)
    BY <1>2, <2>2 DEF BufferFilled
  <2>4. \A i \in Lane : sb.buffer_B[i][l] = BElem(gen, R, C, i, l)
    BY <2>3, ZenonT(60) DEF BRow
  <2>5. sb'.b_ins = BCol(R, C, l)
    BY <1>2, <2>4 DEF NewIns, BCol
  <2>6. Shifted(R, C, l) /\ sb.stationaryCtrl
    BY <1>2 DEF ArrayLoaded, ScatterBCounts
  <2>7. PEPosedge(TRUE, sb.b_ins)
    BY <2>6 DEF PEPosedge
  <2>8. l \in 0 .. N
    BY <1>0
  <2>9. \A m \in Lane : m < l => pe'[m] = BCol(R, C, l - 1 - m)
    BY <2>6, <2>7, <2>8, ArrayShifts, ZenonT(60)
  <2> QED
    BY <2>1, <2>5, <2>9 DEF ControlMoves, ControlCounts
<1>3. ASSUME sb.state = "LOADING", NEW k, k = l + 1
      PROVE  Shifted(R, C, k)'
  <2>1. k > 0 /\ k - 1 = l /\ \A m \in Lane : k - 2 - m = l - 1 - m
    BY <1>0, <1>3
  <2> QED
    BY <1>1, <1>2, <1>3, <2>1 DEF Shifted
<1>4. sb'.state = "LOADING" => Shifted(cc.row_cnt, cc.col_cnt, sb.load_cnt)'
  <2>1. CASE sb.state = "LOADING" /\ sb'.state = "LOADING"
    <3>1. sb'.load_cnt = l + 1
      BY <2>1 DEF ScatterBCounter
    <3> QED
      BY <1>2, <1>3, <2>1, <3>1 DEF Shifted, BCol
  <2>2. CASE sb.state # "LOADING" /\ sb'.state = "LOADING"
    <3>1. sb'.load_cnt = 0
      BY <2>2 DEF ScatterBCounter, ScatterBCounts
    <3>2. ~(sb'.load_cnt > 0) /\ \A m \in Lane : ~(m < sb'.load_cnt - 1)
      BY <1>0, <3>1
    <3> QED
      BY <3>2 DEF Shifted
  <2> QED
    BY <2>1, <2>2
<1>5. cc'.state = "PREPARING" /\ sb'.load_done => Shifted(cc.row_cnt, cc.col_cnt, N)'
  <2> SUFFICES ASSUME cc'.state = "PREPARING", sb'.load_done
               PROVE  Shifted(cc.row_cnt, cc.col_cnt, N)'
    OBVIOUS
  <2>1. sb.state = "LOADING" /\ l = N - 1
    <3>1. CASE sb.state = "LOADING"
      <4>1. ~sb.load_done
        BY <3>1 DEF HandshakeInv, Loading, Computing, Starting, Streaming, Gathered, ScatterBWaits,
                    CounterRanges
      <4> QED
        BY <3>1, <4>1 DEF ScatterBCounter
    <3>2. CASE sb.state # "LOADING"
      <4>1. sb.load_done
        BY <3>2 DEF ScatterBMoves, CounterRanges
      <4>2. cc.state = "PREPARING"
        BY <4>1 DEF HandshakeInv, Computing, CounterRanges
      <4> QED
        BY <4>1, <4>2 DEF ControlMoves
    <3> QED
      BY <3>1, <3>2
  <2>2. N = l + 1
    BY <1>0, <2>1
  <2>3. Shifted(R, C, N)'
    BY <1>3, <2>1, <2>2
  <2> QED
    BY <1>2, <2>1, <2>3 DEF Shifted, BCol
<1>6. cc'.state = "COMPUTING" => \A m \in Lane : pe'[m] = BCol(cc.row_cnt, cc.col_cnt, N - 1 - m)'
  <2> SUFFICES ASSUME cc'.state = "COMPUTING", NEW m \in Lane
               PROVE  pe'[m] = BCol(cc.row_cnt, cc.col_cnt, N - 1 - m)'
    OBVIOUS
  <2>1. CASE cc.state = "COMPUTING"
    <3>1. ~GatherDone /\ ~sb.stationaryCtrl
      BY <2>1 DEF ControlMoves, HandshakeInv, Computing
    <3>2. pe' = pe /\ cc'.row_cnt = R /\ cc'.col_cnt = C
      BY <3>1 DEF PEPosedge, ControlCounts
    <3> QED
      BY <2>1, <3>2 DEF ArrayLoaded, BCol
  <2>2. CASE cc.state # "COMPUTING"
    <3>1. cc.state = "PREPARING" /\ sb.load_done
      BY <2>2 DEF ControlMoves, CounterRanges
    <3>2. Shifted(R, C, N) /\ sb.stationaryCtrl /\ cc'.row_cnt = R /\ cc'.col_cnt = C
      BY <3>1 DEF ArrayLoaded, ScatterBCounts, ControlCounts
    <3>3. PEPosedge(TRUE, sb.b_ins) /\ N \in 0 .. N /\ m < N
      BY <1>0, <3>2 DEF PEPosedge
    <3>4. pe'[m] = BCol(R, C, N - 1 - m)
      BY <3>2, <3>3, ArrayShifts
    <3> QED
      BY <3>2, <3>4 DEF BCol
  <2> QED
    BY <2>1, <2>2
<1> QED
  BY <1>4, <1>5, <1>6 DEF ArrayLoaded

\* The sums of row y in the buffer after n products each, for column block c.
SumRow(g, y, c, n) == [j \in Lane |-> AddUp(n, Terms(g, y, c * N + (N - 1 - j)))]

\* Without products the sums are empty.
LEMMA ZeroSums ==
  ASSUME NEW g, NEW y, NEW c
  PROVE  SumRow(g, y, c, 0) = ZeroLanes
BY AddUpSteps DEF SumRow, ZeroLanes

\* A cleared buffer holds empty sums.
LEMMA CleanRows ==
  ASSUME Square, NEW y \in BufferRow
  PROVE  CleanBuffer[y] = ZeroLanes /\ DOMAIN CleanBuffer = BufferRow
BY SquareSizes DEF CleanBuffer, BufferRow

\* What the array puts out for row y of A is the part of the sums that
\* belongs to the tile it holds.
LEMMA RowOfArray ==
  ASSUME Square, NEW V, Arithmetic(V), NEW R \in 0 .. Tiles - 1, NEW C \in 0 .. Tiles - 1,
         NEW y \in BufferRow, gen \in Nat, NEW a_in, a_in = ARow(y, R),
         \A m \in Lane : pe[m] = BCol(R, C, N - 1 - m),
         NEW j \in Lane
  PROVE  Add(AddUp(R * N, Terms(gen, y, C * N + (N - 1 - j))), COuts(a_in)[j]) =
           AddUp((R + 1) * N, Terms(gen, y, C * N + (N - 1 - j)))
<1> DEFINE S == A_SIZE_X
           col == C * N + (N - 1 - j)
           f == Terms(gen, y, col)
           e == [k \in Lane |-> PEProduct(j, k, a_in)]
<1>1. /\ N \in Nat \ {0} /\ Tiles \in Nat \ {0} /\ S \in Nat \ {0} /\ S = Tiles * N
      /\ B_SIZE_X = S /\ A_SIZE_Y = S /\ Lane = 0 .. N - 1
  BY SquareSizes DEF Lane
<1>2. N - 1 - j \in Lane /\ j \in 0 .. N - 1
  BY <1>1
<1>3. col \in 0 .. S - 1 /\ y \in 0 .. S - 1
  BY <1>1, <1>2, InTile DEF BufferRow
<1> HIDE DEF col
<1>4. COuts(a_in)[j] = AddUp(N, e)
  BY DEF COuts
<1>5. ASSUME NEW k \in 0 .. S - 1
      PROVE  /\ f[k] = Mul(BData(gen, k * S + col), AData(gen, y * S + k))
             /\ f[k] \in V
  <2>1. f[k] = Mul(BData(gen, k * S + col), AData(gen, y * S + k))
    BY <1>1 DEF Terms
  <2>2. k * S + col \in Nat /\ y * S + k \in Nat
    BY <1>1, <1>3
  <2> QED
    BY <2>1, <2>2 DEF Arithmetic
<1>6. ASSUME NEW k \in Lane
      PROVE  e[k] = f[R * N + k]
  <2>1. R * N + k \in 0 .. S - 1
    BY InTile
  <2>2. f[R * N + k] = Mul(BData(gen, (R * N + k) * S + col), AData(gen, y * S + (R * N + k)))
    BY <1>5, <2>1
  <2>3. pe[j][k] = BData(gen, (R * N + k) * S + col)
    BY <1>2 DEF BCol, BElem, col
  <2>4. a_in[k] = AData(gen, y * S + (R * N + k))
    BY DEF ARow
  <2> QED
    BY <2>2, <2>3, <2>4 DEF PEProduct
<1>7. R * N \in Nat /\ R * N + N <= S /\ (R + 1) * N = R * N + N
  <2>1. N - 1 \in Lane
    BY <1>1
  <2>2. R * N + (N - 1) \in 0 .. S - 1
    BY <2>1, InTile
  <2>3. R * N \in Nat /\ (R + 1) * N = R * N + N
    BY <1>1
  <2> QED
    BY <1>1, <2>2, <2>3
<1> HIDE DEF f, e, S
<1>8. PICK b \in Nat : b = R * N
  BY <1>7
<1>9. PartOf(e, f, b, N, V)
  <2>1. ASSUME NEW k \in 0 .. b + N - 1
        PROVE  f[k] \in V
    <3>1. k \in 0 .. S - 1
      BY <1>1, <1>7, <1>8
    <3> QED
      BY <1>5, <3>1
  <2>2. ASSUME NEW k \in 0 .. N - 1
        PROVE  e[k] = f[b + k]
    BY <1>1, <1>6, <1>8
  <2> QED
    BY <2>1, <2>2 DEF PartOf
<1>10. Add(AddUp(R * N, f), AddUp(N, e)) = AddUp(R * N + N, f)
  <2>1. N \in Nat
    BY <1>1
  <2>2. ASSUME NEW u, NEW v, PartOf(u, v, b, N, V)
        PROVE  Add(AddUp(b, v), AddUp(N, u)) = AddUp(b + N, v)
    BY <2>1, <2>2, AddUpBlock
  <2>3. Add(AddUp(b, f), AddUp(N, e)) = AddUp(b + N, f)
    BY <1>9, <2>2, Zenon
  <2> QED
    BY <1>8, <2>3
<1>11. Add(AddUp(R * N, f), COuts(a_in)[j]) = AddUp((R + 1) * N, f)
  BY <1>4, <1>7, <1>10
<1> QED
  BY <1>11 DEF f, col

\* The buffer by rows.
LEMMA SumsByRow ==
  Sums <=> /\ DOMAIN cbuf = BufferRow
           /\ \A y \in BufferRow : cbuf[y] = SumRow(gen, y, cc.col_cnt, Summed(y))
BY DEF Sums, SumRow

\* The row of A on the inputs of the array is added to its row of the buffer.
LEMMA RowAdded ==
  ASSUME Square, NEW V, Arithmetic(V), RowOnInputs, ArrayLoaded, Sums, ScatterACounts,
         cc.state = "COMPUTING", gr.state = "GATHERING", gr.in_block_cnt \in 1 .. A_SIZE_Y,
         cc.row_cnt \in 0 .. Tiles - 1, cc.col_cnt \in 0 .. Tiles - 1, gen \in Nat,
         NEW y \in BufferRow, y = gr.in_block_cnt - 1
  PROVE  [j \in Lane |-> Add(cbuf[y][j], COuts(AIn(rdA))[j])] =
           SumRow(gen, y, cc.col_cnt, (cc.row_cnt + 1) * N)
<1>1. AIn(rdA) = ARow(y, cc.row_cnt)
  BY DEF RowOnInputs, ScatterACounts, AIn
<1>2. Summed(y) = cc.row_cnt * N
  <2>1. ~(y < gr.in_block_cnt - 1)
    BY SquareSizes
  <2> QED
    BY <2>1 DEF Summed
<1>3. cbuf[y] = SumRow(gen, y, cc.col_cnt, cc.row_cnt * N)
  BY <1>2, SumsByRow
<1>4. \A m \in Lane : pe[m] = BCol(cc.row_cnt, cc.col_cnt, N - 1 - m)
  BY DEF ArrayLoaded
<1>5. ASSUME NEW j \in Lane
      PROVE  Add(cbuf[y][j], COuts(AIn(rdA))[j]) =
               AddUp((cc.row_cnt + 1) * N, Terms(gen, y, cc.col_cnt * N + (N - 1 - j)))
  <2>1. cbuf[y][j] = AddUp(cc.row_cnt * N, Terms(gen, y, cc.col_cnt * N + (N - 1 - j)))
    BY <1>3 DEF SumRow
  <2> QED
    BY <1>1, <1>4, <2>1, RowOfArray
<1> QED
  BY <1>5 DEF SumRow

\* No row is missed, none is added twice, and none is left from an earlier column.
LEMMA SumsStep ==
  ASSUME Square, NEW V, Arithmetic(V), NEW start \in BOOLEAN, ClockFacts(start),
         GatherCounts, ScatterACounts, RowOnInputs, ArrayLoaded, Sums,
         cc.row_cnt \in 0 .. Tiles - 1, cc.col_cnt \in 0 .. Tiles - 1, gen \in Nat,
         BufferPosedge(COuts(AIn(rdA))), gen' = gen
  PROVE  Sums'
<1> USE DEF ClockFacts, ClockCounts
<1> DEFINE R == cc.row_cnt
           C == cc.col_cnt
           m == gr.in_block_cnt
<1>0. /\ N \in Nat \ {0} /\ A_SIZE_Y \in Nat \ {0} /\ BufferRow = 0 .. A_SIZE_Y - 1
      /\ R \in Nat /\ m \in 0 .. A_SIZE_Y + 1
  BY SquareSizes DEF BufferRow, CounterRanges
<1>1. ASSUME cbuf' = CleanBuffer, \A y \in BufferRow : Summed(y)' = 0
      PROVE  Sums'
  <2>1. ASSUME NEW y \in BufferRow
        PROVE  cbuf'[y] = SumRow(gen, y, cc.col_cnt, Summed(y))'
    BY <1>1, CleanRows, ZeroSums DEF SumRow
  <2>2. DOMAIN cbuf' = BufferRow
    BY <1>0, <1>1 DEF CleanBuffer
  <2>3. \A y \in BufferRow : cbuf'[y] = SumRow(gen, y, cc.col_cnt, Summed(y))'
    BY <2>1
  <2> QED
    BY <2>2, <2>3 DEF Sums, SumRow
<1>2. ASSUME cbuf' = cbuf, cc'.col_cnt = C, \A y \in BufferRow : Summed(y)' = Summed(y)
      PROVE  Sums'
  <2>1. ASSUME NEW y \in BufferRow
        PROVE  cbuf'[y] = SumRow(gen, y, cc.col_cnt, Summed(y))'
    BY <1>2, SumsByRow DEF SumRow
  <2> QED
    BY <1>2, <2>1 DEF Sums, SumRow
<1>3. CASE gr.state = "IDLE"
  <2>1. R = 0 /\ cbuf' = CleanBuffer
    BY <1>3 DEF GatherCounts, BufferPosedge
  <2>2. ~GatherDone
    BY <1>3, DoneIsGathered
  <2>3. cc'.row_cnt = 0
    BY <2>1, <2>2 DEF ControlCounts
  <2>4. gr'.state = "GATHERING" => gr'.in_block_cnt = 0
    <3>1. m = 0
      BY <1>3 DEF HandshakeInv, AtRest, Loading, Computing, Starting, Streaming, Gathered,
                  GatherQuiet,
                  CounterRanges
    <3> QED
      BY <1>3, <3>1 DEF ReceiveMoves
  <2>5. gr'.state \in {"IDLE", "GATHERING"}
    BY <1>3 DEF ReceiveMoves
  <2>6. ASSUME NEW y \in BufferRow
        PROVE  Summed(y)' = 0
    <3>1. 0 * N = 0 /\ ~(y < 0 - 1)
      BY <1>0
    <3> QED
      BY <2>3, <2>4, <2>5, <3>1 DEF Summed
  <2> QED
    BY <1>1, <2>1, <2>6
<1>4. CASE cc.state # "COMPUTING" /\ gr.state # "IDLE"
  <2>1. gr.state = "WAITING" /\ gw.bram_state = "IDLE" /\ cc.state = "PREPARING"
    BY <1>4 DEF HandshakeInv, AtRest, Loading, GatherQuiet, GatherCounts, CounterRanges
  <2>2. cbuf' = cbuf
    BY <2>1 DEF BufferPosedge
  <2>3. cc'.row_cnt = R /\ cc'.col_cnt = C /\ (cc'.state = "COMPUTING" => cc'.start_cal)
    BY <2>1 DEF ControlCounts, ControlMoves
  <2>4. ~GatherDone /\ ~cc.start_cal
    BY <1>4, DoneIsGathered DEF HandshakeInv
  <2>5. gr'.state # "GATHERING"
    BY <2>1, <2>4 DEF ReceiveMoves
  <2>6. ASSUME NEW y \in BufferRow
        PROVE  Summed(y)' = Summed(y)
    BY <1>4, <2>3, <2>5 DEF Summed
  <2> QED
    BY <1>2, <2>2, <2>3, <2>6
<1>5. CASE cc.state = "COMPUTING" /\ Starting /\ gr.state # "IDLE"
  <2>1. gr.state = "WAITING" /\ gw.bram_state = "IDLE" /\ m = 0 /\ cc.start_cal
    BY <1>5 DEF Starting, GatherQuiet
  <2>2. ~GatherDone
    BY <2>1, <1>5 DEF GatherDone, Starting, GatherQuiet
  <2>3. cbuf' = cbuf
    BY <2>1 DEF BufferPosedge
  <2>4. cc'.row_cnt = R /\ cc'.col_cnt = C /\ cc'.state = "COMPUTING"
    BY <1>5, <2>2 DEF ControlCounts, ControlMoves
  <2>5. gr'.state = "GATHERING" /\ gr'.in_block_cnt = 0
    BY <2>1, <2>2 DEF ReceiveMoves
  <2>6. ASSUME NEW y \in BufferRow
        PROVE  Summed(y)' = Summed(y)
    <3>1. ~(y < 0 - 1)
      BY <1>0
    <3>2. Summed(y) = R * N
      BY <1>5, <2>1 DEF Summed
    <3> QED
      BY <2>4, <2>5, <3>1, <3>2 DEF Summed
  <2> QED
    BY <1>2, <2>3, <2>4, <2>6
<1>6. CASE cc.state = "COMPUTING" /\ Streaming
  <2>1. ~GatherDone /\ ~cc.start_cal /\ gr.state = "GATHERING" /\ gw.bram_state = "IDLE"
    BY <1>6 DEF GatherDone, Streaming
  <2>2. cc'.row_cnt = R /\ cc'.col_cnt = C /\ cc'.state = "COMPUTING" /\ ~cc'.start_cal
    BY <1>6, <2>1 DEF ControlCounts, ControlMoves
  <2>3. CASE m = A_SIZE_Y + 1
    <3>1. gr'.state = "WAITING" /\ ~(m - 1 \in BufferRow)
      BY <1>0, <2>1, <2>3 DEF ReceiveMoves
    <3>2. cbuf' = cbuf
      BY <2>1, <3>1 DEF BufferPosedge
    <3>3. ASSUME NEW y \in BufferRow
          PROVE  Summed(y)' = Summed(y)
      <4>1. y < m - 1
        BY <1>0, <2>3
      <4> QED
        BY <1>6, <2>1, <2>2, <3>1, <4>1 DEF Summed
    <3> QED
      BY <1>2, <2>2, <3>2, <3>3
  <2>4. CASE m = 0
    <3>1. gr'.state = "GATHERING" /\ gr'.in_block_cnt = 1 /\ ~(m - 1 \in BufferRow)
      BY <1>0, <2>1, <2>4 DEF ReceiveMoves
    <3>2. cbuf' = cbuf
      BY <2>1, <3>1 DEF BufferPosedge
    <3>3. ASSUME NEW y \in BufferRow
          PROVE  Summed(y)' = Summed(y)
      <4>1. ~(y < 0 - 1) /\ ~(y < 1 - 1)
        BY <1>0
      <4> QED
        BY <1>6, <2>1, <2>2, <2>4, <3>1, <4>1 DEF Summed
    <3> QED
      BY <1>2, <2>2, <3>2, <3>3
  <2>5. CASE m \in 1 .. A_SIZE_Y
    <3>1. gr'.state = "GATHERING" /\ gr'.in_block_cnt = m + 1 /\ m - 1 \in BufferRow
      BY <1>0, <2>1, <2>5 DEF ReceiveMoves
    <3>2. cbuf' = [cbuf EXCEPT ![m - 1] = [j \in Lane |-> Add(cbuf[m - 1][j], COuts(AIn(rdA))[j])]]
      BY <2>1, <3>1, Zenon DEF BufferPosedge
    <3>3. DOMAIN cbuf = BufferRow /\ DOMAIN cbuf' = BufferRow
      BY <3>2 DEF Sums
    <3>4. ASSUME NEW y \in BufferRow
          PROVE  cbuf'[y] = SumRow(gen, y, cc.col_cnt, Summed(y))'
      <4>1. CASE y = m - 1
        <5>1. cbuf'[y] = [j \in Lane |-> Add(cbuf[y][j], COuts(AIn(rdA))[j])]
          BY <3>2, <3>3, <4>1
        <5>2. cbuf'[y] = SumRow(gen, y, C, (R + 1) * N)
          BY <1>6, <2>1, <2>5, <4>1, <5>1, RowAdded
        <5>3. y < (m + 1) - 1
          BY <1>0, <4>1
        <5>4. Summed(y)' = (R + 1) * N
          BY <2>2, <3>1, <5>3 DEF Summed
        <5> QED
          BY <2>2, <5>2, <5>4 DEF SumRow
      <4>2. CASE y # m - 1
        <5>1. cbuf'[y] = cbuf[y]
          BY <3>2, <3>3, <4>2
        <5>2. y < (m + 1) - 1 <=> y < m - 1
          BY <1>0, <4>2
        <5>3. Summed(y)' = Summed(y)
          BY <1>6, <2>1, <2>2, <3>1, <5>2 DEF Summed
        <5> QED
          BY <2>2, <5>1, <5>3, SumsByRow DEF SumRow
      <4> QED
        BY <4>1, <4>2
    <3> QED
      BY <3>3, <3>4 DEF Sums, SumRow
  <2> QED
    BY <1>0, <2>3, <2>4, <2>5
<1>7. CASE cc.state = "COMPUTING" /\ Gathered /\ ~GatherDone
  <2>1. gr.state = "WAITING" /\ gw.bram_state # "CLEANING" /\ ~cc.start_cal
    BY <1>7 DEF Gathered, GatherDone
  <2>2. cbuf' = cbuf
    BY <2>1 DEF BufferPosedge
  <2>3. cc'.row_cnt = R /\ cc'.col_cnt = C /\ cc'.state = "COMPUTING" /\ ~cc'.start_cal
    BY <1>7 DEF ControlCounts, ControlMoves
  <2>4. gr'.state = "WAITING"
    BY <1>7, <2>1 DEF ReceiveMoves
  <2>5. ASSUME NEW y \in BufferRow
        PROVE  Summed(y)' = Summed(y)
    BY <1>7, <2>1, <2>3, <2>4 DEF Summed
  <2> QED
    BY <1>2, <2>2, <2>3, <2>5
<1>8. CASE cc.state = "COMPUTING" /\ Gathered /\ GatherDone
  <2>1. /\ gr.state = "WAITING" /\ ~cc.start_cal /\ cc'.state # "COMPUTING"
        /\ cc'.row_cnt = RowAfter(R) /\ cc'.col_cnt = ColAfter(R, C)
    BY <1>8 DEF Gathered, ControlCounts
  <2>2. \A y \in BufferRow : Summed(y)' = RowAfter(R) * N
    BY <2>1 DEF Summed
  <2>3. CASE gw.bram_state = "CLEANING"
    <3>1. ~gr.recieve_done /\ cbuf' = CleanBuffer
      BY <1>8, <2>3 DEF Gathered, BufferPosedge
    <3>2. RowAfter(R) = 0
      BY <1>8, <2>1, <3>1 DEF GatherCounts, RowAfter
    <3>3. 0 * N = 0
      BY <1>0
    <3> QED
      BY <1>1, <2>2, <3>1, <3>2, <3>3
  <2>4. CASE gw.bram_state # "CLEANING"
    <3>1. gr.recieve_done /\ ~gr.write_back /\ cbuf' = cbuf
      BY <1>8, <2>1, <2>4 DEF GatherDone, BufferPosedge
    <3>2. R # Tiles - 1
      BY <1>8, <2>1, <3>1 DEF GatherCounts
    <3>3. RowAfter(R) = R + 1 /\ cc'.col_cnt = C
      BY <2>1, <3>2 DEF RowAfter, ColAfter
    <3>4. \A y \in BufferRow : Summed(y) = (R + 1) * N
      BY <1>8, <2>1 DEF Summed
    <3> QED
      BY <1>2, <2>2, <3>1, <3>3, <3>4
  <2> QED
    BY <2>3, <2>4
<1> QED
  BY <1>3, <1>4, <1>5, <1>6, <1>7, <1>8 DEF HandshakeInv, Computing
-----------------------------------------------------------------------------
(***************************************************************************)
(* The C RAM.                                                              *)
(***************************************************************************)
\* Row, column of tiles and lane of an element of C.
At(x, y, c, j) ==
  /\ x \div A_SIZE_X = y /\ (x % A_SIZE_X) \div N = c /\ x % N = j
  /\ x \div N = y * Tiles + c /\ MirrorColumn(x % A_SIZE_X) = c * N + (N - 1 - j)

\* Every element has them.
LEMMA Coordinates ==
  ASSUME Square, NEW x \in Cells
  PROVE  \E y \in BufferRow, c \in 0 .. Tiles - 1, j \in Lane : At(x, y, c, j)
<1> DEFINE S == A_SIZE_X
<1>1. /\ N \in Nat \ {0} /\ Tiles \in Nat \ {0} /\ S \in Nat \ {0} /\ S = Tiles * N
      /\ BufferRow = 0 .. S - 1 /\ Lane = 0 .. N - 1 /\ x \in 0 .. S * S - 1
  BY SquareSizes DEF BufferRow, Lane, Cells
<1>2. x \in Nat
  BY <1>1
<1> HIDE DEF S
<1>3. PICK y \in Nat, k \in 0 .. S - 1 : x \div S = y /\ x % S = k /\ x = S * y + k
  <2>0. S \in Nat \ {0}
    BY <1>1
  <2>1. x \div S \in Nat /\ x % S \in 0 .. S - 1 /\ x = S * (x \div S) + (x % S)
    BY <2>0, <1>2
  <2> QED
    BY <2>1
<1>4. PICK c \in Nat, j \in 0 .. N - 1 : k \div N = c /\ k % N = j /\ k = N * c + j
  <2>1. k \div N \in Nat /\ k % N \in 0 .. N - 1 /\ k = N * (k \div N) + (k % N)
    BY <1>1
  <2> QED
    BY <2>1
<1>5. y \in 0 .. S - 1
  <2> SUFFICES ASSUME ~(y < S) PROVE FALSE
    BY <1>1
  <2>1. PICK w \in Nat : y = S + w
    <3>1. y - S \in Nat /\ y = S + (y - S)
      BY <1>1
    <3> QED
      BY <3>1
  <2>2. S * y = S * S + S * w /\ S * w \in Nat /\ S * S \in Nat
    BY <1>1, <2>1
  <2> QED
    BY <1>1, <1>3, <2>2
<1>6. c \in 0 .. Tiles - 1
  <2> SUFFICES ASSUME ~(c < Tiles) PROVE FALSE
    BY <1>1
  <2>1. PICK w \in Nat : c = Tiles + w
    <3>1. c - Tiles \in Nat /\ c = Tiles + (c - Tiles)
      BY <1>1
    <3> QED
      BY <3>1
  <2>2. N * c = Tiles * N + N * w /\ N * w \in Nat
    BY <1>1, <2>1
  <2> QED
    BY <1>1, <1>4, <2>2
<1>7. x % N = j /\ x \div N = y * Tiles + c
  <2>1. S * y = (y * Tiles) * N /\ N * c = c * N /\ y * Tiles \in Nat
    BY <1>1
  <2>2. (y * Tiles + c) * N = (y * Tiles) * N + c * N
    BY <1>1, <2>1
  <2>3. PICK q \in Nat : q = y * Tiles + c
    BY <2>1
  <2>4. q * N = (y * Tiles) * N + c * N /\ (y * Tiles) * N \in Nat /\ c * N \in Nat
    BY <1>1, <2>1, <2>2, <2>3
  <2>5. x = q * N + j
    BY <1>3, <1>4, <2>1, <2>4
  <2>6. N \in Nat \ {0}
    BY <1>1
  <2>7. x \div N = q /\ x % N = j
    BY <2>5, <2>6, DivUnique
  <2> QED
    BY <2>3, <2>7
<1>8. MirrorColumn(k) = c * N + (N - 1 - j)
  BY <1>4 DEF MirrorColumn
<1>9. At(x, y, c, j)
  BY <1>3, <1>4, <1>7, <1>8 DEF At, S
<1> QED
  BY <1>1, <1>5, <1>6, <1>9

\* The word gather_c writes holds the elements of one row and one column of tiles.
LEMMA WordOf ==
  ASSUME Square, NEW x \in Cells, NEW w \in BufferRow, NEW C \in 0 .. Tiles - 1,
         NEW y \in BufferRow, NEW c \in 0 .. Tiles - 1, NEW j \in Lane, At(x, y, c, j)
  PROVE  x \div N = (w * B_SIZE_X + C * N) \div N <=> y = w /\ c = C
<1>1. /\ N \in Nat \ {0} /\ Tiles \in Nat \ {0} /\ B_SIZE_X = Tiles * N
      /\ y \in Nat /\ w \in Nat /\ 0 \in Lane
  BY SquareSizes DEF BufferRow, Lane
<1>2. PICK q \in Nat : q = w * Tiles + C
  <2>1. w * Tiles \in Nat
    BY <1>1
  <2> QED
    BY <2>1
<1>3. w * B_SIZE_X + C * N = q * N
  <2>1. w * B_SIZE_X = (w * Tiles) * N /\ w * Tiles \in Nat
    BY <1>1
  <2>2. (w * Tiles + C) * N = (w * Tiles) * N + C * N
    BY <1>1, <2>1
  <2> QED
    BY <1>2, <2>1, <2>2
<1>4. (w * B_SIZE_X + C * N) \div N = w * Tiles + C
  BY <1>1, <1>2, <1>3, WordAddr
<1>5. x \div N = y * Tiles + c
  BY DEF At
<1>6. ASSUME y * Tiles + c = w * Tiles + C
      PROVE  y = w /\ c = C
  <2>1. (w * Tiles + C) \div Tiles = w /\ (w * Tiles + C) % Tiles = C
    BY <1>1, DivUnique
  <2>2. (y * Tiles + c) \div Tiles = y /\ (y * Tiles + c) % Tiles = c
    BY <1>1, DivUnique
  <2> QED
    BY <1>6, <2>1, <2>2
<1> QED
  BY <1>4, <1>5, <1>6

\* What the port of the C RAM does to an element.
LEMMA WordWritten ==
  ASSUME Square, ramC = [x \in Cells |-> ramC[x]], RamPosedge,
         gw.write_back_cnt \in BufferRow, gr.col_cnt \in 0 .. Tiles - 1
  PROVE  /\ ramC' = [x \in Cells |-> ramC'[x]]
         /\ gw.bram_state # "WRITING" => ramC' = ramC
         /\ gw.bram_state = "WRITING" =>
              \A x \in Cells, y \in BufferRow, c \in 0 .. Tiles - 1, j \in Lane :
                At(x, y, c, j) =>
                  ramC'[x] = IF y = gw.write_back_cnt /\ c = gr.col_cnt
                             THEN cbuf[y][j] ELSE ramC[x]
<1>1. DOMAIN ramC = Cells
  OBVIOUS
<1>2. gw.bram_state # "WRITING" => ramC' = ramC
  BY DEF RamPosedge, GatherCWe
<1>3. ASSUME gw.bram_state = "WRITING"
      PROVE  ramC' = [x \in Cells |-> IF x \div N = GatherCAddr THEN cbuf[gw.write_back_cnt][x % N]
                                                                ELSE ramC[x]]
  BY <1>1, <1>3 DEF RamPosedge, GatherCWe, WriteWord, GatherCData
<1>4. ramC' = [x \in Cells |-> ramC'[x]]
  BY <1>2, <1>3
<1>5. ASSUME gw.bram_state = "WRITING", NEW x \in Cells, NEW y \in BufferRow,
             NEW c \in 0 .. Tiles - 1, NEW j \in Lane, At(x, y, c, j)
      PROVE  ramC'[x] = IF y = gw.write_back_cnt /\ c = gr.col_cnt
                        THEN cbuf[y][j] ELSE ramC[x]
  <2>1. x \div N = GatherCAddr <=> y = gw.write_back_cnt /\ c = gr.col_cnt
    BY <1>5, WordOf DEF GatherCAddr
  <2>2. x % N = j
    BY <1>5 DEF At
  <2> QED
    BY <1>3, <1>5, <2>1, <2>2
<1> QED
  BY <1>2, <1>4, <1>5

\* A full sum is the element of the product that belongs in its place.
LEMMA FullSum ==
  ASSUME Square, NEW x \in Cells, NEW y \in BufferRow, NEW c \in 0 .. Tiles - 1, NEW j \in Lane,
         At(x, y, c, j), NEW g
  PROVE  SumRow(g, y, c, A_SIZE_X)[j] = Wanted(g, x)
BY SquareSizes DEF SumRow, Wanted, ProductAt, At

\* Every row of the buffer is written back, in its place.
LEMMA ColumnsStep ==
  ASSUME Square, NEW start \in BOOLEAN, ClockFacts(start), GatherCounts, Sums, Columns,
         cc.row_cnt \in 0 .. Tiles - 1, cc.col_cnt \in 0 .. Tiles - 1,
         gw.write_back_cnt \in BufferRow, RamPosedge, gen' = gen
  PROVE  Columns'
<1> USE DEF ClockFacts, ClockCounts
<1> DEFINE R == cc.row_cnt
           C == cc.col_cnt
           w == gw.write_back_cnt
<1>0. /\ Tiles \in Nat \ {0} /\ w \in Nat /\ BufferRow = 0 .. A_SIZE_Y - 1 /\ A_SIZE_Y \in Nat
      /\ BufferRow \subseteq Nat
  BY SquareSizes DEF BufferRow
<1>1. gr.col_cnt = C
  BY DEF GatherCounts
<1>2. /\ ramC' = [x \in Cells |-> ramC'[x]]
      /\ gw.bram_state # "WRITING" => ramC' = ramC
      /\ gw.bram_state = "WRITING" =>
           \A x \in Cells, y \in BufferRow, c \in 0 .. Tiles - 1, j \in Lane :
             At(x, y, c, j) =>
               ramC'[x] = IF y = w /\ c = C THEN cbuf[y][j] ELSE ramC[x]
  BY <1>1, WordWritten DEF Columns
<1>3. ASSUME \A x \in Cells, y \in BufferRow, c \in 0 .. Tiles - 1, j \in Lane :
               At(x, y, c, j) /\ Written(y, c)' => ramC'[x] = Wanted(gen, x),
             cc'.Finish => \A x \in Cells : ramC'[x] = Wanted(gen, x)
      PROVE  Columns'
  <2>1. ASSUME NEW x \in Cells, Written(x \div A_SIZE_X, (x % A_SIZE_X) \div N)'
        PROVE  ramC'[x] = Wanted(gen, x)
    <3>1. PICK y \in BufferRow, c \in 0 .. Tiles - 1, j \in Lane : At(x, y, c, j)
      BY Coordinates
    <3>2. Written(y, c)'
      BY <2>1, <3>1 DEF At, Written
    <3> QED
      BY <1>3, <3>1, <3>2
  <2> QED
    BY <1>2, <1>3, <2>1 DEF Columns
<1>4. ASSUME NEW x \in Cells, NEW y \in BufferRow, NEW c \in 0 .. Tiles - 1, NEW j \in Lane,
             At(x, y, c, j), Written(y, c)
      PROVE  ramC[x] = Wanted(gen, x)
  BY <1>4 DEF Columns, At
<1>5. CASE gw.bram_state = "WRITING"
  <2>1. cc.state = "COMPUTING" /\ Gathered /\ ~GatherDone /\ gr.state = "WAITING" /\ ~cc.start_cal
        /\ ~gr.recieve_done
    BY <1>5 DEF HandshakeInv, AtRest, Loading, Computing, Starting, Streaming, Gathered,
                GatherQuiet,
                GatherDone, CounterRanges
  <2>2. R = Tiles - 1
    BY <2>1 DEF GatherCounts
  <2>3. cc'.state = "COMPUTING" /\ cc'.col_cnt = C /\ ~cc'.Finish
    BY <2>1 DEF ControlCounts, ControlMoves
  <2>4. ASSUME NEW x \in Cells, NEW y \in BufferRow, NEW c \in 0 .. Tiles - 1, NEW j \in Lane,
               At(x, y, c, j), Written(y, c)'
        PROVE  ramC'[x] = Wanted(gen, x)
    <3>1. CASE y = w /\ c = C
      <4>1. ramC'[x] = cbuf[y][j]
        BY <1>2, <1>5, <2>4, <3>1
      <4>2. (R + 1) * N = A_SIZE_X
        BY <2>2, SquareSizes
      <4>3. Summed(y) = A_SIZE_X
        BY <2>1, <4>2 DEF Summed
      <4>4. cbuf[y] = SumRow(gen, y, c, A_SIZE_X)
        BY <3>1, <4>3, SumsByRow
      <4> QED
        BY <2>4, <4>1, <4>4, FullSum
    <3>2. CASE ~(y = w /\ c = C)
      <4>1. ramC'[x] = ramC[x]
        BY <1>2, <1>5, <2>4, <3>2
      <4>2. c < C \/ (c = C /\ y < w)
        <5>1. c < C \/ c = C
          BY <2>3, <2>4 DEF Written
        <5>2. CASE w = A_SIZE_Y - 1
          <6>1. y < w \/ y = w
            BY <1>0, <5>2
          <6> QED
            BY <3>2, <5>1, <6>1
        <5>3. CASE w # A_SIZE_Y - 1
          <6>1. gw'.bram_state = "WRITING" /\ gw'.write_back_cnt = w + 1
            BY <1>5, <5>3 DEF WriteBackCounts
          <6>2. c < C \/ y < w + 1
            BY <2>3, <2>4, <6>1 DEF Written
          <6>3. y < w + 1 => y < w \/ y = w
            BY <1>0
          <6> QED
            BY <3>2, <5>1, <6>2, <6>3
        <5> QED
          BY <5>2, <5>3
      <4>3. Written(y, c)
        BY <1>5, <2>1, <4>2 DEF Written
      <4> QED
        BY <1>4, <2>4, <4>1, <4>3
    <3> QED
      BY <3>1, <3>2
  <2> QED
    BY <1>3, <2>3, <2>4
<1>6. CASE gw.bram_state # "WRITING" /\ ~GatherDone
  <2>1. ramC' = ramC /\ cc'.col_cnt = C
    BY <1>2, <1>6 DEF ControlCounts
  <2>2. gw'.bram_state = "WRITING" \/ gw'.bram_state = "IDLE"
    BY <1>6 DEF WriteBackMoves, GatherDone, HandshakeInv, AtRest, Loading, Computing, Starting,
                Streaming, Gathered, GatherQuiet, CounterRanges
  <2>3. gw'.bram_state = "WRITING" => gw'.write_back_cnt = 0
    <3> SUFFICES ASSUME gw'.bram_state = "WRITING" PROVE gw'.write_back_cnt = 0
      OBVIOUS
    <3>1. gw.bram_state = "IDLE" /\ gr.write_back /\ w = 0
      BY <1>6 DEF WriteBackMoves, GatherCounts
    <3> QED
      BY <3>1 DEF WriteBackCounts
  <2>4. ASSUME NEW y \in BufferRow, NEW c \in 0 .. Tiles - 1, Written(y, c)'
        PROVE  Written(y, c)
    <3>1. ~(y < 0)
      BY <1>0
    <3>2. c < C
      BY <2>1, <2>2, <2>3, <2>4, <3>1 DEF Written
    <3>3. cc.state # "IDLE"
      <4> SUFFICES ASSUME cc.state = "IDLE" PROVE FALSE
        OBVIOUS
      <4>1. C = 0
        BY DEF GatherCounts
      <4> QED
        BY <3>2, <4>1
    <3> QED
      BY <3>2, <3>3 DEF Written
  <2>5. cc'.Finish => cc.Finish
    BY <1>6 DEF ControlCounts
  <2> QED
    BY <1>3, <1>4, <2>1, <2>4, <2>5 DEF Columns
<1>7. CASE GatherDone
  <2>1. cc.state = "COMPUTING" /\ Gathered /\ gr.state = "WAITING" /\ ~cc.start_cal
    BY <1>7, DoneIsGathered DEF Gathered
  <2>2. gw.bram_state # "WRITING"
    BY <1>7, <2>1 DEF Gathered, GatherDone
  <2>3. ramC' = ramC
    BY <1>2, <2>2
  <2>4. R = Tiles - 1 => gw.bram_state = "CLEANING"
    BY <1>7, <2>1 DEF GatherDone, GatherCounts
  <2>5. cc'.col_cnt = ColAfter(R, C) /\ cc'.state # "COMPUTING"
    BY <1>7, <2>1 DEF ControlCounts
  <2>6. ASSUME NEW y \in BufferRow, NEW c \in 0 .. Tiles - 1, Written(y, c)'
        PROVE  Written(y, c)
    <3>1. cc'.state # "IDLE" /\ c < ColAfter(R, C)
      BY <2>5, <2>6 DEF Written
    <3>2. ~IsLast(R, C)
      BY <1>7, <2>1, <3>1 DEF ControlCounts
    <3>3. CASE R # Tiles - 1
      BY <2>1, <3>1, <3>3 DEF ColAfter, Written
    <3>4. CASE R = Tiles - 1
      <4>1. c < C + 1
        BY <3>1, <3>2, <3>4 DEF ColAfter, IsLast
      <4>2. c < C \/ c = C
        BY <1>0, <4>1
      <4> QED
        BY <2>1, <2>4, <3>4, <4>2 DEF Written
    <3> QED
      BY <3>3, <3>4
  <2>7. ASSUME cc'.Finish, NEW x \in Cells
        PROVE  ramC'[x] = Wanted(gen, x)
    <3>1. IsLast(R, C)
      BY <1>7, <2>1, <2>7 DEF ControlCounts
    <3>2. PICK y \in BufferRow, c \in 0 .. Tiles - 1, j \in Lane : At(x, y, c, j)
      BY Coordinates
    <3>3. R = Tiles - 1 /\ (c < C \/ c = C)
      BY <1>0, <3>1 DEF IsLast
    <3>4. Written(y, c)
      BY <2>1, <2>4, <3>3 DEF Written
    <3> QED
      BY <1>4, <2>3, <3>2, <3>4
  <2> QED
    BY <1>3, <1>4, <2>3, <2>6, <2>7
<1> QED
  BY <1>5, <1>6, <1>7
-----------------------------------------------------------------------------
(***************************************************************************)
(* The whole accelerator.                                                  *)
(***************************************************************************)
\* The ranges of the counters of tiles.
LEMMA TileRanges ==
  ASSUME Square, TypeOK
  PROVE  /\ cc.row_cnt \in 0 .. Tiles - 1 /\ cc.col_cnt \in 0 .. Tiles - 1
         /\ sb.row_cnt \in 0 .. Tiles - 1 /\ sb.col_cnt \in 0 .. Tiles - 1
         /\ gr.col_cnt \in 0 .. Tiles - 1 /\ sb.load_cnt \in Lane
         /\ gw.write_back_cnt \in BufferRow /\ gen \in Nat
<1>1. gen \in Nat
  BY BoundAssumption DEF TypeOK
<1> QED
  BY <1>1, SquareSizes DEF TypeOK, ControlType, ScatterBType, ReceiveType, WriteBackType

\* One clock.
LEMMA DataClock ==
  ASSUME Square, NEW V, Arithmetic(V), TypeOK, HandshakeInv, DataInv,
         NEW start \in BOOLEAN, Clock(start)
  PROVE  DataInv'
<1>1. ClockFacts(start)
  BY ClockGives
<1>2. /\ sb'.buffer_B = NewBuffer(rdB) /\ sb'.b_ins = NewIns
      /\ BufferPosedge(COuts(AIn(rdA)))
      /\ PEPosedge(sb.stationaryCtrl, sb.b_ins) /\ RamPosedge
      /\ gen' = gen
  BY ClockCounter
<1>3. /\ GatherCounts /\ ScatterACounts /\ ScatterBCounts /\ RamsHold /\ RowOnInputs
      /\ BufferFilled /\ ArrayLoaded /\ Sums /\ Columns
  BY DEF DataInv, CountInv
<1>4. /\ cc.row_cnt \in 0 .. Tiles - 1 /\ cc.col_cnt \in 0 .. Tiles - 1
      /\ sb.row_cnt \in 0 .. Tiles - 1 /\ sb.col_cnt \in 0 .. Tiles - 1
      /\ gr.col_cnt \in 0 .. Tiles - 1 /\ sb.load_cnt \in Lane
      /\ gw.write_back_cnt \in BufferRow /\ gen \in Nat
  BY TileRanges
<1>5. GatherCounts' /\ ScatterACounts'
  BY <1>1, <1>3, <1>4, GatherCountsStep, ScatterACountsStep
<1>6. ScatterBCounts'
  BY <1>1, <1>3, ScatterBIdleStep, ScatterBCountsStep
<1>7. /\ rdA' = ReadWord(ramA, ScatterAAddr) /\ rdB' = ReadWord(ramB, ScatterBAddr)
      /\ ramA' = ramA /\ ramB' = ramB
  BY <1>2 DEF RamPosedge
<1>8. RamsHold'
  BY <1>2, <1>3, <1>7 DEF RamsHold, MatrixA, MatrixB
<1>9. RowOnInputs'
  BY <1>1, <1>2, <1>3, <1>4, <1>7, RowOnInputsStep
<1>10. BufferFilled' /\ ArrayLoaded'
  <2>1. CASE cc.state # "IDLE" /\ cc'.state # "IDLE"
    BY <1>1, <1>2, <1>3, <1>4, <1>7, <2>1, BufferStep, ArrayStep
  <2>2. CASE cc.state = "IDLE" \/ cc'.state = "IDLE"
    <3>1. sb'.state = "IDLE" /\ (cc'.state = "IDLE" \/ (cc'.state = "PREPARING" /\ ~sb'.load_done))
      <4>1. CASE cc'.state = "IDLE"
        BY <1>6, <4>1 DEF ScatterBCounts
      <4>2. CASE cc'.state # "IDLE"
        <5>1. cc.state = "IDLE" /\ sb.state = "IDLE" /\ ~cc.B_load /\ cc'.state = "PREPARING"
          BY <1>1, <1>3, <2>2, <4>2 DEF ScatterBCounts, ClockFacts, HandshakeInv, ControlMoves
        <5> QED
          BY <1>1, <5>1 DEF ClockFacts, ScatterBMoves
      <4> QED
        BY <4>1, <4>2
    <3>2. DOMAIN sb'.buffer_B = Lane
      BY <1>2, <1>3 DEF NewBuffer, BufferFilled
    <3>3. BufferFilled'
      BY <3>1, <3>2 DEF BufferFilled
    <3>4. ArrayLoaded'
      BY <3>1 DEF ArrayLoaded
    <3> QED
      BY <3>3, <3>4
  <2> QED
    BY <2>1, <2>2
<1>11. Sums'
  BY <1>1, <1>2, <1>3, <1>4, SumsStep
<1>12. Columns'
  BY <1>1, <1>2, <1>3, <1>4, ColumnsStep
<1> QED
  BY <1>5, <1>6, <1>8, <1>9, <1>10, <1>11, <1>12 DEF DataInv, CountInv

\* A reset that leaves no residue.
LEMMA DataReset ==
  ASSUME Square, TypeOK, DataInv, Reset, residue' = {}
  PROVE  DataInv'
<1>1. ~sb.Final /\ ~gr.write_back
  BY DEF Reset
<1>2. /\ cc'.state = "IDLE" /\ ~cc'.Finish /\ cc'.row_cnt = 0 /\ cc'.col_cnt = 0
  BY DEF Reset, ControlReset
<1>3. /\ gr'.state = "IDLE" /\ gr'.row_cnt = 0 /\ gr'.col_cnt = 0
      /\ gw'.bram_state = "IDLE" /\ gw'.write_back_cnt = 0 /\ cbuf' = CleanBuffer
  BY DEF Reset, GatherReset, TypeOK, ReceiveType
<1>4. sa'.col_cnt = 0
  BY DEF Reset, ScatterAReset, TypeOK, ScatterAType
<1>5. /\ sb'.state = "IDLE" /\ sb'.load_cnt = 0 /\ sb'.Final = sb.Final
      /\ sb'.buffer_B = ZeroTile
  BY DEF Reset, ScatterBReset, TypeOK, ScatterBType
<1>6. RamPosedge /\ gen' = gen
  BY DEF Reset
<1>7. GatherCounts'
  BY <1>2, <1>3 DEF GatherCounts
<1>8. ScatterACounts'
  BY <1>2, <1>4 DEF ScatterACounts
<1>9. ScatterBCounts'
  BY <1>1, <1>2, <1>5 DEF ScatterBCounts
<1>10. RamsHold'
  BY <1>6 DEF RamsHold, MatrixA, MatrixB, DataInv, RamPosedge
<1>11. RowOnInputs' /\ ArrayLoaded'
  BY <1>2, <1>5 DEF RowOnInputs, ArrayLoaded
<1>12. BufferFilled'
  BY <1>5 DEF BufferFilled, ZeroTile
<1>13. Sums'
  <2>1. N \in Nat /\ 0 * N = 0
    BY SquareSizes
  <2>2. \A y \in BufferRow : Summed(y)' = 0
    BY <1>2, <2>1 DEF Summed
  <2>3. ASSUME NEW y \in BufferRow
        PROVE  cbuf'[y] = SumRow(gen, y, cc.col_cnt, Summed(y))'
    BY <1>3, <2>2, CleanRows, ZeroSums DEF SumRow
  <2>4. DOMAIN cbuf' = BufferRow
    BY <1>3 DEF CleanBuffer
  <2> QED
    BY <2>3, <2>4 DEF Sums, SumRow
<1>14. Columns'
  <2>1. ramC' = [x \in Cells |-> ramC'[x]]
    BY <1>6, TileRanges, WordWritten DEF DataInv, Columns
  <2> QED
    BY <1>2, <2>1 DEF Columns, Written
<1> QED
  BY <1>7, <1>8, <1>9, <1>10, <1>11, <1>12, <1>13, <1>14 DEF DataInv, CountInv

\* New matrices are stored while the buffer holds no sums.
LEMMA DataStore ==
  ASSUME Square, TypeOK, DataInv, Store
  PROVE  DataInv'
<1>1. cc.state = "IDLE" /\ ~cc.Finish /\ UNCHANGED <<coreVars, ramC, rdA, rdB>> /\ gen' = gen + 1
  BY DEF Store
<1>2. /\ cc' = cc /\ sa' = sa /\ sb' = sb /\ pe' = pe /\ gr' = gr /\ gw' = gw /\ cbuf' = cbuf
      /\ ramC' = ramC
  BY <1>1 DEF coreVars
<1>3. CountInv'
  BY <1>2 DEF DataInv, CountInv, GatherCounts, ScatterACounts, ScatterBCounts, Ahead, FetchRow,
              FetchCol
<1>4. RamsHold'
  BY <1>1 DEF Store, RamsHold, MatrixA, MatrixB
<1>5. sb.state = "IDLE" /\ cc.row_cnt = 0
  BY <1>1 DEF DataInv, CountInv, ScatterBCounts, GatherCounts
<1>6. RowOnInputs' /\ BufferFilled' /\ ArrayLoaded'
  BY <1>1, <1>2, <1>5 DEF DataInv, RowOnInputs, BufferFilled, ArrayLoaded
<1>7. Sums'
  <2>1. N \in Nat /\ 0 * N = 0
    BY SquareSizes
  <2>2. \A y \in BufferRow : Summed(y)' = 0 /\ Summed(y) = 0
    BY <1>1, <1>2, <1>5, <2>1 DEF Summed
  <2>3. ASSUME NEW y \in BufferRow
        PROVE  cbuf'[y] = SumRow(gen, y, cc.col_cnt, Summed(y))'
    <3>1. cbuf[y] = ZeroLanes
      BY <2>2, SumsByRow, ZeroSums DEF DataInv
    <3>2. SumRow(gen, y, cc.col_cnt, Summed(y))' = SumRow(gen', y, cc'.col_cnt, 0)
      BY <2>2 DEF SumRow
    <3> QED
      BY <1>2, <3>1, <3>2, ZeroSums
  <2>4. DOMAIN cbuf' = BufferRow
    BY <1>2 DEF DataInv, Sums
  <2> QED
    BY <2>3, <2>4 DEF Sums, SumRow
<1>8. Columns'
  BY <1>1, <1>2 DEF DataInv, Columns, Written
<1> QED
  BY <1>3, <1>4, <1>6, <1>7, <1>8 DEF DataInv

\* At power-up.
LEMMA DataInit ==
  ASSUME Square, Init
  PROVE  DataInv
<1>1. /\ cc.state = "IDLE" /\ ~cc.Finish /\ cc.row_cnt = 0 /\ cc.col_cnt = 0 /\ ~cc.start_cal
  BY DEF Init, ControlInit
<1>2. /\ gr.state = "IDLE" /\ gr.row_cnt = 0 /\ gr.col_cnt = 0
      /\ gw.bram_state = "IDLE" /\ gw.write_back_cnt = 0
      /\ cbuf = [r \in BufferRow |-> ZeroLanes]
  BY DEF Init, GatherInit
<1>3. sa.col_cnt = 0
  BY DEF Init, ScatterAInit
<1>4. /\ sb.state = "IDLE" /\ sb.load_cnt = 0 /\ ~sb.Final /\ sb.buffer_B = ZeroTile
  BY DEF Init, ScatterBInit
<1>5. CountInv
  BY <1>1, <1>2, <1>3, <1>4 DEF CountInv, GatherCounts, ScatterACounts, ScatterBCounts
<1>6. RamsHold
  BY DEF Init, RamsHold
<1>7. RowOnInputs /\ BufferFilled /\ ArrayLoaded
  BY <1>1, <1>4 DEF RowOnInputs, BufferFilled, ArrayLoaded, ZeroTile
<1>8. Sums
  <2>1. N \in Nat /\ 0 * N = 0
    BY SquareSizes
  <2>2. \A y \in BufferRow : Summed(y) = 0
    BY <1>1, <2>1 DEF Summed
  <2> QED
    BY <1>2, <2>2, ZeroSums, SumsByRow
<1>9. Columns
  <2>1. ramC = [x \in Cells |-> Junk]
    BY DEF Init, Cells
  <2> QED
    BY <1>1, <2>1 DEF Columns, Written
<1> QED
  BY <1>5, <1>6, <1>7, <1>8, <1>9 DEF DataInv

\* Nothing happens.
LEMMA DataFrame ==
  ASSUME DataInv, UNCHANGED mmVars
  PROVE  DataInv'
<1>1. /\ cc' = cc /\ sa' = sa /\ sb' = sb /\ pe' = pe /\ gr' = gr /\ gw' = gw /\ cbuf' = cbuf
      /\ ramA' = ramA /\ ramB' = ramB /\ ramC' = ramC /\ rdA' = rdA /\ rdB' = rdB /\ gen' = gen
  BY DEF mmVars, coreVars, ramVars
<1>2. CountInv'
  BY <1>1 DEF DataInv, CountInv, GatherCounts, ScatterACounts, ScatterBCounts, Ahead, FetchRow,
              FetchCol
<1>3. RamsHold' /\ RowOnInputs' /\ BufferFilled' /\ ArrayLoaded'
  BY <1>1 DEF DataInv, RamsHold, MatrixA, MatrixB, RowOnInputs, BufferFilled, ArrayLoaded, Shifted,
              BRow, BCol, ARow, Ahead, FetchRow, FetchCol
<1>4. Sums'
  BY <1>1 DEF DataInv, Sums, Summed
<1>5. Columns'
  BY <1>1 DEF DataInv, Columns, Written
<1> QED
  BY <1>2, <1>3, <1>4, <1>5 DEF DataInv

LEMMA DataStep ==
  ASSUME Square, NEW V, Arithmetic(V), AccelInv, CleanDataInv, [Next]_mmVars
  PROVE  CleanDataInv'
<1>1. CASE residue # {}
  <2>1. residue' # {}
    BY <1>1 DEF Next, Clock, Reset, Store, mmVars
  <2> QED
    BY <2>1 DEF CleanDataInv
<1>2. CASE residue = {}
  <2>1. TypeOK /\ HandshakeInv /\ DataInv
    BY <1>2 DEF AccelInv, CleanDataInv
  <2>2. ASSUME NEW start \in BOOLEAN, Clock(start) PROVE DataInv'
    BY <2>1, <2>2, DataClock
  <2>3. CASE Reset
    BY <2>1, <2>3, DataReset DEF CleanDataInv
  <2>4. CASE Store
    BY <2>1, <2>4, DataStore DEF CleanDataInv
  <2>5. CASE UNCHANGED mmVars
    BY <2>1, <2>5, DataFrame DEF CleanDataInv
  <2> QED
    BY <2>2, <2>3, <2>4, <2>5 DEF Next, CleanDataInv
<1> QED
  BY <1>1, <1>2

\* What the invariant says at Finish.
LEMMA DataHoldsProduct ==
  ASSUME Square, CleanDataInv
  PROVE  FinishHoldsMirroredProduct
<1> SUFFICES ASSUME cc.Finish, residue = {}
             PROVE  ramC = Mirrored(gen)
  BY DEF FinishHoldsMirroredProduct
<1>1. ramC = [x \in Cells |-> ramC[x]] /\ \A x \in Cells : ramC[x] = Wanted(gen, x)
  BY DEF CleanDataInv, DataInv, Columns
<1>2. DOMAIN ramC = Cells
  BY <1>1
<1> QED
  BY <1>1, <1>2 DEF Mirrored, Wanted

(***************************************************************************)
(* On square matrices of any size, cut into tiles of any side, the         *)
(* invariant of the data path holds in every state of every behaviour,     *)
(* whatever is started, stored or reset when.                              *)
(***************************************************************************)
THEOREM DataInvariant ==
  ASSUME Square, NEW CONSTANT V, Arithmetic(V)
  PROVE  Spec => []CleanDataInv
<1>1. Init => CleanDataInv
  BY DataInit DEF CleanDataInv
<1>2. AccelInv /\ CleanDataInv /\ [Next]_mmVars => CleanDataInv'
  BY DataStep
<1> QED
  BY <1>1, <1>2, AccelInvariant, PTL DEF Spec

(***************************************************************************)
(* When compute_control raises Finish the C RAM holds the product of the   *)
(* stored matrices, with the columns of every block of N mirrored: for     *)
(* every tile side, every size and every data with an associative          *)
(* addition, after any number of runs, and after every reset that did not  *)
(* leave Final or write_back set. All the units take part: a tile fetched, *)
(* shifted, summed or written one clock early or late would show in C.     *)
(***************************************************************************)
THEOREM FinishIsProduct ==
  ASSUME Square, NEW CONSTANT V, Arithmetic(V)
  PROVE  Spec => []FinishHoldsMirroredProduct
<1>1. CleanDataInv => FinishHoldsMirroredProduct
  BY DataHoldsProduct
<1> QED
  BY <1>1, DataInvariant, PTL
-----------------------------------------------------------------------------
(***************************************************************************)
(* The contract. It names the pair of matrices whose product is in the C   *)
(* RAM, so the products must tell the pairs apart, and a RAM no product    *)
(* was written to must hold none.                                          *)
(***************************************************************************)
Image(g) == [x \in Cells |-> Wanted(g, x)]
JunkImage == [x \in Cells |-> Junk]
Distinct ==
  /\ \A g, h \in 1 .. MaxRuns : Image(g) = Image(h) => g = h
  /\ \A g \in 1 .. MaxRuns : Image(g) # JunkImage

\* The pair the refinement mapping names, for a RAM and a number of pairs.
ImageIn(ram, g) ==
  [x \in DOMAIN ram |-> ProductAt(g, x \div B_SIZE_X, MirrorColumn(x % B_SIZE_X))]
Named(busy, ram, n) ==
  IF ~busy /\ \E g \in 1 .. n : ram = ImageIn(ram, g)
  THEN CHOOSE g \in 1 .. n : ram = ImageIn(ram, g)
  ELSE 0

\* The mapping names the pair whose product is in the RAM, and only that ...
LEMMA NamesPair ==
  ASSUME Distinct, NEW n \in 1 .. MaxRuns, NEW ram, NEW g \in 1 .. n, ram = Image(g)
  PROVE  Named(FALSE, ram, n) = g
<1>1. 1 .. n \subseteq 1 .. MaxRuns
  BY BoundAssumption
<1>2. \A h \in 1 .. n : ImageIn(ram, h) = Image(h)
  BY DEF ImageIn, Image, Wanted
<1>3. \A h \in 1 .. n : ram = ImageIn(ram, h) <=> h = g
  BY <1>1, <1>2 DEF Distinct
<1>4. (CHOOSE h \in 1 .. n : ram = ImageIn(ram, h)) = g
  BY <1>3
<1> QED
  BY <1>3, <1>4 DEF Named

\* ... and none at power-up.
LEMMA NamesNone ==
  ASSUME Distinct, NEW n \in 1 .. MaxRuns, NEW ram, ram = JunkImage
  PROVE  Named(FALSE, ram, n) = 0
<1>1. 1 .. n \subseteq 1 .. MaxRuns
  BY BoundAssumption
<1>2. \A h \in 1 .. n : ImageIn(ram, h) = Image(h)
  BY DEF ImageIn, Image, Wanted, JunkImage
<1>3. \A h \in 1 .. n : ram # ImageIn(ram, h)
  BY <1>1, <1>2 DEF Distinct
<1> QED
  BY <1>3 DEF Named

\* At rest the C RAM holds what it had at power-up or the product of a pair
\* that was stored.
Settled ==
  cc.state = "IDLE" => ramC = JunkImage \/ \E g \in 1 .. gen : ramC = Image(g)

\* Without resets, one clock by what the contract sees of it.
LEMMA ClockSeen ==
  ASSUME Square, NEW V, Arithmetic(V), TypeOK, HandshakeInv, DataInv,
         NEW start \in BOOLEAN, Clock(start)
  PROVE  /\ gen' = gen
         /\ cc.state = "IDLE" => ramC' = ramC
         /\ cc.state # "IDLE" /\ cc'.state = "IDLE" => ramC' = Image(gen)
<1>1. ClockFacts(start) /\ RamPosedge /\ gen' = gen
  BY ClockGives, ClockCounter
<1>2. ASSUME cc.state = "IDLE"
      PROVE  ramC' = ramC
  <2>1. gw.bram_state = "IDLE"
    BY <1>2 DEF HandshakeInv, AtRest, GatherQuiet
  <2> QED
    BY <1>1, <2>1 DEF RamPosedge, GatherCWe
<1>3. ASSUME cc.state # "IDLE", cc'.state = "IDLE"
      PROVE  ramC' = Image(gen)
  <2>1. cc'.Finish
    BY <1>1, <1>3 DEF ClockFacts, ControlMoves
  <2>2. Columns'
    BY DataClock DEF DataInv
  <2>3. ramC' = [x \in Cells |-> ramC'[x]] /\ \A x \in Cells : ramC'[x] = Wanted(gen, x)
    BY <1>1, <2>1, <2>2 DEF Columns
  <2> QED
    BY <2>3 DEF Image
<1> QED
  BY <1>1, <1>2, <1>3

LEMMA SettledStep ==
  ASSUME Square, NEW V, Arithmetic(V), MaxResets = 0, AccelInv, CleanDataInv, residue = {}, Settled,
         [Next]_mmVars
  PROVE  Settled' /\ residue' = {}
<1>1. TypeOK /\ HandshakeInv /\ DataInv /\ gen \in 1 .. gen
  <2>1. TypeOK /\ HandshakeInv /\ DataInv
    BY DEF AccelInv, CleanDataInv
  <2> QED
    BY <2>1, BoundAssumption DEF TypeOK
<1>2. ASSUME NEW start \in BOOLEAN, Clock(start) PROVE Settled' /\ residue' = {}
  <2>1. /\ gen' = gen
        /\ cc.state = "IDLE" => ramC' = ramC
        /\ cc.state # "IDLE" /\ cc'.state = "IDLE" => ramC' = Image(gen)
    BY <1>1, <1>2, ClockSeen
  <2> QED
    BY <1>1, <1>2, <2>1 DEF Settled, Clock
<1>3. ~Reset
  BY <1>1 DEF Reset, TypeOK
<1>4. CASE Store
  <2>1. cc' = cc /\ ramC' = ramC /\ gen' = gen + 1 /\ residue' = {}
    BY <1>4 DEF Store, coreVars
  <2>2. 1 .. gen \subseteq 1 .. gen'
    BY <1>1, <2>1, BoundAssumption DEF TypeOK
  <2> QED
    BY <2>1, <2>2 DEF Settled
<1>5. CASE UNCHANGED mmVars
  BY <1>5 DEF mmVars, coreVars, ramVars, Settled
<1> QED
  BY <1>2, <1>3, <1>4, <1>5 DEF Next

\* Every step is a step of the contract or a stutter.
LEMMA ContractStep ==
  ASSUME Square, Distinct, NEW V, Arithmetic(V), MaxResets = 0, AccelInv, CleanDataInv, residue = {},
         Settled, [Next]_mmVars
  PROVE  [Contract!Next]_(Contract!contractVars)
<1>1. TypeOK /\ HandshakeInv /\ DataInv
  BY DEF AccelInv, CleanDataInv
<1>2. gen \in 1 .. MaxRuns /\ gen \in 1 .. gen
  BY <1>1, BoundAssumption DEF TypeOK
<1> DEFINE res  == Named(Busy, ramC, gen)
           resN == Named(Busy', ramC', gen')
<1>3. /\ ~Busy /\ Busy' /\ gen' = gen /\ resN = 0 => Contract!Begin
      /\ Busy /\ ~Busy' /\ gen' = gen /\ resN = gen => Contract!Complete
      /\ ~Busy /\ ~Busy' /\ gen' # gen /\ resN = res => Contract!StoreInputs
      /\ (Busy <=> Busy') /\ gen' = gen /\ resN = res => UNCHANGED Contract!contractVars
  BY DEF Contract!Begin, Contract!Complete, Contract!StoreInputs, Contract!contractVars,
         Named, ImageIn, Mirrored, Busy
<1> HIDE DEF res, resN
<1>4. Busy' => resN = 0
  BY DEF resN, Named
<1>5. Busy => res = 0
  BY DEF res, Named
<1>6. ASSUME NEW start \in BOOLEAN, Clock(start)
      PROVE  [Contract!Next]_(Contract!contractVars)
  <2>1. /\ gen' = gen
        /\ cc.state = "IDLE" => ramC' = ramC
        /\ cc.state # "IDLE" /\ cc'.state = "IDLE" => ramC' = Image(gen)
    BY <1>1, <1>6, ClockSeen
  <2>2. CASE ~Busy /\ ~Busy'
    <3>1. ramC' = ramC
      BY <2>1, <2>2 DEF Busy
    <3>2. resN = res
      BY <2>1, <2>2, <3>1 DEF res, resN, Named
    <3> QED
      BY <1>3, <2>1, <2>2, <3>2
  <2>3. CASE ~Busy /\ Busy'
    BY <1>3, <1>4, <2>1, <2>3 DEF Contract!Next
  <2>4. CASE Busy /\ ~Busy'
    <3>1. ramC' = Image(gen)
      BY <2>1, <2>4 DEF Busy
    <3>2. Named(FALSE, ramC', gen) = gen
      BY <1>2, <3>1, NamesPair
    <3>3. resN = gen
      BY <2>1, <2>4, <3>2 DEF resN, Named
    <3> QED
      BY <1>3, <2>1, <2>4, <3>3 DEF Contract!Next
  <2>5. CASE Busy /\ Busy'
    BY <1>3, <1>4, <1>5, <2>1, <2>5
  <2> QED
    BY <2>2, <2>3, <2>4, <2>5
<1>7. ~Reset
  BY <1>1 DEF Reset, TypeOK
<1>8. CASE Store
  <2>1. cc' = cc /\ ramC' = ramC /\ gen' = gen + 1 /\ cc.state = "IDLE" /\ gen < MaxRuns
    BY <1>8 DEF Store, coreVars
  <2>2. gen' \in 1 .. MaxRuns /\ 1 .. gen \subseteq 1 .. gen' /\ gen' # gen
    BY <1>2, <2>1, BoundAssumption
  <2>3. ~Busy /\ ~Busy'
    BY <2>1 DEF Busy
  <2>4. Named(FALSE, ramC, gen') = Named(FALSE, ramC, gen)
    <3>1. CASE ramC = JunkImage
      BY <1>2, <2>2, <3>1, NamesNone
    <3>2. ASSUME NEW g \in 1 .. gen, ramC = Image(g)
          PROVE  Named(FALSE, ramC, gen') = Named(FALSE, ramC, gen)
      <4>1. g \in 1 .. gen'
        BY <2>2
      <4>2. Named(FALSE, ramC, gen) = g
        BY <1>2, <3>2, NamesPair
      <4>3. Named(FALSE, ramC, gen') = g
        BY <2>2, <3>2, <4>1, NamesPair
      <4> QED
        BY <4>2, <4>3
    <3> QED
      BY <2>1, <3>1, <3>2 DEF Settled
  <2>5. resN = res
    BY <2>1, <2>3, <2>4 DEF res, resN, Named
  <2> QED
    BY <1>3, <2>2, <2>3, <2>5 DEF Contract!Next
<1>9. CASE UNCHANGED mmVars
  <2>1. cc' = cc /\ ramC' = ramC /\ gen' = gen
    BY <1>9 DEF mmVars, coreVars, ramVars
  <2>2. resN = res /\ (Busy <=> Busy')
    BY <2>1 DEF res, resN, Named, Busy
  <2> QED
    BY <1>3, <2>1, <2>2
<1> QED
  BY <1>6, <1>7, <1>8, <1>9 DEF Next

(***************************************************************************)
(* The accelerator implements AcceleratorContract, as far as safety goes,  *)
(* for square matrices of every size and every tile side, as long as       *)
(* nobody resets it: seen as busy or idle, and with the C RAM read only    *)
(* when idle, its clocks are starts, completions with the product of the   *)
(* matrices stored last, or stutters, and between two runs the result      *)
(* stays. This is the safety part of ImplementsContract.                   *)
(***************************************************************************)
THEOREM AccelContract ==
  ASSUME Square, Distinct, MaxResets = 0, NEW CONSTANT V, Arithmetic(V)
  PROVE  Spec => Contract!Init /\ [][Contract!Next]_(Contract!contractVars)
<1>1. Init => Contract!Init
  <2> SUFFICES ASSUME Init PROVE Contract!Init
    OBVIOUS
  <2>1. ramC = JunkImage /\ gen = 1 /\ cc.state = "IDLE"
    BY DEF Init, ControlInit, JunkImage, Cells
  <2>2. Named(FALSE, ramC, gen) = 0
    <3>1. gen \in 1 .. MaxRuns
      BY <2>1, BoundAssumption
    <3> QED
      BY <2>1, <3>1, NamesNone
  <2> QED
    BY <2>1, <2>2 DEF Contract!Init, Named, ImageIn, Mirrored, Busy
<1>2. Init => Settled /\ residue = {}
  BY DEF Init, JunkImage, Cells, Settled
<1>3. AccelInv /\ CleanDataInv /\ residue = {} /\ Settled /\ [Next]_mmVars =>
        (Settled /\ residue = {})'
  BY SettledStep
<1>4. AccelInv /\ CleanDataInv /\ residue = {} /\ Settled /\ [Next]_mmVars =>
        [Contract!Next]_(Contract!contractVars)
  BY ContractStep
<1> QED
  BY <1>1, <1>2, <1>3, <1>4, AccelInvariant, DataInvariant, PTL DEF Spec
=============================================================================
