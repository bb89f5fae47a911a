-------------------------- MODULE UsrLogic_proofs ---------------------------
(***************************************************************************)
(* Proofs about the register block and the accelerator together. What is   *)
(* said of the registers holds for every tile side, every size and any     *)
(* data, and also for the runs after a reset that left Final or write_back *)
(* set; what is said of the C RAM rests on the data path of                *)
(* MatrixMultiply_proofs and has its assumptions.                          *)
(***************************************************************************)
EXTENDS UsrLogic, MatrixMultiply_proofs

RegisterType ==
  [finish_reg : BOOLEAN, Finish_2 : BOOLEAN, start : BOOLEAN, start_2 : BOOLEAN,
   process : BOOLEAN, arready : BOOLEAN, rvalid : BOOLEAN, rdata : {0, 1, 2}]

(***************************************************************************)
(* The inductive invariant follows one process from the accepted START to  *)
(* the STATUS read that ends it.                                           *)
(***************************************************************************)

\* First clock of the start pulse: compute_control has not seen it yet.
Pulsed ==
  /\ uc.start /\ ~uc.start_2 /\ ~uc.finish_reg /\ cc.state = "IDLE" /\ ~cc.Finish

\* Second clock of the start pulse: compute_control has left IDLE.
Seen ==
  /\ uc.start /\ uc.start_2 /\ ~uc.finish_reg /\ ~uc.Finish_2
  /\ cc.state = "PREPARING" /\ ~cc.Finish

Running ==
  /\ ~uc.start /\ ~uc.start_2 /\ ~uc.finish_reg /\ ~uc.Finish_2
  /\ cc.state # "IDLE" /\ ~cc.Finish

\* The one clock in which Finish is up: its rising edge is not yet latched.
Finishing ==
  /\ ~uc.start /\ ~uc.start_2 /\ ~uc.finish_reg /\ ~uc.Finish_2
  /\ cc.state = "IDLE" /\ cc.Finish

Finished ==
  /\ ~uc.start /\ ~uc.start_2 /\ uc.finish_reg /\ cc.state = "IDLE" /\ ~cc.Finish

\* No process: the accelerator and the start pulse are at rest.
Resting == ~uc.start /\ ~uc.start_2 /\ cc.state = "IDLE" /\ ~cc.Finish

ProcessInv ==
  /\ uc \in RegisterType
  /\ IF uc.process THEN Pulsed \/ Seen \/ Running \/ Finishing \/ Finished ELSE Resting

UsrInv == TypeOK /\ ProcessInv
-----------------------------------------------------------------------------
(***************************************************************************)
(* One clock of the register block, by the registers of the invariant.     *)
(***************************************************************************)
RegisterMoves ==
  /\ uc'.Finish_2 = cc.Finish
  /\ uc'.start_2 = (IF uc.start THEN ~uc.start_2 ELSE uc.start_2)
  /\ \/ /\ ~uc.process /\ uc'.process /\ uc'.start /\ ~uc'.finish_reg
     \/ /\ uc.process => uc'.process \/ uc.finish_reg
        /\ ~uc.process => ~uc'.process
        /\ uc'.start = (uc.start /\ ~uc.start_2)
        /\ uc'.finish_reg = (uc.finish_reg \/ (cc.Finish /\ ~uc.Finish_2))

LEMMA RegisterClock ==
  ASSUME uc \in RegisterType, cc.Finish \in BOOLEAN, NEW arvalid \in BOOLEAN,
         NEW araddr, NEW rready \in BOOLEAN,
         UsrControlPosedge(arvalid, araddr, rready, cc.Finish)
  PROVE  uc' \in RegisterType /\ RegisterMoves
<1> DEFINE begin == BeginProcess(arvalid, araddr)
           end   == EndProcess(arvalid, araddr)
           data  == ReadData(arvalid, araddr)
<1>1. /\ uc.finish_reg \in BOOLEAN /\ uc.Finish_2 \in BOOLEAN /\ uc.start \in BOOLEAN
      /\ uc.start_2 \in BOOLEAN /\ uc.process \in BOOLEAN /\ uc.arready \in BOOLEAN
      /\ uc.rvalid \in BOOLEAN /\ uc.rdata \in {0, 1, 2}
  BY DEF RegisterType
<1>2. /\ begin \in BOOLEAN /\ end \in BOOLEAN /\ (begin => ~uc.process)
      /\ (end => uc.finish_reg)
  BY <1>1 DEF BeginProcess, EndProcess, AcceptRead
<1>3. data \in {0, 1, 2}
  BY <1>1 DEF ReadData, AcceptRead
<1>4. AcceptRead(arvalid) \in BOOLEAN /\ ReadValid(rready) \in BOOLEAN
  BY <1>1 DEF AcceptRead, ReadValid
<1>5. uc' = [uc EXCEPT !.Finish_2 = cc.Finish,
                       !.finish_reg = (uc.finish_reg \/ (cc.Finish /\ ~uc.Finish_2)) /\ ~begin,
                       !.start = begin \/ (uc.start /\ ~uc.start_2),
                       !.start_2 = IF uc.start THEN ~uc.start_2 ELSE uc.start_2,
                       !.process = begin \/ (uc.process /\ ~end),
                       !.arready = AcceptRead(arvalid),
                       !.rdata = data,
                       !.rvalid = ReadValid(rready)]
  BY DEF UsrControlPosedge, FinishReg, StartPulse, StartPulse2
<1> HIDE DEF begin, end, data
<1>6. uc' \in RegisterType
  <2> DEFINE fr == (uc.finish_reg \/ (cc.Finish /\ ~uc.Finish_2)) /\ ~begin
             st == begin \/ (uc.start /\ ~uc.start_2)
             s2 == IF uc.start THEN ~uc.start_2 ELSE uc.start_2
             pr == begin \/ (uc.process /\ ~end)
             ar == AcceptRead(arvalid)
             rv == ReadValid(rready)
  <2>1. fr \in BOOLEAN /\ st \in BOOLEAN /\ s2 \in BOOLEAN /\ pr \in BOOLEAN
    BY <1>1, <1>2
  <2>2. ar \in BOOLEAN /\ rv \in BOOLEAN
    BY <1>4
  <2>3. uc' = [uc EXCEPT !.Finish_2 = cc.Finish, !.finish_reg = fr, !.start = st,
                         !.start_2 = s2, !.process = pr, !.arready = ar,
                         !.rdata = data, !.rvalid = rv]
    BY <1>5, Zenon
  <2> HIDE DEF fr, st, s2, pr, ar, rv
  <2>4. uc' = [finish_reg |-> fr, Finish_2 |-> cc.Finish, start |-> st, start_2 |-> s2,
               process |-> pr, arready |-> ar, rvalid |-> rv, rdata |-> data]
    BY <2>3 DEF RegisterType
  <2> QED
    BY <1>3, <2>1, <2>2, <2>4 DEF RegisterType
<1>7. /\ uc'.Finish_2 = cc.Finish
      /\ uc'.start_2 = (IF uc.start THEN ~uc.start_2 ELSE uc.start_2)
      /\ uc'.finish_reg = ((uc.finish_reg \/ (cc.Finish /\ ~uc.Finish_2)) /\ ~begin)
      /\ uc'.start = (begin \/ (uc.start /\ ~uc.start_2))
      /\ uc'.process = (begin \/ (uc.process /\ ~end))
  BY <1>5 DEF RegisterType
<1>8. CASE begin = TRUE
  BY <1>2, <1>6, <1>7, <1>8 DEF RegisterMoves
<1>9. CASE begin = FALSE
  <2>1. /\ uc'.finish_reg = (uc.finish_reg \/ (cc.Finish /\ ~uc.Finish_2))
        /\ uc'.start = (uc.start /\ ~uc.start_2)
        /\ uc'.process = (uc.process /\ ~end)
    BY <1>1, <1>7, <1>9
  <2> QED
    BY <1>1, <1>2, <1>6, <1>7, <2>1 DEF RegisterMoves
<1> QED
  BY <1>2, <1>6, <1>8, <1>9

LEMMA ProcessClock ==
  ASSUME TypeOK, ProcessInv, UsrClock
  PROVE  ProcessInv'
<1>1. /\ cc.Finish \in BOOLEAN /\ cc.start_cal \in BOOLEAN
      /\ cc.state \in {"IDLE", "PREPARING", "COMPUTING"} /\ cc' \in ControlType
      /\ ControlMoves(uc.start, sb.load_done, GatherDone)
  <2>1. uc.start \in BOOLEAN
    BY DEF ProcessInv, RegisterType
  <2>2. Clock(uc.start)
    BY DEF UsrClock
  <2>3. TypeOK' /\ ControlMoves(uc.start, sb.load_done, GatherDone)
    BY <2>1, <2>2, ClockMoves
  <2> QED
    BY <2>3 DEF TypeOK, ControlType
<1>2. uc' \in RegisterType /\ RegisterMoves
  <2>1. UsrControlPosedge(axi.phase = "address", axi.araddr, axi.phase = "data", cc.Finish)
    BY DEF UsrClock
  <2>2. (axi.phase = "address") \in BOOLEAN /\ (axi.phase = "data") \in BOOLEAN
    OBVIOUS
  <2>3. uc \in RegisterType
    BY DEF ProcessInv
  <2> QED
    BY <1>1, <2>1, <2>2, <2>3, RegisterClock
<1>3. /\ uc.finish_reg \in BOOLEAN /\ uc.Finish_2 \in BOOLEAN /\ uc.start \in BOOLEAN
      /\ uc.start_2 \in BOOLEAN /\ uc.process \in BOOLEAN /\ cc'.Finish \in BOOLEAN
      /\ uc'.finish_reg \in BOOLEAN /\ uc'.Finish_2 \in BOOLEAN /\ uc'.start \in BOOLEAN
      /\ uc'.start_2 \in BOOLEAN /\ uc'.process \in BOOLEAN
      /\ cc'.state \in {"IDLE", "PREPARING", "COMPUTING"}
  BY <1>1, <1>2 DEF ProcessInv, RegisterType, ControlType
<1>4. CASE ~uc.process
  <2>1. Resting
    BY <1>4 DEF ProcessInv
  <2>2. cc'.state = "IDLE" /\ ~cc'.Finish
    BY <1>1, <2>1 DEF Resting, ControlMoves
  <2>3. CASE uc'.process
    <3>1. Pulsed'
      BY <1>2, <1>4, <2>1, <2>2, <2>3 DEF Resting, Pulsed, RegisterMoves
    <3> QED
      BY <1>2, <2>3, <3>1 DEF ProcessInv
  <2>4. CASE ~uc'.process
    <3>1. Resting'
      BY <1>2, <1>3, <2>1, <2>2, <2>4 DEF Resting, RegisterMoves
    <3> QED
      BY <1>2, <2>4, <3>1 DEF ProcessInv
  <2> QED
    BY <2>3, <2>4
<1>5. CASE uc.process /\ Pulsed
  <2>1. cc'.state = "PREPARING" /\ ~cc'.Finish
    BY <1>1, <1>5 DEF Pulsed, ControlMoves
  <2>2. uc'.process /\ Seen'
    BY <1>1, <1>2, <1>3, <1>5, <2>1 DEF Pulsed, Seen, RegisterMoves
  <2> QED
    BY <1>2, <2>2 DEF ProcessInv
<1>6. CASE uc.process /\ Seen
  <2>1. cc'.state # "IDLE" /\ ~cc'.Finish
    BY <1>1, <1>6 DEF Seen, ControlMoves
  <2>2. uc'.process /\ Running'
    BY <1>1, <1>2, <1>3, <1>6, <2>1 DEF Running, Seen, RegisterMoves
  <2> QED
    BY <1>2, <2>2 DEF ProcessInv
<1>7. CASE uc.process /\ Running
  <2>1. \/ cc'.state # "IDLE" /\ ~cc'.Finish
        \/ cc'.state = "IDLE" /\ cc'.Finish
    BY <1>1, <1>7 DEF Running, ControlMoves
  <2>2. uc'.process /\ ~uc'.start /\ ~uc'.start_2 /\ ~uc'.finish_reg /\ ~uc'.Finish_2
    BY <1>1, <1>2, <1>3, <1>7 DEF Running, RegisterMoves
  <2> QED
    BY <1>2, <2>1, <2>2 DEF ProcessInv, Running, Finishing
<1>8. CASE uc.process /\ Finishing
  <2>1. cc'.state = "IDLE" /\ ~cc'.Finish
    BY <1>1, <1>8 DEF Finishing, ControlMoves
  <2>2. uc'.process /\ Finished'
    BY <1>1, <1>2, <1>3, <1>8, <2>1 DEF Finishing, Finished, RegisterMoves
  <2> QED
    BY <1>2, <2>2 DEF ProcessInv
<1>9. CASE uc.process /\ Finished
  <2>1. cc'.state = "IDLE" /\ ~cc'.Finish
    BY <1>1, <1>9 DEF Finished, ControlMoves
  <2>2. ~uc'.start /\ ~uc'.start_2 /\ uc'.finish_reg
    BY <1>1, <1>2, <1>3, <1>9 DEF Finished, RegisterMoves
  <2> QED
    BY <1>2, <2>1, <2>2 DEF ProcessInv, Finished, Resting
<1> QED
  BY <1>4, <1>5, <1>6, <1>7, <1>8, <1>9 DEF ProcessInv

LEMMA UsrStep == UsrInv /\ [UsrNext]_usrVars => UsrInv'
<1> SUFFICES ASSUME UsrInv, [UsrNext]_usrVars PROVE UsrInv'
  OBVIOUS
<1>1. TypeOK /\ ProcessInv
  BY DEF UsrInv
<1>2. CASE UsrClock
  <2>1. uc.start \in BOOLEAN
    BY <1>1 DEF ProcessInv, RegisterType
  <2>2. TypeOK'
    BY <1>1, <1>2, <2>1, ClockMoves DEF UsrClock
  <2> QED
    BY <1>1, <1>2, <2>2, ProcessClock DEF UsrInv
<1>3. CASE UsrReset
  <2>1. TypeOK'
    BY <1>1, <1>3, TypeReset DEF UsrReset
  <2>2. cc'.state = "IDLE" /\ ~cc'.Finish
    BY <1>3 DEF UsrReset, Reset, ControlReset
  <2>3. uc' \in RegisterType /\ ~uc'.process /\ ~uc'.start /\ ~uc'.start_2
    BY <1>1, <1>3 DEF UsrReset, UsrControlReset, ProcessInv, RegisterType
  <2> QED
    BY <2>1, <2>2, <2>3 DEF UsrInv, ProcessInv, Resting
<1>4. CASE UsrStore
  <2>1. TypeOK'
    BY <1>1, <1>4, TypeStore DEF UsrStore
  <2>2. cc' = cc /\ uc' = uc
    BY <1>4 DEF UsrStore, Store, coreVars
  <2> QED
    BY <1>1, <2>1, <2>2
       DEF UsrInv, ProcessInv, Pulsed, Seen, Running, Finishing, Finished, Resting
<1>5. CASE UNCHANGED usrVars
  <2>1. TypeOK'
    BY <1>1, <1>5, TypeStep DEF usrVars
  <2>2. cc' = cc /\ uc' = uc
    BY <1>5 DEF usrVars, mmVars, coreVars
  <2> QED
    BY <1>1, <2>1, <2>2
       DEF UsrInv, ProcessInv, Pulsed, Seen, Running, Finishing, Finished, Resting
<1> QED
  BY <1>2, <1>3, <1>4, <1>5 DEF UsrNext

THEOREM UsrInvariant == UsrSpec => []UsrInv
<1>1. UsrInit => UsrInv
  <2> SUFFICES ASSUME UsrInit PROVE UsrInv
    OBVIOUS
  <2>1. TypeOK
    BY TypeInit DEF UsrInit
  <2>2. cc.state = "IDLE" /\ ~cc.Finish
    BY DEF UsrInit, Init, ControlInit
  <2>3. uc \in RegisterType /\ ~uc.process /\ ~uc.start /\ ~uc.start_2
    BY DEF UsrInit, UsrControlInit, RegisterType
  <2> QED
    BY <2>1, <2>2, <2>3 DEF UsrInv, ProcessInv, Resting
<1> QED
  BY <1>1, UsrStep, PTL DEF UsrSpec
-----------------------------------------------------------------------------
(***************************************************************************)
(* For all sizes and after every reset: while Usr_control has no           *)
(* multiplication in process compute_control is idle and the start pulse   *)
(* is over, so a START read begins exactly one run.                        *)
(***************************************************************************)
THEOREM RestsOutsideProcess == UsrSpec => []RestOutsideProcess
<1>1. UsrInv => RestOutsideProcess
  BY DEF UsrInv, ProcessInv, Resting, RestOutsideProcess
<1> QED
  BY <1>1, UsrInvariant, PTL

(***************************************************************************)
(* A STATUS read that can return 2 finds compute_control idle: finish_reg  *)
(* never reports the Finish of an earlier run while one is under way. This *)
(* half of StatusMeansProduct holds after every reset.                     *)
(***************************************************************************)
StatusMeansIdle == uc.finish_reg /\ uc.process => cc.state = "IDLE" /\ ~uc.start

THEOREM StatusIsIdle == UsrSpec => []StatusMeansIdle
<1>1. UsrInv => StatusMeansIdle
  BY DEF UsrInv, ProcessInv, Pulsed, Seen, Running, Finishing, Finished, StatusMeansIdle
<1> QED
  BY <1>1, UsrInvariant, PTL

(***************************************************************************)
(* Driven by the register block the accelerator takes only steps of        *)
(* MatrixMultiply, so what is proved of it there holds here.               *)
(***************************************************************************)
LEMMA UsrTakesSteps ==
  ASSUME UsrInv, [UsrNext]_usrVars
  PROVE  [Next]_mmVars
<1>1. uc.start \in BOOLEAN
  BY DEF UsrInv, ProcessInv, RegisterType
<1> QED
  BY <1>1 DEF UsrNext, UsrClock, UsrReset, UsrStore, Next, usrVars

THEOREM UsrAccelInvariant == UsrSpec => []AccelInv
<1>1. UsrInit => AccelInv
  BY TypeInit, HandshakeInit DEF UsrInit, AccelInv
<1>2. AccelInv /\ UsrInv /\ [UsrNext]_usrVars => AccelInv'
  BY UsrTakesSteps, AccelStep
<1> QED
  BY <1>1, <1>2, UsrInvariant, PTL DEF UsrSpec

(***************************************************************************)
(* The load pulse is seen and the tile is stationary, also here.           *)
(***************************************************************************)
THEOREM UsrHandshakes == UsrSpec => [](residue # {} \/ (LoadPulseSeen /\ TileStationary))
<1>1. AccelInv => residue # {} \/ (LoadPulseSeen /\ TileStationary)
  BY DEF AccelInv, HandshakeInv, AtRest, Loading, Computing, ScatterAQuiet,
         LoadPulseSeen, TileStationary, TypeOK, ControlType
<1> QED
  BY <1>1, UsrAccelInvariant, PTL
-----------------------------------------------------------------------------
(***************************************************************************)
(* What Finish left in the C RAM stays there until a read ends the         *)
(* process: the accelerator is at rest and the host stores nothing.        *)
(***************************************************************************)
ResultKept == uc.finish_reg /\ uc.process /\ residue = {} => ramC = Mirrored(gen)

LEMMA ResultClock ==
  ASSUME Square, AccelInv, CleanDataInv, UsrInv, ResultKept, UsrClock
  PROVE  ResultKept'
<1> SUFFICES ASSUME uc'.finish_reg, uc'.process, residue' = {}
             PROVE  ramC' = Mirrored(gen)'
  BY DEF ResultKept
<1>1. /\ uc.finish_reg \in BOOLEAN /\ uc.Finish_2 \in BOOLEAN /\ uc.process \in BOOLEAN
      /\ uc \in RegisterType
  BY DEF UsrInv, ProcessInv, RegisterType
<1>2. cc.Finish \in BOOLEAN
  BY DEF UsrInv, TypeOK, ControlType
<1>3. RegisterMoves
  <2>1. UsrControlPosedge(axi.phase = "address", axi.araddr, axi.phase = "data", cc.Finish)
    BY DEF UsrClock
  <2>2. (axi.phase = "address") \in BOOLEAN /\ (axi.phase = "data") \in BOOLEAN
    OBVIOUS
  <2> QED
    BY <1>1, <1>2, <2>1, <2>2, RegisterClock
<1>4. uc.process /\ (uc.finish_reg \/ cc.Finish)
  BY <1>1, <1>2, <1>3 DEF RegisterMoves
<1>5. Clock(uc.start) /\ gen' = gen /\ residue' = residue /\ RamPosedge
  BY DEF UsrClock, Clock, Posedge
<1>6. cc.state = "IDLE"
  BY <1>4 DEF UsrInv, ProcessInv, Pulsed, Seen, Running, Finishing, Finished
<1>7. ramC = Mirrored(gen)
  <2>1. FinishHoldsMirroredProduct
    BY DataHoldsProduct
  <2> QED
    BY <1>4, <1>5, <2>1 DEF ResultKept, FinishHoldsMirroredProduct
<1>8. gw.bram_state = "IDLE"
  BY <1>5, <1>6 DEF AccelInv, HandshakeInv, AtRest, GatherQuiet
<1>9. ramC' = ramC
  BY <1>5, <1>8 DEF RamPosedge, GatherCWe
<1> QED
  BY <1>5, <1>7, <1>9 DEF Mirrored

LEMMA ResultStep ==
  ASSUME Square, AccelInv, CleanDataInv, UsrInv, ResultKept, [UsrNext]_usrVars
  PROVE  ResultKept'
<1>1. CASE UsrReset
  BY <1>1 DEF UsrReset, UsrControlReset, ResultKept, UsrInv, ProcessInv, RegisterType
<1>2. CASE UsrStore
  BY <1>2 DEF UsrStore, ResultKept
<1>3. CASE UNCHANGED usrVars
  BY <1>3 DEF usrVars, mmVars, ramVars, ResultKept, Mirrored
<1> QED
  BY <1>1, <1>2, <1>3, ResultClock DEF UsrNext

(***************************************************************************)
(* A STATUS read that can return 2 finds the accelerator idle and the      *)
(* whole product of the stored matrices in the C RAM, for square matrices  *)
(* of every size, every tile side and every data with an associative       *)
(* addition, unless a reset left Final or write_back set: from the pulse   *)
(* that starts compute_control to the register the host polls nothing      *)
(* reports early, and nothing spoils the result before the host was told.  *)
(***************************************************************************)
THEOREM StatusIsProduct ==
  ASSUME Square, NEW CONSTANT V, Arithmetic(V)
  PROVE  UsrSpec => []StatusMeansProduct
<1>1. UsrInit => CleanDataInv
  BY DataInit DEF UsrInit, CleanDataInv
<1>2. AccelInv /\ CleanDataInv /\ UsrInv /\ [UsrNext]_usrVars => CleanDataInv'
  BY UsrTakesSteps, DataStep
<1>3. UsrInit => ResultKept
  BY DEF UsrInit, UsrControlInit, ResultKept
<1>4. AccelInv /\ CleanDataInv /\ UsrInv /\ ResultKept /\ [UsrNext]_usrVars => ResultKept'
  BY ResultStep
<1>5. ResultKept /\ StatusMeansIdle => StatusMeansProduct
  BY DEF ResultKept, StatusMeansIdle, StatusMeansProduct
<1> QED
  BY <1>1, <1>2, <1>3, <1>4, <1>5, UsrAccelInvariant, UsrInvariant, StatusIsIdle, PTL DEF UsrSpec
=============================================================================
