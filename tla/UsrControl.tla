----------------------------- MODULE UsrControl -----------------------------
(***************************************************************************)
(* Usr_control.v: the AXI-Lite register block between the host and the     *)
(* accelerator. Reading START (0x1000) starts a multiplication unless one  *)
(* is in process; reading STATUS (0x2000) returns 2 once it has finished,  *)
(* and only that read ends the process. The write channel is left out:     *)
(* awready and wready are never raised.                                    *)
(***************************************************************************)
EXTENDS Integers

VARIABLE uc   \* the registers of Usr_control

Address == {"START", "STATUS", "OTHER"}   \* araddr[13:12] = 01, 10, other

UsrControlInit ==
  uc = [finish_reg |-> FALSE, Finish_2 |-> FALSE, start |-> FALSE,
        start_2 |-> FALSE, process |-> FALSE, arready |-> FALSE,
        rvalid |-> FALSE, rdata |-> 0]

\* The asynchronous reset assigns every register but rdata and rresp.
UsrControlReset ==
  uc' = [finish_reg |-> FALSE, Finish_2 |-> FALSE, start |-> FALSE,
         start_2 |-> FALSE, process |-> FALSE, arready |-> FALSE,
         rvalid |-> FALSE, rdata |-> uc.rdata]

\* A read address is taken in a clock in which arready is still low.
AcceptRead(arvalid) == arvalid /\ ~uc.arready

\* This clock accepts a START read that begins a multiplication.
BeginProcess(arvalid, araddr) ==
  AcceptRead(arvalid) /\ araddr = "START" /\ ~uc.process

\* Faulty variant: any STATUS read ends the process.
EndProcess_Unfinished(arvalid, araddr) == AcceptRead(arvalid) /\ araddr = "STATUS"

\* This clock accepts a STATUS read that reports the end of one.
EndProcess(arvalid, araddr) ==
  AcceptRead(arvalid) /\ araddr = "STATUS" /\ uc.finish_reg

\* Faulty variant: a start does not clear the finish of the last run.
FinishReg_NotCleared(arvalid, araddr, Finish) ==
  uc.finish_reg \/ (Finish /\ ~uc.Finish_2)

\* Faulty variant: Finish must be up for two clocks to be latched.
FinishReg_PulseMissed(arvalid, araddr, Finish) ==
  /\ uc.finish_reg \/ (Finish /\ uc.Finish_2)
  /\ ~BeginProcess(arvalid, araddr)

\* A rising edge of Finish is latched; a start in the same clock wins.
FinishReg(arvalid, araddr, Finish) ==
  /\ uc.finish_reg \/ (Finish /\ ~uc.Finish_2)
  /\ ~BeginProcess(arvalid, araddr)

\* start stays up for two clocks.
StartPulse(arvalid, araddr) ==
  BeginProcess(arvalid, araddr) \/ (uc.start /\ ~uc.start_2)
StartPulse2 == IF uc.start THEN ~uc.start_2 ELSE uc.start_2

ReadData(arvalid, araddr) ==
  CASE ~AcceptRead(arvalid) -> uc.rdata
    [] AcceptRead(arvalid) /\ araddr = "STATUS"
         -> IF uc.finish_reg THEN 2 ELSE 0
    [] AcceptRead(arvalid) /\ araddr = "START" -> 1
    [] OTHER -> 0

\* Faulty variant: the response waits for rready in the clock of arready.
ReadValid_NeedsReady(rready) ==
  \/ uc.arready /\ rready /\ ~uc.rvalid
  \/ uc.rvalid /\ ~rready

ReadValid(rready) ==
  \/ uc.arready /\ ~uc.rvalid
  \/ uc.rvalid /\ ~rready

UsrControlPosedge(arvalid, araddr, rready, Finish) ==
  uc' = [uc EXCEPT
           !.Finish_2   = Finish,
           !.finish_reg = FinishReg(arvalid, araddr, Finish),
           !.start      = StartPulse(arvalid, araddr),
           !.start_2    = StartPulse2,
           !.process    = \/ BeginProcess(arvalid, araddr)
                          \/ @ /\ ~EndProcess(arvalid, araddr),
           !.arready    = AcceptRead(arvalid),
           !.rdata      = ReadData(arvalid, araddr),
           !.rvalid     = ReadValid(rready)]
=============================================================================
