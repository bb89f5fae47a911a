------------------------------ MODULE UsrLogic ------------------------------
(***************************************************************************)
(* Usr_Logic.sv: the register block and the accelerator on one clock and   *)
(* one reset, driven by the AXI-Lite master of the XDMA core, which        *)
(* carries one read at a time. Usr_control never accepts a write, and the  *)
(* user interrupt is tied to zero.                                         *)
(***************************************************************************)
EXTENDS MatrixMultiply, UsrControl

VARIABLE axi   \* the AXI-Lite master: phase of its read and the address

usrVars == <<mmVars, uc, axi>>

MasterInit == axi = [phase |-> "idle", araddr |-> "OTHER"]

\* The read channel of the master: a request is held until arready, and the
\* next one is issued only after the response of the last has been taken.
MasterPosedge ==
  axi' \in
    CASE axi.phase = "idle"
           -> {axi} \cup [phase : {"address"}, araddr : Address]
      [] axi.phase = "address"
           -> {[axi EXCEPT !.phase = IF uc.arready THEN "data" ELSE "address"]}
      [] axi.phase = "data"
           -> {[axi EXCEPT !.phase = IF uc.rvalid THEN "idle" ELSE "data"]}

UsrInit == Init /\ UsrControlInit /\ MasterInit

UsrClock ==
  /\ Clock(uc.start)
  /\ UsrControlPosedge(axi.phase = "address", axi.araddr, axi.phase = "data",
                       cc.Finish)
  /\ MasterPosedge

\* user_resetn resets the accelerator, the register block and the AXI master.
UsrReset ==
  /\ Reset
  /\ UsrControlReset
  /\ axi' = [axi EXCEPT !.phase = "idle"]

\* The host stores matrices only while no multiplication is in process.
UsrStore ==
  /\ Store
  /\ ~uc.process /\ axi.phase = "idle"
  /\ UNCHANGED <<uc, axi>>

UsrNext == UsrClock \/ UsrReset \/ UsrStore

\* The clock never stops; the master is not obliged to issue anything new.
QuietClock == UsrClock /\ (axi.phase = "idle" => axi'.phase = "idle")

UsrSpec == UsrInit /\ [][UsrNext]_usrVars /\ WF_usrVars(QuietClock)
-----------------------------------------------------------------------------
(***************************************************************************)
(* A STATUS read that can return 2 finds the accelerator idle and the C    *)
(* RAM complete: nothing the host does between START and STATUS lets a     *)
(* stale Finish, or the Finish of an earlier run, be reported.             *)
(***************************************************************************)
StatusMeansProduct ==
  uc.finish_reg /\ uc.process /\ residue = {} =>
    cc.state = "IDLE" /\ ramC = Mirrored(gen)

(***************************************************************************)
(* While no multiplication is in process the accelerator is at rest, so    *)
(* the two-clock start pulse always finds it idle and starts one run.      *)
(***************************************************************************)
RestOutsideProcess == ~uc.process => cc.state = "IDLE" /\ ~uc.start

(***************************************************************************)
(* An accepted START is followed by a finish the host can read, or by a    *)
(* reset that clears the process. A run after a reset that left Final or   *)
(* write_back set is excepted: with write_back it may hang (see            *)
(* AlwaysIdleAgain).                                                       *)
(***************************************************************************)
ProcessFinishes ==
  uc.process ~> (uc.finish_reg \/ ~uc.process \/ residue # {})

\* Every read the master issues is answered.
ReadsAnswered == (axi.phase # "idle") ~> (axi.phase = "idle")
=============================================================================
