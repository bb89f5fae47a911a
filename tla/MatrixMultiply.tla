--------------------------- MODULE MatrixMultiply ---------------------------
(***************************************************************************)
(* Matrix_Multiply.sv with the block RAMs of Usr_Logic.sv: the clocked     *)
(* composition of the sequencer, the two scatter units, the processing     *)
(* elements and the gather unit. One step is one rising clock edge: every  *)
(* register of every block takes its next value from the values all the    *)
(* registers had before the edge.                                          *)
(***************************************************************************)
EXTENDS ComputeControl, ScatterA, ScatterB, PEArray, GatherC

CONSTANTS
  MaxRuns,        \* bound on how many pairs of matrices the host stores
  MaxResets,      \* bound on resets after power-up
  AData(_, _),    \* AData(g, x): element x of the g-th matrix A
  BData(_, _)     \* BData(g, x): element x of the g-th matrix B

ASSUME BoundAssumption == MaxRuns \in Nat \ {0} /\ MaxResets \in Nat

VARIABLES
  ramA, ramB, ramC,   \* the block RAMs, one element per index, row-major
  rdA, rdB,           \* output registers of the RAM ports of scatter_a/b
  gen,                \* which pair of matrices ramA and ramB hold
  resets,             \* resets so far
  residue             \* which of Final and write_back a reset left set (history)

coreVars == <<cc, sa, sb, pe, gr, gw, cbuf>>
ramVars  == <<ramA, ramB, ramC, rdA, rdB>>
mmVars   == <<coreVars, ramVars, gen, resets, residue>>

MatrixA(g) == [x \in 0 .. A_SIZE_Y * A_SIZE_X - 1 |-> AData(g, x)]
MatrixB(g) == [x \in 0 .. B_SIZE_Y * B_SIZE_X - 1 |-> BData(g, x)]

Init ==
  /\ ControlInit /\ ScatterAInit /\ ScatterBInit /\ PEInit /\ GatherInit
  /\ gen = 1 /\ resets = 0 /\ residue = {}
  /\ ramA = MatrixA(1) /\ ramB = MatrixB(1)
  /\ ramC = [x \in 0 .. A_SIZE_Y * B_SIZE_X - 1 |-> Junk]
  /\ rdA = ZeroLanes /\ rdB = ZeroLanes

(***************************************************************************)
(* The RAM ports: read data appears one clock after the address; the C     *)
(* port writes while gather_c holds its write enable.                      *)
(***************************************************************************)
RamPosedge ==
  /\ rdA' = ReadWord(ramA, ScatterAAddr)
  /\ rdB' = ReadWord(ramB, ScatterBAddr)
  /\ ramC' = IF GatherCWe THEN WriteWord(ramC, GatherCAddr, GatherCData)
                          ELSE ramC
  /\ UNCHANGED <<ramA, ramB>>

\* One clock edge; start is the level of the start wire of Usr_control.
Posedge(start) ==
  LET a_ins  == AIn(rdA)
      c_outs == COuts(a_ins)
  IN  /\ ControlPosedge(start, sb.load_done, GatherDone)
      /\ ScatterAPosedge(cc.start_cal)
      /\ ScatterBPosedge(cc.B_load, rdB)
      /\ PEPosedge(sb.stationaryCtrl, sb.b_ins)
      /\ GatherPosedge(cc.start_cal, c_outs)
      /\ RamPosedge

Clock(start) == Posedge(start) /\ UNCHANGED <<gen, resets, residue>>

\* A clock edge with rst = !user_resetn asserted. The RAMs have no reset.
Reset ==
  /\ resets < MaxResets
  /\ resets' = resets + 1
  /\ residue' = residue \cup {r \in {"Final"} : sb.Final}
                      \cup {r \in {"write_back"} : gr.write_back}
  /\ ControlReset /\ ScatterAReset /\ ScatterBReset /\ PEReset /\ GatherReset
  /\ RamPosedge
  /\ UNCHANGED gen

\* The host stores the next pair of matrices while the accelerator is idle.
Store ==
  /\ cc.state = "IDLE" /\ ~cc.Finish
  /\ gen < MaxRuns
  /\ gen' = gen + 1
  /\ ramA' = MatrixA(gen + 1) /\ ramB' = MatrixB(gen + 1)
  /\ UNCHANGED <<coreVars, ramC, rdA, rdB, resets, residue>>

Next == \/ \E start \in BOOLEAN : Clock(start)
        \/ Reset
        \/ Store

\* The clock never stops; nobody is obliged to pulse start.
Spec == Init /\ [][Next]_mmVars /\ WF_mmVars(Clock(FALSE))
-----------------------------------------------------------------------------
TypeOK ==
  /\ cc \in ControlType
  /\ sa \in ScatterAType
  /\ sb \in ScatterBType
  /\ gr \in ReceiveType /\ gw \in WriteBackType
  /\ gen \in 1 .. MaxRuns /\ resets \in 0 .. MaxResets
  /\ residue \subseteq {"Final", "write_back"}

\* The element in row r, column c of the product of the g-th matrices.
Terms(g, r, c) ==
  [k \in 0 .. A_SIZE_X - 1 |-> Mul(BData(g, k * B_SIZE_X + c),
                                   AData(g, r * A_SIZE_X + k))]
ProductAt(g, r, c) == AddUp(A_SIZE_X, Terms(g, r, c))

\* The column the array writes for column c: the columns of every block of N
\* come out in reverse, because the first column shifted in ends deepest.
MirrorColumn(c) == (c \div N) * N + (N - 1 - (c % N))

Mirrored(g) ==
  [x \in DOMAIN ramC |->
     ProductAt(g, x \div B_SIZE_X, MirrorColumn(x % B_SIZE_X))]
Product(g) ==
  [x \in DOMAIN ramC |-> ProductAt(g, x \div B_SIZE_X, x % B_SIZE_X)]

(***************************************************************************)
(* When compute_control raises Finish, the C RAM holds every element of    *)
(* the product of the two stored matrices, the columns of each N-wide      *)
(* block mirrored: no row is dropped, none is accumulated twice and        *)
(* nothing of an earlier run or of the prefetch leaks in. This excludes    *)
(* only runs after a reset that left Final or write_back set, which        *)
(* scatter_b and gather_c do not reset.                                    *)
(***************************************************************************)
FinishHoldsMirroredProduct == cc.Finish /\ residue = {} => ramC = Mirrored(gen)

(***************************************************************************)
(* compare2.c, the reference for the accelerator, computes                 *)
(* C[i][j] += A[i][k] * B[k][j]; this says the accelerator stores that.    *)
(***************************************************************************)
FinishHoldsProduct == cc.Finish => ramC = Product(gen)

(***************************************************************************)
(* The one-clock B_load pulse of compute_control always finds scatter_b    *)
(* ready (idle or with the next tile prefetched). A pulse that came while  *)
(* scatter_b was still fetching would be lost and the run would hang.      *)
(***************************************************************************)
LoadPulseSeen == cc.B_load => sb.state \in {"IDLE", "WAITING"}

(***************************************************************************)
(* While rows of A stream through the array the tile in the processing     *)
(* elements does not move: the prefetch of the next tile stays in buffer_B.*)
(***************************************************************************)
TileStationary == sa.output_enable => ~sb.stationaryCtrl

(***************************************************************************)
(* Every accepted start ends in Finish: no handshake between the units     *)
(* (B_load/load_done, start_cal/C_gather_done, write_back) is missed.      *)
(***************************************************************************)
EveryStartFinishes == (cc.state = "PREPARING") ~> cc.Finish

(***************************************************************************)
(* A reset at any moment, also one that leaves Final set, never hangs the  *)
(* accelerator: it always comes back to IDLE. A reset that leaves          *)
(* write_back set is excepted: gather_c then writes back once more and     *)
(* raises C_gather_done by itself A_SIZE_Y + 2 clocks later. If that falls *)
(* into the first clocks of COMPUTING, compute_control pulses B_load while *)
(* scatter_b still fetches, the pulse is lost and the run hangs.           *)
(***************************************************************************)
AlwaysIdleAgain == []<>(cc.state = "IDLE" \/ "write_back" \in residue)

(***************************************************************************)
(* Seen as busy/idle, with the C RAM read only when idle, the accelerator  *)
(* implements AcceleratorContract.                                         *)
(***************************************************************************)
Busy == cc.state # "IDLE"
Contract ==
  INSTANCE AcceleratorContract WITH
    NoResult <- 0, busy <- Busy, inputs <- gen,
    result <- IF ~Busy /\ \E g \in 1 .. gen : ramC = Mirrored(g)
              THEN CHOOSE g \in 1 .. gen : ramC = Mirrored(g)
              ELSE 0
ImplementsContract == Contract!Spec
=============================================================================
