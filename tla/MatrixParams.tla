---------------------------- MODULE MatrixParams ----------------------------
(***************************************************************************)
(* The parameters every block of the matrix multiplication accelerator     *)
(* (FPGA/RTL/src) is elaborated with, and the data it computes on.         *)
(*                                                                         *)
(* A has A_SIZE_Y rows of A_SIZE_X elements, B has B_SIZE_Y rows of        *)
(* B_SIZE_X; both are stored row-major in block RAMs whose word, as the    *)
(* accelerator sees it, holds N elements (128 bits of 8-bit elements at    *)
(* N = 16).                                                                *)
(* The arithmetic is a parameter: the control of the accelerator never     *)
(* looks at the data, so an instance may compute with 2W-bit integers or   *)
(* with uninterpreted terms.                                               *)
(***************************************************************************)
EXTENDS Integers

CONSTANTS
  N,          \* tile side: the array has N x N processing elements
  A_SIZE_X,   \* DATA_A_SIZE_X, the columns of A
  A_SIZE_Y,   \* DATA_A_SIZE_Y, the rows of A
  B_SIZE_X,   \* DATA_B_SIZE_X, the columns of B
  B_SIZE_Y,   \* DATA_B_SIZE_Y, the rows of B
  Zero,       \* the value of a cleared register
  Junk,       \* the value of a RAM element no matrix was stored in
  Add(_, _),  \* 2W-bit addition
  Mul(_, _)   \* W-bit by W-bit signed multiplication into 2W bits

ASSUME SizeAssumption ==
  /\ N \in Nat \ {0}
  /\ \A s \in {A_SIZE_X, A_SIZE_Y, B_SIZE_X, B_SIZE_Y} : s \in Nat \ {0} /\ s % N = 0
  /\ A_SIZE_X = B_SIZE_Y

\* The N-bit counters must be able to count to N + 1 and DATA_A_SIZE_Y + 1.
ASSUME WidthAssumption == 2^N \in Nat /\ N + 1 < 2^N /\ A_SIZE_Y + 1 < 2^N

Lane == 0 .. N - 1

\* The counters in_block_cnt, load_cnt and write_back_cnt are N bits wide.
Incr(cnt) == (cnt + 1) % 2^N

ZeroLanes == [j \in Lane |-> Zero]
ZeroTile  == [i \in Lane |-> ZeroLanes]

\* The N elements of the RAM word at word address addr.
ReadWord(ram, addr) ==
  [j \in Lane |-> IF addr * N + j \in DOMAIN ram THEN ram[addr * N + j]
                                                 ELSE Junk]

\* Writing N elements at word address addr of a RAM that holds a matrix.
WriteWord(ram, addr, word) ==
  [x \in DOMAIN ram |-> IF x \div N = addr THEN word[x % N] ELSE ram[x]]

\* The sum of term[k] over k \in 0 .. n - 1, as a chain of Adds.
AddUp(n, term) ==
  LET partial[k \in 0 .. n] ==
        IF k = 0 THEN Zero ELSE Add(partial[k - 1], term[k - 1])
  IN  partial[n]
=============================================================================
