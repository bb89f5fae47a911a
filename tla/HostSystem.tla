----------------------------- MODULE HostSystem -----------------------------
(***************************************************************************)
(* matrix_top2.c on top of the accelerator: programs ("clients") that      *)
(* store their matrices, start the multiplication, poll the status and     *)
(* read the result, over one FPGA. One step is one system call or one      *)
(* AXI-Lite read. The FPGA is seen through what UsrLogic establishes: the  *)
(* registers process and finish_reg of Usr_control, and an accelerator     *)
(* that turns the stored pair of matrices into a product.                  *)
(*                                                                         *)
(* A matrix is identified with the client it belongs to; the product in    *)
(* the C RAM with the pair of clients whose A and B were multiplied.       *)
(***************************************************************************)
EXTENDS FiniteSets

CONSTANTS
  Clients,     \* executions of matrix_top2
  Overlap,     \* TRUE: they may run at the same time
  Crash,       \* TRUE: one may be killed at any point
  MmapFails,   \* TRUE: mmap of the registers may fail
  IoFails,     \* TRUE: open, read and write of the DMA devices may fail
  Garbage      \* content of a RAM that is no whole matrix

ASSUME HostAssumption ==
  /\ Garbage \notin Clients
  /\ {Overlap, Crash, MmapFails, IoFails} \subseteq BOOLEAN

VARIABLES
  pc,           \* pc[c]: where client c is in main()
  got,          \* got[c]: the product client c read, or Garbage
  ramA, ramB,   \* whose matrix is in the A and B RAMs
  ramC,         \* the pair <<a, b>> whose product is in the C RAM
  process,      \* Usr_control: a multiplication is in process
  finish_reg,   \* Usr_control: it has finished
  busy,         \* the accelerator is multiplying
  spoiled       \* a RAM was written during the multiplication

clientVars  == <<pc, got>>
ramVars     == <<ramA, ramB, ramC>>
controlVars == <<process, finish_reg, busy, spoiled>>
hostVars    == <<clientVars, ramVars, controlVars>>

Owner == Clients \cup {Garbage}
NoProduct == <<Garbage, Garbage>>

Active == {"writeA", "writeB", "open", "start", "poll", "read"}
Ended  == {"done", "failed", "killed"}

TypeOK ==
  /\ pc \in [Clients -> {"new"} \cup Active \cup Ended]
  /\ got \in [Clients -> Owner \X Owner]
  /\ ramA \in Owner /\ ramB \in Owner /\ ramC \in Owner \X Owner
  /\ process \in BOOLEAN /\ finish_reg \in BOOLEAN
  /\ busy \in BOOLEAN /\ spoiled \in BOOLEAN

Init ==
  /\ pc = [c \in Clients |-> "new"]
  /\ got = [c \in Clients |-> NoProduct]
  /\ ramA = Garbage /\ ramB = Garbage /\ ramC = NoProduct
  /\ process = FALSE /\ finish_reg = FALSE
  /\ busy = FALSE /\ spoiled = FALSE

Goto(c, from, to) == pc[c] = from /\ pc' = [pc EXCEPT ![c] = to]

-----------------------------------------------------------------------------
(***************************************************************************)
(* The program.                                                            *)
(***************************************************************************)

\* main() opens the h2c device.
Enter(c) ==
  /\ Overlap \/ \A d \in Clients : pc[d] \notin Active
  /\ Goto(c, "new", "writeA")
  /\ UNCHANGED <<got, ramVars, controlVars>>

\* A DMA into a RAM the accelerator is reading spoils the multiplication.
WriteA(c) ==
  /\ Goto(c, "writeA", "writeB")
  /\ ramA' = c
  /\ spoiled' = (spoiled \/ busy)
  /\ UNCHANGED <<got, ramB, ramC, process, finish_reg, busy>>

WriteB(c) ==
  /\ Goto(c, "writeB", "open")
  /\ ramB' = c
  /\ spoiled' = (spoiled \/ busy)
  /\ UNCHANGED <<got, ramA, ramC, process, finish_reg, busy>>

\* The control device is opened.
OpenUser(c) ==
  /\ Goto(c, "open", "start")
  /\ UNCHANGED <<got, ramVars, controlVars>>

\* Faulty variant: START leaves the finish of the last run readable.
ReadStart_StaleFinish(c) ==
  /\ Goto(c, "start", "poll")
  /\ process' = TRUE
  /\ busy' = (busy \/ ~process)
  /\ spoiled' = (spoiled /\ process)
  /\ ramC' = IF process THEN ramC ELSE NoProduct
  /\ UNCHANGED <<got, ramA, ramB, finish_reg>>

\* Faulty variant: the process is marked but the start pulse is lost.
ReadStart_PulseLost(c) ==
  /\ Goto(c, "start", "poll")
  /\ process' = TRUE
  /\ finish_reg' = (finish_reg /\ process)
  /\ spoiled' = (spoiled /\ process)
  /\ UNCHANGED <<got, ramVars, busy>>

\* The START read begins a multiplication unless one is in process; the
\* program does not look at the value it returns.
ReadStart(c) ==
  /\ Goto(c, "start", "poll")
  /\ process' = TRUE
  /\ finish_reg' = (finish_reg /\ process)
  /\ busy' = (busy \/ ~process)
  /\ spoiled' = (spoiled /\ process)
  /\ ramC' = IF process THEN ramC ELSE NoProduct
  /\ UNCHANGED <<got, ramA, ramB>>

\* The return value of dev_read_mapped is ignored: when the mapping fails
\* the program goes on to poll without having started anything.
ReadStartFails(c) ==
  /\ MmapFails
  /\ Goto(c, "start", "poll")
  /\ UNCHANGED <<got, ramVars, controlVars>>

\* Faulty variant: the loop ends on any STATUS.
PollDone_AnyStatus(c) ==
  /\ Goto(c, "poll", "read")
  /\ process' = FALSE
  /\ UNCHANGED <<got, ramVars, finish_reg, busy, spoiled>>

\* One STATUS read of the polling loop; a failed mapping leaves flag at 0.
PollDone(c) ==
  /\ finish_reg
  /\ Goto(c, "poll", "read")
  /\ process' = FALSE
  /\ UNCHANGED <<got, ramVars, finish_reg, busy, spoiled>>

\* The c2h device is opened and the C RAM read.
ReadResult(c) ==
  /\ Goto(c, "read", "done")
  /\ got' = [got EXCEPT ![c] = ramC]
  /\ UNCHANGED <<ramVars, controlVars>>

\* Faulty variant: a failed program stays in its error path.
Fail_NeverExits(c) ==
  /\ IoFails
  /\ pc[c] \in {"new", "open", "read"}
  /\ pc' = [pc EXCEPT ![c] = "cleanup"]
  /\ UNCHANGED <<got, ramVars, controlVars>>

\* An open fails, or a DMA write fails, perhaps after part of the data.
Fail(c) ==
  /\ IoFails
  /\ \/ /\ pc[c] \in {"new", "open", "read"}
        /\ UNCHANGED <<ramA, ramB, spoiled>>
     \/ /\ pc[c] = "writeA"
        /\ ramA' \in {ramA, Garbage} /\ UNCHANGED ramB
        /\ spoiled' = (spoiled \/ busy)
     \/ /\ pc[c] = "writeB"
        /\ ramB' \in {ramB, Garbage} /\ UNCHANGED ramA
        /\ spoiled' = (spoiled \/ busy)
  /\ pc' = [pc EXCEPT ![c] = "failed"]
  /\ UNCHANGED <<got, ramC, process, finish_reg, busy>>

\* The program is killed between two system calls.
Kill(c) ==
  /\ Crash
  /\ pc[c] \in Active
  /\ pc' = [pc EXCEPT ![c] = "killed"]
  /\ UNCHANGED <<got, ramVars, controlVars>>

\* Faulty variant: the end of the multiplication is not latched.
Multiply_NotLatched ==
  /\ busy
  /\ busy' = FALSE
  /\ ramC' = IF spoiled THEN NoProduct ELSE <<ramA, ramB>>
  /\ UNCHANGED <<clientVars, ramA, ramB, process, finish_reg, spoiled>>

(***************************************************************************)
(* The accelerator finishes: the C RAM is complete and Finish rises.       *)
(***************************************************************************)
Multiply ==
  /\ busy
  /\ busy' = FALSE
  /\ finish_reg' = TRUE
  /\ ramC' = IF spoiled THEN NoProduct ELSE <<ramA, ramB>>
  /\ UNCHANGED <<clientVars, ramA, ramB, process, spoiled>>

Program(c) ==
  \/ Enter(c) \/ WriteA(c) \/ WriteB(c) \/ OpenUser(c)
  \/ ReadStart(c) \/ ReadStartFails(c) \/ PollDone(c) \/ ReadResult(c)

AllEnded == (\A c \in Clients : pc[c] \in Ended) /\ UNCHANGED hostVars

Next ==
  \/ \E c \in Clients : Program(c) \/ Fail(c) \/ Kill(c)
  \/ Multiply
  \/ AllEnded

\* Programs run until they end and the accelerator's clock does not stop.
Spec ==
  /\ Init /\ [][Next]_hostVars
  /\ \A c \in Clients : WF_hostVars(Program(c))
  /\ WF_hostVars(Multiply)
-----------------------------------------------------------------------------
(***************************************************************************)
(* Whatever the programs do, the accelerator multiplies only inside a      *)
(* process that has not finished: so a STATUS of 2 is never reported for a *)
(* multiplication still under way, and no START reaches a busy             *)
(* accelerator.                                                            *)
(***************************************************************************)
BusyInProcess == busy => process /\ ~finish_reg

(***************************************************************************)
(* A process never loses its end: it is either multiplying or finished, so *)
(* a program that polls after its own START is never left waiting.         *)
(***************************************************************************)
ProcessProgresses == process => busy \/ finish_reg

(***************************************************************************)
(* README.md: "The control flow on the Linux side ensures proper           *)
(* synchronization with the FPGA through the AXI-Lite interface." A        *)
(* program that ends normally has read the product of its own matrices.    *)
(***************************************************************************)
ResultCorrect == \A c \in Clients : pc[c] = "done" => got[c] = <<c, c>>

\* Every program ends: the polling loop without a timeout does not hang.
EveryProgramEnds == \A c \in Clients : <>(pc[c] \in Ended)

(***************************************************************************)
(* The programs keep the accelerator's side of the bargain: its RAMs are   *)
(* never written while it is busy (AcceleratorContract).                   *)
(***************************************************************************)
Contract ==
  INSTANCE AcceleratorContract WITH
    NoResult <- NoProduct, inputs <- <<ramA, ramB>>, result <- ramC
KeepsContract == Contract!Spec
=============================================================================
