------------------------- MODULE HostSystem_proofs --------------------------
(***************************************************************************)
(* Theorems about HostSystem, for every set of clients.                    *)
(***************************************************************************)
EXTENDS HostSystem, TLAPS

USE DEF Goto

(***************************************************************************)
(* The registers and RAMs keep their types, whatever the programs do.      *)
(***************************************************************************)
THEOREM TypeCorrect == Spec => []TypeOK
<1>1. Init => TypeOK
  <2> SUFFICES ASSUME Init PROVE TypeOK
    OBVIOUS
  <2>1. pc \in [Clients -> {"new"} \cup Active \cup Ended]
    BY DEF Init
  <2>2. got \in [Clients -> Owner \X Owner]
    BY DEF Init, Owner, NoProduct
  <2>3. QED
    BY <2>1, <2>2 DEF Init, TypeOK, Owner, NoProduct
<1>2. TypeOK /\ [Next]_hostVars => TypeOK'
  <2> SUFFICES ASSUME TypeOK, [Next]_hostVars PROVE TypeOK'
    OBVIOUS
  <2> USE DEF TypeOK, Owner, NoProduct, Active, Ended
  <2>1. ASSUME NEW c \in Clients, Enter(c) PROVE TypeOK'
    BY <2>1 DEF Enter, ramVars, controlVars
  <2>2. ASSUME NEW c \in Clients, WriteA(c) PROVE TypeOK'
    BY <2>2 DEF WriteA
  <2>3. ASSUME NEW c \in Clients, WriteB(c) PROVE TypeOK'
    BY <2>3 DEF WriteB
  <2>4. ASSUME NEW c \in Clients, OpenUser(c) PROVE TypeOK'
    BY <2>4 DEF OpenUser, ramVars, controlVars
  <2>5. ASSUME NEW c \in Clients, ReadStart(c) PROVE TypeOK'
    BY <2>5 DEF ReadStart
  <2>6. ASSUME NEW c \in Clients, ReadStartFails(c) PROVE TypeOK'
    BY <2>6 DEF ReadStartFails, ramVars, controlVars
  <2>7. ASSUME NEW c \in Clients, PollDone(c) PROVE TypeOK'
    BY <2>7 DEF PollDone, ramVars
  <2>8. ASSUME NEW c \in Clients, ReadResult(c) PROVE TypeOK'
    BY <2>8 DEF ReadResult, ramVars, controlVars
  <2>9. ASSUME NEW c \in Clients, Fail(c) PROVE TypeOK'
    BY <2>9 DEF Fail
  <2>10. ASSUME NEW c \in Clients, Kill(c) PROVE TypeOK'
    BY <2>10 DEF Kill, ramVars, controlVars
  <2>11. CASE Multiply
    BY <2>11 DEF Multiply, clientVars
  <2>12. CASE UNCHANGED hostVars
    BY <2>12 DEF hostVars, clientVars, ramVars, controlVars
  <2>13. QED
    BY <2>1, <2>2, <2>3, <2>4, <2>5, <2>6, <2>7, <2>8, <2>9, <2>10, <2>11,
       <2>12 DEF Next, Program, AllEnded
<1>3. QED
  BY <1>1, <1>2, PTL DEF Spec

-----------------------------------------------------------------------------
(***************************************************************************)
(* The register protocol of Usr_control is sound under any behaviour of    *)
(* any number of programs, overlapping, failing or killed: the accelerator *)
(* is busy only inside an unfinished process, and an unfinished process    *)
(* has a busy accelerator.                                                 *)
(***************************************************************************)
THEOREM RegisterProtocol == Spec => [](BusyInProcess /\ ProcessProgresses)
<1>1. Init => BusyInProcess /\ ProcessProgresses
  BY DEF Init, BusyInProcess, ProcessProgresses
<1>2. ASSUME TypeOK, BusyInProcess, ProcessProgresses, [Next]_hostVars
      PROVE  BusyInProcess' /\ ProcessProgresses'
  <2> USE <1>2 DEF TypeOK, BusyInProcess, ProcessProgresses
  <2>1. ASSUME NEW c \in Clients, ReadStart(c)
        PROVE  BusyInProcess' /\ ProcessProgresses'
    BY <2>1 DEF ReadStart
  <2>2. ASSUME NEW c \in Clients, PollDone(c)
        PROVE  BusyInProcess' /\ ProcessProgresses'
    BY <2>2 DEF PollDone
  <2>3. CASE Multiply
    BY <2>3 DEF Multiply
  <2>4. ASSUME UNCHANGED <<process, finish_reg, busy>>
        PROVE  BusyInProcess' /\ ProcessProgresses'
    BY <2>4
  <2>5. ASSUME NEW c \in Clients,
               Enter(c) \/ WriteA(c) \/ WriteB(c) \/ OpenUser(c)
                 \/ ReadStartFails(c) \/ ReadResult(c) \/ Fail(c) \/ Kill(c)
        PROVE  UNCHANGED <<process, finish_reg, busy>>
    BY <2>5 DEF Enter, WriteA, WriteB, OpenUser, ReadStartFails, ReadResult,
                Fail, Kill, controlVars
  <2>6. CASE UNCHANGED hostVars
    BY <2>4, <2>6 DEF hostVars, controlVars
  <2>7. QED
    BY <2>1, <2>2, <2>3, <2>4, <2>5, <2>6 DEF Next, Program, AllEnded
<1>3. QED
  BY <1>1, <1>2, TypeCorrect, PTL DEF Spec

(***************************************************************************)
(* So no kill, failed mapping or overlap of programs leaves a process that *)
(* neither runs nor has finished: a later STATUS poll of it ends.          *)
(***************************************************************************)
THEOREM ProcessNeverStuck == Spec => []ProcessProgresses
BY RegisterProtocol, PTL
-----------------------------------------------------------------------------
(***************************************************************************)
(* Programs that run one after the other and are neither killed nor denied *)
(* the register mapping. The invariant says what the running program may   *)
(* rely on at each point of main(): which of its matrices are in the RAMs, *)
(* that a process is its own, and that a finished process left its product *)
(* in the C RAM.                                                           *)
(***************************************************************************)
OneActive ==
  \A c, d \in Clients : pc[c] \in Active /\ pc[d] \in Active => c = d

ProcessHasPoller == process => \E c \in Clients : pc[c] = "poll"

Progress(c) ==
  /\ pc[c] \in {"writeB", "open", "start", "poll"} => ramA = c
  /\ pc[c] \in {"open", "start", "poll"} => ramB = c
  /\ pc[c] = "poll" => process /\ ~spoiled
  /\ pc[c] = "poll" /\ finish_reg => ramC = <<c, c>>
  /\ pc[c] = "read" => ramC = <<c, c>>
  /\ pc[c] = "done" => got[c] = <<c, c>>

SequentialInv ==
  /\ OneActive
  /\ ProcessHasPoller
  /\ \A c \in Clients : Progress(c)

\* Only the running program can be in process, so a START finds none.
LEMMA OthersQuiet ==
  ASSUME SequentialInv, NEW c \in Clients, pc[c] \in Active, pc[c] # "poll"
  PROVE  ~process
BY DEF SequentialInv, OneActive, ProcessHasPoller, Active

LEMMA SequentialStep ==
  ASSUME ~Overlap, ~Crash, ~MmapFails,
         TypeOK, BusyInProcess, SequentialInv, [Next]_hostVars
  PROVE  SequentialInv'
<1> USE DEF TypeOK, Active, Ended, Owner, NoProduct
<1>1. ASSUME NEW c \in Clients, Enter(c) PROVE SequentialInv'
  BY <1>1 DEF Enter, SequentialInv, OneActive, ProcessHasPoller, Progress,
              ramVars, controlVars
<1>2. ASSUME NEW c \in Clients, WriteA(c) PROVE SequentialInv'
  <2>1. ~busy
    BY <1>2, OthersQuiet DEF WriteA, BusyInProcess
  <2>2. QED
    BY <1>2, <2>1 DEF WriteA, SequentialInv, OneActive, ProcessHasPoller,
                      Progress
<1>3. ASSUME NEW c \in Clients, WriteB(c) PROVE SequentialInv'
  <2>1. ~busy
    BY <1>3, OthersQuiet DEF WriteB, BusyInProcess
  <2>2. QED
    BY <1>3, <2>1 DEF WriteB, SequentialInv, OneActive, ProcessHasPoller,
                      Progress
<1>4. ASSUME NEW c \in Clients, OpenUser(c) PROVE SequentialInv'
  BY <1>4 DEF OpenUser, SequentialInv, OneActive, ProcessHasPoller, Progress,
              ramVars, controlVars
<1>5. ASSUME NEW c \in Clients, ReadStart(c) PROVE SequentialInv'
  <2>1. ~process
    BY <1>5, OthersQuiet DEF ReadStart
  <2>2. QED
    BY <1>5, <2>1 DEF ReadStart, SequentialInv, OneActive, ProcessHasPoller,
                      Progress
<1>6. ASSUME NEW c \in Clients, PollDone(c) PROVE SequentialInv'
  BY <1>6 DEF PollDone, SequentialInv, OneActive, ProcessHasPoller, Progress,
              ramVars
<1>7. ASSUME NEW c \in Clients, ReadResult(c) PROVE SequentialInv'
  BY <1>7 DEF ReadResult, SequentialInv, OneActive, ProcessHasPoller,
              Progress, ramVars, controlVars
<1>8. ASSUME NEW c \in Clients, Fail(c) PROVE SequentialInv'
  BY <1>8 DEF Fail, SequentialInv, OneActive, ProcessHasPoller, Progress
<1>9. CASE Multiply
  BY <1>9 DEF Multiply, SequentialInv, OneActive, ProcessHasPoller, Progress,
              clientVars, BusyInProcess
<1>10. CASE UNCHANGED hostVars
  BY <1>10 DEF SequentialInv, OneActive, ProcessHasPoller, Progress,
               hostVars, clientVars, ramVars, controlVars
<1>11. QED
  BY <1>1, <1>2, <1>3, <1>4, <1>5, <1>6, <1>7, <1>8, <1>9, <1>10
     DEF Next, Program, Kill, ReadStartFails, AllEnded

(***************************************************************************)
(* If programs do not overlap, are not killed and get their mapping, every *)
(* one that ends normally has read the product of its own two matrices,    *)
(* however many programs there are and however their DMA calls fail.       *)
(***************************************************************************)
THEOREM SequentialResult ==
  ASSUME ~Overlap, ~Crash, ~MmapFails
  PROVE  Spec => []ResultCorrect
<1>1. Init => SequentialInv
  BY DEF Init, SequentialInv, OneActive, ProcessHasPoller, Progress, Active
<1>2. TypeOK /\ BusyInProcess /\ SequentialInv /\ [Next]_hostVars
        => SequentialInv'
  BY SequentialStep
<1>3. SequentialInv => ResultCorrect
  BY DEF SequentialInv, Progress, ResultCorrect
<1>4. QED
  BY <1>1, <1>2, <1>3, TypeCorrect, RegisterProtocol, PTL DEF Spec

-----------------------------------------------------------------------------
(***************************************************************************)
(* Such programs also keep the accelerator's side of the bargain: mapped   *)
(* to AcceleratorContract, every step is a store into an idle accelerator, *)
(* a start of an idle one, a completion with the product of what is        *)
(* stored, or a stutter. This is the safety part of KeepsContract.         *)
(***************************************************************************)
THEOREM SequentialContract ==
  ASSUME ~Overlap, ~Crash, ~MmapFails
  PROVE  Spec => Contract!Init /\ [][Contract!Next]_(Contract!contractVars)
<1> DEFINE Inv == TypeOK /\ BusyInProcess /\ SequentialInv
<1>1. Init => Contract!Init
  BY DEF Init, Contract!Init
<1>2. ASSUME Inv, [Next]_hostVars
      PROVE  [Contract!Next]_(Contract!contractVars)
  <2> USE DEF Contract!Next, Contract!contractVars
  <2>1. ASSUME NEW c \in Clients, WriteA(c) \/ WriteB(c)
        PROVE  [Contract!Next]_(Contract!contractVars)
    <3>1. ~busy
      BY <1>2, <2>1, OthersQuiet DEF WriteA, WriteB, BusyInProcess, Active
    <3>2. QED
      BY <2>1, <3>1 DEF WriteA, WriteB, Contract!StoreInputs
  <2>2. ASSUME NEW c \in Clients, Fail(c)
        PROVE  [Contract!Next]_(Contract!contractVars)
    <3>1. pc[c] \in {"writeA", "writeB"} => ~busy
      BY <1>2, OthersQuiet DEF BusyInProcess, Active
    <3>2. QED
      BY <2>2, <3>1 DEF Fail, Contract!StoreInputs
  <2>3. ASSUME NEW c \in Clients, ReadStart(c)
        PROVE  [Contract!Next]_(Contract!contractVars)
    <3>1. ~process /\ ~busy
      BY <1>2, <2>3, OthersQuiet DEF ReadStart, BusyInProcess, Active
    <3>2. QED
      BY <1>2, <2>3, <3>1 DEF ReadStart, TypeOK, Contract!Begin
  <2>4. CASE Multiply
    <3>1. ~spoiled
      BY <1>2, <2>4 DEF Multiply, BusyInProcess, SequentialInv,
                        ProcessHasPoller, Progress
    <3>2. QED
      BY <2>4, <3>1 DEF Multiply, Contract!Complete
  <2>5. ASSUME NEW c \in Clients,
               Enter(c) \/ OpenUser(c) \/ PollDone(c) \/ ReadResult(c)
        PROVE  UNCHANGED Contract!contractVars
    BY <2>5 DEF Enter, OpenUser, PollDone, ReadResult, ramVars, controlVars
  <2>6. CASE UNCHANGED hostVars
    BY <2>6 DEF hostVars, ramVars, controlVars
  <2>7. QED
    BY <1>2, <2>1, <2>2, <2>3, <2>4, <2>5, <2>6
       DEF Next, Program, Kill, ReadStartFails, AllEnded
<1>3. Init => SequentialInv
  BY DEF Init, SequentialInv, OneActive, ProcessHasPoller, Progress, Active
<1>4. Inv /\ [Next]_hostVars => SequentialInv'
  BY SequentialStep
<1>5. QED
  BY <1>1, <1>2, <1>3, <1>4, TypeCorrect, RegisterProtocol, PTL DEF Spec
=============================================================================
