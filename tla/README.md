# Verification of the embedded matrix accelerator

TLA+ models, TLC configurations and TLAPS proofs for the FPGA matrix
multiplier, the program that drives it and the DMA driver in between. Paths
below are relative to the repository root.

## 1. The system and its parts

A program on the host (`linux/Final/matrix_top2.c`) stores two matrices in
block RAMs of the FPGA through the xdma driver, starts the multiplication by
reading a START register over AXI-Lite, polls a STATUS register until it
reads 2, and reads the result RAM through the driver.

| part | state it keeps | operations | talks to |
|---|---|---|---|
| `compute_control.sv` | FSM IDLE/PREPARING/COMPUTING, tile counters, `B_load`, `start_cal`, `Finish` | one clocked process | pulses `B_load` to scatter_b, `start_cal` to scatter_a and gather_c; waits for `load_done`, `C_gather_done` |
| `Scatter_A.sv` | FSM, row/column counters, output gate | streams rows of A into the array | A RAM, PE array |
| `scatter_B.sv` | FSM, tile counters, tile buffer, `Final` | prefetches the next tile of B while the array works, shifts a tile in on `B_load` | B RAM, PE array |
| `PE.sv`, `PE_array.sv` | one stationary operand and one product per element | shift in, multiply, sum per array row | scatter_a, scatter_b, gather_c |
| `Gather_C.sv` | two FSMs (receive, write back), accumulation buffer | accumulates partial sums, writes a block of columns back, clears the buffer | C RAM, compute_control |
| `Matrix_Multiply.sv` | none | wiring of the above | RAM ports |
| `Usr_control.v` | `process`, `finish_reg`, start pulse, AXI-Lite read channel | START read, STATUS read | the AXI-Lite master, compute_control |
| `Usr_Logic.sv` | the RAMs | wiring, dual-port RAMs | xdma_app |
| `xdma_app.v` | none | selects a RAM by address bits 14:13 | AXI BRAM controller (vendor) |
| `matrix_top2.c`, `xdma_rw_matrix.c`, `compare2.c` | program counter, buffers | open, lseek/write, mmap read, poll, read; reference product | device files |
| `libxdma.c` engine | `transfer_list`, `running`, ring index, `desc_dequeued`, work item | submit, queue, start, stop, abort, interrupt, service, resume | the device, waiting threads |
| `xdma_thread.c` | list of engines per thread | polling instead of interrupts | the engine |
| `cdev_events.c`, user interrupts | `events_irq` | interrupt, read, poll | user interrupt lines |
| `cdev_sgdma.c` | request counters of asynchronous I/O | read, write, aio, ioctls | the engine |
| `xdma_mod.c`, `xdma_cdev.c` | resources held | probe, remove, open, close | the kernel |
| `cdev_ctrl.c`, `cdev_bypass.c`, `cdev_xvc.c` | none between calls | register accesses | BARs |

What is hard here, and what correctness means:

* **The accelerator** is five state machines that exchange one-clock pulses and
  share no acknowledgements. A pulse that comes a clock early is lost, a buffer
  cleared a clock late adds one column to another. Correct: every start ends in
  `Finish`, and then the C RAM holds the whole product.
* **Reset** is incomplete: `Final` of scatter_b and `write_back` of gather_c
  survive it. Correct: the accelerator still comes back to IDLE. It does not after
  every reset (section 5, `Gather_C.sv:119`).
* **The register block** orders START, `Finish` and STATUS inside one clocked
  process where the last assignment wins. Correct: STATUS never reports
  the finish of another run.
* **The host** has no lock, no timeout and no way to cancel. Correct: a program
  that ends normally has the product of its own matrices.
* **The driver** has waiting threads, an interrupt, a deferred work item and a
  device, all on one queue, with timeouts, aborts and restarts; in polled mode a
  kernel thread that reads the queue without its lock. Correct: what
  is reported done was moved, nothing finished stays referenced by the queue or
  the device, the queue is always served, every request ends.
* **Asynchronous calls** are several requests, counted by a callback that runs
  under the engine's lock, while the call may still be queueing the rest.
  Correct: memory outlives the device's use of it, a call ends once, with the
  length that was really moved.
* **Cards** come and go while files are open; probe takes two dozen things, each
  of which may be refused. Correct: everything is given back once, in an order
  in which nothing rests on what is gone already.
* **Interrupts** are masked in one handler and unmasked in a work item, and event
  readers sleep without a lock. Correct: no interrupt and no wake-up is lost.

The hazards are listed one by one, with the line where each bites, in
`PROJECT.json`.

## 2. Modules

### Accelerator

`MatrixParams` declares the parameters and the arithmetic, which is a parameter
too: the control never looks at the data. `ComputeControl`, `ScatterA`,
`ScatterB`, `PEArray` and `GatherC` hold one state record each (`cc`, `sa`,
`sb`, `pe`, `gc`: the module's registers under their Verilog names), an initial
value, a reset and a `...Posedge` formula that is one clock of the module, given
the wires it reads; each branch of the `case` is a definition of its own.
`MatrixMultiply` joins them: a `Clock` step is one rising edge of all blocks and
RAM ports, a `Reset` step one clock under reset, `Store` the host's DMA of two
new matrices. `gen` counts the stored pairs, so a product can be attributed to a
pair; `residue` names the registers the last reset found set and left so. `ProductAt` is the triple loop of `compare2.c`.

`SymbolicData` gives the arithmetic for checking: a value is a bag of monomials
over named input elements, so two equal values are equal for every content of
the matrices and a single run of TLC stands for all inputs. The order of
additions in the adder tree is not distinguished, nor need it be: addition
modulo 2^2W is associative and commutative.

`AcceleratorContract` is what the accelerator promises its user: inputs may be
stored while it is idle, a start makes it busy, and when it is idle again the
result belongs to the inputs it was started with. `MatrixMultiply` is
shown to implement it (`ImplementsContract`), and `HostSystem` is shown to keep
the user's side of it (`KeepsContract`): the same abstract specification sits
between the two levels.

### Register block and host

`UsrControl` is the register block, `UsrLogic` joins it to `MatrixMultiply` and
to an AXI-Lite master (external: one read at a time, any address). Writes are
left out: no path raises `awready`, `wready` or `bvalid`.

`HostSystem` is `matrix_top2.c`, one step per system call or AXI-Lite read, for
any number of executions, over `process`, `finish_reg` and an accelerator
that behaves as its contract says. A matrix is named by the program that owns
it. `Overlap`, `Crash`, `MmapFails` and `IoFails` select what may go wrong.

### Driver

`XdmaEngine` is one SG DMA engine of `libxdma.c` with
memory-mapped transfers. Per request: `SubmitSync` (takes `desc_lock`) or
`SubmitNowait`, `TransferInit` (takes ring descriptors), `TransferQueue` (queues
and, if the engine is idle, starts it) or `TransferRefused` (the card is offline or
the engine shut down: the request ends with what it has queued left in the queue),
then `WaitCompleted`, `WaitFailed` or `WaitTimedOut`. `Irq` is the channel interrupt. The work item is two steps,
because `engine_service` reads the status and then the completed count while the
device runs: `ServiceIdle` or `ServiceStatus`, then `ServiceNothing` or
`ServiceTransfers`. With `poll_mode` the thread of `xdma_thread.c` takes their
place: `ThreadCheck` and `ThreadWakes` (is anything queued? sleep until
`schedule`), `ThreadProc` (reads the expected count off the queue without the
lock), `PollRead`, `PollClear` and `PollGivesUp` (the word in memory to which the
device writes its count is read, then cleared, in two steps), `PollService`;
`Wakeup` is the caller's wake-up after queueing. Everything else under
`engine->lock` is one step. `HwMove` and `HwError` are the device (external). The
fields `moved` and `erred` of a transfer are history: what the device really did.
A transfer also records where in its request it begins (`sw_desc_idx`), so that
`DoneMeansMoved` can say which descriptors were moved, and not only how many.

Assumptions about the device, none of which the driver can check: it goes idle
with its last descriptor; clearing RUN stops it at once; the completed count is
cleared when RUN is raised; status bits survive a stop and a start; the write-back
is in memory when it goes idle. `UINT` stands for 2^32. What the thread reads as
the expected count of an empty queue is a constant, `Strays`: it reads a word of
`struct xdma_engine` as if it were a transfer, and with 64-bit addresses that word
is the free lock of `shutdown_wq`, 0.

`XdmaAio` is the character device on top of it. It takes the engine's actions and
conjoins what they do to the calls: `AioCall` and one `AioSegment` per segment
(align check, pinning, `SubmitNowait`), `AioService` (the service step together
with `async_io_handler` for every request that ended in it, in the work item or in
the completion thread), `AioReturn` (with a completion thread the call wakes it
once, after its last segment, by when the thread may have serviced some or all), and
`SyncCall`, `SyncSubmit`, `SyncReturn` for blocking calls. The steps of the thread
and of the interrupt are those of `XdmaEngine`. `aio[i]` holds
`cmpl_cnt`, `res` and whether the structure is live; `pinned` the requests whose
pages are pinned. `AioFaults` names what may fail.

`XdmaDevice` is the life of cards: the module, probe, remove, reset, device
files and threads. `held[d]` is what the kernel has given out for card d,
`xdev[d]` the fields the driver decides by, `regs[d]` the registers it has armed,
`misuse` what was returned without being held. Every call that takes or returns
something is one step (`AllocDevInstance`, `ListAdd`, `EnableDevice`,
`RequestRegions`, `MapBars`, `SetDmaMask`, `ProbeForEngine`, `EnableMsi`,
`IrqSetup`, `UserIsrEnable`, `CreateInterfaces`, and back again); the error labels
of `xdma_device_open` are the table `OpenError`. BAR identification
(`IdentifyBars`) is a function of the card's layout. `Faults` names what may fail.

`XdmaEvents` is the interrupt side: `UserIrq` and `ChannelIrq` with MSI-X,
`IsrChannels` and `IsrRest` otherwise (the handler reads the channel requests and
then the user requests, and the device may request in between), `EngineWork`, and
the calls on event files (`CallRead`, `CallPoll`, `TestEvent`, `Signal`,
`TakeEvent`). The lock is not held between the test and the taking.

The modules named `..._proofs` hold the theorems about the module of that name
and nothing that a specification uses (section 4). `SumTheorems` has the lemmas on
finite sums they share.

Definitions commented "Faulty variant" are plausible mistakes used to show that
each property can fail. They are not part of any specification.

## 3. Runs

| run | instance | result |
|---|---|---|
| `accelerator` | 6 x 6 matrices on a 3 x 3 array, two runs | `FinishHoldsMirroredProduct`, `LoadPulseSeen`, `TileStationary`, `EveryStartFinishes`, `ImplementsContract` hold |
| `accelerator_reset` | 15 x 15 on a 5 x 5 array, one reset at any clock | the next run is right unless the reset caught `Final` or `write_back` set; the accelerator comes back to IDLE, also when `Final` was left set, unless the reset caught `write_back` set (`AlwaysIdleAgain`) |
| `accelerator_product` | 6 x 6 on a 3 x 3 array, one run | **violated**: C is not A x B as `compare2.c` computes it, but A x B with the columns of every N-wide block reversed |
| `usr_logic` | one 2 x 2 tile, two runs, one reset, any reads | STATUS 2 means the product is there; outside a process the accelerator is at rest; every process finishes unless a reset left something set (`ProcessFinishes`); every read is answered |
| `host_sequential` | three programs in turn, failing DMA calls | each that ends normally has its own product; every program ends; the RAMs are written only while the accelerator is idle |
| `host_overlap` | three programs at once, killed or failing anywhere | the register protocol survives: a START never reaches a busy accelerator, a process never loses its end |
| `host_crash` | two programs in turn, the first may be killed | **violated**: after a kill between START and STATUS the next program reads the product of other matrices |
| `xdma_queue` | 3 descriptors waiting, 2 + 2 queued, ring of 7, interrupts and polling, no errors | nothing fails, done means moved, the queue is always served, ring descriptors are exclusive, every request ends |
| `xdma_timeouts` | three waiting requests, ring of 2, timeouts, errors and refused transfers anywhere, interrupts | done means moved exactly once, nothing dangles, every request ends |
| `xdma_aio` | a call of two segments and a blocking call, interrupts and polling, device errors, calls refused at the start | what is queued is pinned and its structure live (`BuffersLive`), a call ends once and only when all its segments are over (`EndsOnce`), its length is what was moved (`ResultHonest`), every call ends unless the device fails (`EveryIocbEnds`) |
| `xdma_device` | two cards, the first of five kinds, both modes, one open file | nothing is leaked (`NothingLeft`), returned twice, or held on something gone (`HeldInOrder`); indices are distinct; every engine is polled by one thread and no other is; online means ready; files match the card's BARs; an open file stays usable |
| `xdma_events` | two readers of one file, one of another, two channels, both modes | nobody sleeps while its event is set (`NobodySleepsThrough`), every interrupt is served (`EveryInterruptServed`) |

The violated properties state what a comment, a document or the reference
program says; `PROJECT.json` quotes the line for each under "findings".

**Bounds.** 6 x 6 on a 3 x 3 array is the smallest instance with more than one
row tile, column tile and inner tile, so that every transition of the five state
machines is taken, the accumulation buffer is used over several tiles, and first,
middle and last tile differ. The design is synchronous and deterministic, and the
data symbolic, so a run is one path; nondeterminism comes from resets and stores.
`usr_logic` uses one tile because its question is the register protocol, whose
interleavings with the accelerator are at the two ends of a run. Whether a reset can
hang the accelerator is a question of how the length of a write-back
(A_SIZE_Y + 2 clocks) compares with that of a prefetch and a load of N columns each;
6 x 6 on a 3 x 3 array does not have the case. 15 x 15 on a 5 x 5 array does: TLC
finds the hang there as soon as the exception for `write_back` is taken out of
`AlwaysIdleAgain`. Hence the size of `accelerator_reset`. The one tile of `usr_logic`
is too small for it, so `ProcessFinishes` claims nothing after a reset that left a
register set. One reset per run is enough for the search, since each clock of a run is
tried; `FinishIsProduct` (section 4) covers any number. N is at least 2,
since the N-bit counters must reach N + 1 (`WidthAssumption`). Three programs let
one be overtaken by a second while a third waits; the theorems lift that bound.
Ring sizes are chosen so that requests are cut at the end of the ring
(`xdma_timeouts`: a request of three on a ring of two) and so that the queue
holds several transfers when the bottom half runs (`xdma_queue`), and `FirstIdx`
puts the first request across the end of a ring that is larger than what is built
in the run, since the ring is not exclusive otherwise (section 5). `xdma_aio`
needs two segments of different length to tell the order of their ends, and a
blocking call whose transfers mix with them on the engine; the completion thread, whose
steps multiply the states, leaves no room for a second asynchronous call, and
`IocbsEndOnce` and `BuffersStayLive` (section 4) have any number of them. The five kinds of card in `xdma_device`
are the BAR layouts that `identify_bars` distinguishes, with and without a config
BAR; a second card is enough for an index or a thread to be shared wrongly, and
`MaxIdx` stops it from being probed again and again.

**Failures considered.** `xdma_device` considers the failure of every call the
driver unwinds and leaves out seven whose handling is wrong (section 5); adding any
to `Faults` in the cfg makes the named property fail. In the same way
`AioFaults` has `direction`, `align` and `pages` (refusals of a call before anything
is queued) and leaves out `late_align`, `late_pages` and `offline`.
`XdmaAio` has no timeouts and no refused transfers: an asynchronous request has no
waiter, and those of blocking calls are in `xdma_timeouts`. `Refusals` is on with
waiting requests only (section 5, `libxdma.c:3969`). `host_sequential` has neither
overlapping programs nor failing mappings: `KeepsContract` and `ResultCorrect` fail
with the first, `EveryProgramEnds` with the second.

**Fairness.** Clocks do not stop (`WF` of the clock; in `UsrLogic` of a clock in
which the master issues nothing new, so that the master owes no requests).
Programs and kernel threads are scheduled, an enabled interrupt is
delivered, scheduled work is executed, the completion thread runs, a wait with a timeout ends, and a device
that is busy moves its next descriptor. No fairness is assumed of errors, resets,
kills or failures, nor of entering a run, nor of calling `read` or `poll`, nor that
the polling thread gives up.

## 4. Proofs

`HostSystem_proofs` proves, for every set of programs and every value of the
switches unless stated, from `HostAssumption` alone:

* `TypeCorrect`: `TypeOK` is invariant (inductive as it stands).
* `RegisterProtocol`: `BusyInProcess` and `ProcessProgresses` are invariant, with
  any overlap, kill or failure, with `TypeOK`. The delicate step is a STATUS read
  that ends the process: it sees `finish_reg`, hence the accelerator is not busy.
* `SequentialResult`: without overlap, kills and failing mappings,
  `ResultCorrect` is invariant. It is far from inductive, because it only speaks
  of programs that have ended. `SequentialInv` adds what the running program may
  rely on at each point of `main()`: at most one program is running, a process
  has a poller, the RAMs hold the matrices the program has written so far,
  nothing was spoiled, and a finished process left the program's own product. The
  lemma `OthersQuiet` is the core: a program that is not polling finds no
  process, so its writes do not meet a busy accelerator and its START is
  accepted. `SequentialStep` has one step per action.
* `SequentialContract`: under the same hypotheses the host system refines
  `AcceleratorContract` (its initial condition and next-state relation; the
  fairness part of `KeepsContract` stays with TLC). From `SequentialInv`, a write
  or a partly failed write finds the accelerator idle, a START is accepted, and a
  completion is not spoiled; all other steps stutter.

`XdmaEvents_proofs` proves, from `EventsAssumption`, for every set of lines,
channels and readers and both interrupt modes:

* `NoLostWakeup`: `NobodySleepsThrough` is invariant, with `TypeOK`, which it needs
  for the ranges of `proc` and `events_irq` and nothing else. The handlers are the
  interesting steps (`ServiceWakes`): a line whose event is new has its sleepers
  woken, and a line whose event was set already has none, which is the invariant
  itself. `SleepStep` has one step per action.

The runs `host_crash` and `host_overlap` show why the hypotheses are there.

`MatrixMultiply_proofs` proves, from `SizeAssumption`, `WidthAssumption` and
`BoundAssumption`, for every tile side and, unless stated, every size of the matrices
and any arithmetic:

* `TypeCorrect`: `TypeOK` is invariant, with resets at any clock. No counter
  leaves its range; in particular none wraps before its last value.
* `LoadPulseIsSeen` and `TileIsStationary`: outside the runs after a reset that
  caught `Final` or `write_back` set (`residue`), `LoadPulseSeen` and
  `TileStationary` are invariant. Both are about pulses without acknowledgement
  and far from inductive. `HandshakeInv` says, by the state of the sequencer, where
  the other units are: `AtRest`, `Loading`, and, while computing, `Starting`,
  `Streaming` or `Gathered`. Its core is a race that no handshake decides: the
  prefetch of the next tile starts two clocks before the first row is counted and
  the two counters advance together (`sb.in_block_cnt = gr.in_block_cnt + 2`), so
  the prefetch is over when the last row is in, because N divides, and hence does
  not exceed, the number of rows. TLC checks the invariant on four sizes. The exception is
  needed (section 5, `Gather_C.sv:119`), though not on the small instances.
* `FinishIsProduct`: `FinishHoldsMirroredProduct` is invariant, for square matrices
  (`Square`) of every size and every tile side, and for any data in some set of
  values on which addition is associative and a cleared register adds nothing
  (`Arithmetic`; the adders of 2W bits are such, `AdderIsArithmetic`). `Square` is
  needed (section 5, `scatter_B.sv:55`). The invariant `DataInv` follows an element
  through the units. `CountInv` ties every tile counter to that of the sequencer:
  scatter_a is at the next block of columns once its last row is out, and scatter_b is
  one tile ahead from `load_done` on. With it, `RowOnInputs` says which row of A is on
  the inputs when gather_c counts it, `BufferFilled` and `ArrayLoaded` which rows and
  columns of which tile of B are in the buffer and in the array, `Sums` how many
  products each element of the buffer has taken up, and `Columns` which elements of C
  are final. The arithmetic is in one lemma, `AddUpBlock`: a partial sum plus
  the next N products, added up first, is the longer partial sum. TLC checks
  `DataInv` on four sizes.
* `AccelContract`: without resets the accelerator refines `AcceleratorContract`
  (its initial condition and next-state relation; fairness stays with TLC). The
  contract names the pair of matrices whose product is in the C RAM, so the products
  must tell the stored pairs apart (`Distinct`, true of the data TLC runs with).
  Beside `DataInv` it needs that at rest the C RAM holds a stored pair's product or
  what it held at power-up (`Settled`).

`UsrLogic_proofs` builds on it, for any reads and resets at any clock:

* `RestsOutsideProcess`: `RestOutsideProcess` is invariant, also after a reset that
  left residue. `ProcessInv` follows a process through `Pulsed`, `Seen`, `Running`,
  `Finishing` and `Finished`; that the start pulse lasts two clocks and the
  sequencer leaves IDLE in the first is what makes it inductive.
* `StatusIsIdle`: a STATUS read returns 2 only when the sequencer is idle, for all
  sizes and data and after every reset.
* `UsrHandshakes`: the two handshake properties under the register block.
* `StatusIsProduct`: `StatusMeansProduct` is invariant, under the assumptions of
  `FinishIsProduct`. `ResultKept` carries the product from the one clock of Finish to
  the read that ends the process: until then nothing writes the C RAM and no
  matrices are stored.

`HostSystem_proofs` and `UsrLogic_proofs` meet in what they say of `process` and
`finish_reg`: the first takes for granted what the second proves clock by clock.

`XdmaEngine_proofs` proves, from `EngineAssumption`, for every set of requests,
every size, ring and initial ring index:

* `TypeCorrect`, `DoneIsMoved`, `NoneDangling`: `TypeOK`, `DoneMeansMoved` and
  `NoDanglingTransfer` are invariant under `Orderly`: waits do not time out, or all
  requests wait and completions come by interrupt; and transfers are not refused, or
  all requests wait. Device errors may come at any
  time. `Orderly` leaves out refused transfers of asynchronous requests
  (`libxdma.c:3969`), timeouts with polling, where `DoneMeansMoved` is false
  (section 5, `libxdma.c:1269`), and timeouts with asynchronous requests queued,
  where an abort stops the engine under a transfer of another request
  (`libxdma.c:2429`).
* Under `Orderly`: `FailedIsError` without timeouts, `QueueIsServed` without timeouts
  and device errors, `RingIsExclusive` for requests that wait, `RingHoldsThemAll` for requests
  of both kinds that fit the ring together (`FitTogether`, a sum over all requests):
  each hypothesis is there because section 5 shows the property false without it.

  The inductive invariant is `EngineInv`. Its heart, `HeadInv`, is why a service of
  the queue may credit the count of the device to the transfers at its front: the
  last descriptor of every transfer stops the device, so one start of the engine
  executes one transfer, and as long as the engine is running or being serviced
  that transfer is the head and nothing of the count is dequeued. The
  lemma `TakeHead` concludes that a service takes exactly the head off, whatever
  the queue holds behind it. Around it: `QueueInv` (the queue holds submitted
  transfers of unfinished requests, in order), `MovedInv` (what a state
  says of `moved`), `LayoutInv` (the transfers of a request lie side by side and
  cover what is built), `CallInv` (where the call is). `ExactInv` (no timeouts)
  ties status bits, event, work item, write-back word and thread to the head;
  `LockInv` (no asynchronous requests) says that only the transfer just built by the
  holder of `desc_lock` can be unfinished. Each has one lemma per action.
  `RingInv` places all transfers on the ring: they lie in the stretch from where the
  ring index began to where it is (`TakenFrom`), which is as long as the number of
  descriptors built, so a new one lies apart from all others (`DisjointSlots`) as long
  as that number does not exceed the ring.

`SumTheorems` is about sums of sequences of naturals, which `FitTogether` and the
length of a call need: they are monotone, and change by what one summand changes.
Its induction principle is also used for the sums of the accelerator.
The provers cannot instantiate an induction principle whose predicate is an
operator; `SetInduction` therefore takes the predicate as a set, and follows from
the fact that a non-empty set of naturals has a least member.

`XdmaAio_proofs` builds on `EngineInv`, for any number of calls and segments, with
interrupts and with the completion thread, from `EngineAssumption` and
`AioAssumption`:

* `IocbsEndOnce` and `ResultIsHonest`: `EndsOnce` and `ResultHonest` are invariant.
* `BuffersStayLive`: `BuffersLive` is invariant for calls that fit the ring together,
  so that none is cut into more than two transfers.

  Timeouts are out, and calls are refused before anything is queued (`EarlyFaults`);
  section 5 shows what late refusals do. `AioInv` adds to the engine's invariant that only
  the last transfer of a request ends before the end of the ring (`ShapeInv`), that
  pages are pinned exactly while a segment is with the engine (`PinInv`), how far a
  call is, and that `cmpl_cnt` and `res` count its segments that are over and their
  lengths (`IocbInv`), and that what is submitted of a segment is queued
  (`PendingInv`). The delicate step is the service, by the bottom half or by the thread
  (`ServedHead`): it may end a segment while the call is still queueing the next, and
  the handler it calls may end the call only with the last one. `AioReturn` is not
  a step of the engine alone; `WakesAllStep` shows that it keeps the engine's invariant.

`XdmaDevice_proofs` proves, from `DeviceAssumption`, for every number of cards of
any kind, channels, user interrupts, CPUs and open files, and both modes, that
`NothingLeft`, `NothingReturnedTwice`, `HeldInOrder`, `DistinctIdx`,
`EveryEnginePolled`, `OnlineIsReady` and `OpenFileUsable` are invariant
(`NothingIsLeft`, `NoneReturnedTwice`, `HeldRestsOnNeeds`, `IdxAreDistinct`,
`EnginesArePolled`, `OnlineCardsReady`, `OpenFilesUsable`). The hypothesis
`Handled` says that the seven failures and events of section 5 that the driver
does not handle stay out; every other one may come at any point. The invariant
`DeviceInv` says what exactly is held for a card and which registers are armed, as
a function of where the driver is with it and of the fields it decides by
(`HeldSet`, `RegSet`): the labels at which something is held are nested as the
calls of `xdma_device_open` are, which is the discipline the code's labels follow.
With it: the fields by label (`FieldInv`), the list ordered by index (`ListInv`),
work lists and engines in step (`ThreadsInv`), open files counted by the module
(`OpenInv`). There is one `Card...` lemma per transition about the card alone and
one `Step...` lemma per action about the whole state.

`FilesAreThoseOfTheCard` adds `FilesMatchCard`, for cards whose BAR layout is one
that the comment of `identify_bars` names, or has one more BAR in between
(`StandardCards`); it is false for others. `FilesInv` says what `identify_bars`
found and that the flags of `xpdev`, by which files are destroyed, are those of the
first groups of the list in which `xpdev_create_interfaces` makes them (`PlaceInv`).

Only model-checked: all liveness (fairness and ENABLED are outside this proof
system), hence the fairness part of the two refinements; the channel interrupts of
`XdmaEvents`.

## 5. Observations without a run

* `Usr_control.v:48`: AXI-Lite writes are never accepted, although `sim/MM_tb.v`
  drives them (lines 85 and 93). A host write to the register file would not
  complete.
* `scatter_B.sv:55`: `ROW_CNT` and `COL_CNT` of B are computed from the sizes of A.
  With a 3 x 6 and a 6 x 3 matrix `FinishHoldsMirroredProduct` fails
  (`MCMatrixMultiply` with those sizes), although `README.md:13` says that "the
  system supports scalable matrix sizes".
* `Gather_C.sv:119`: `write_back` is not reset. After a reset in the clock in which
  it is set the write-back machine runs alone and raises `C_gather_done` A_SIZE_Y + 2
  clocks later. If the next run is computing its first tile by then, that is taken for
  the end of the tile, `B_load` comes while scatter_b is still fetching the next one
  (`scatter_B.sv:78`), is lost, and the run hangs. By the lengths of the two this is
  so at the shipped sizes (64 x 64, N = 16) for some delays between the reset and the
  start. `AlwaysIdleAgain` without its exception fails in `accelerator_reset`, and
  `LoadPulseSeen` fails on its instance after such a reset; on 20 x 20 with a 5 x 5 array
  `TileStationary` does, too. On 6 x 6
  with a 3 x 3 array the write-back ends before the first tile is loaded, and nothing
  is lost.
* `libxdma.c:954`: the work item left by a transfer that timed out services the
  next one and marks it FAILED while the device is still working on it.
  `FailedMeansError` fails in `xdma_timeouts`' instance, already without device
  errors.
* `libxdma.c:1159`: an error on the first descriptor leaves a completed count of 0,
  for which `engine_service` returns after it has stopped the engine: the transfer
  stays queued (`QueueServed` fails with `HwErrors`). A waiter's timeout removes it;
  an asynchronous request has no waiter. `EveryIocbEnds` therefore excepts errors.
* `libxdma.c:1269`: the write-back word is not cleared when a transfer is aborted or
  started. If a transfer times out just as it completes, its count is taken for the
  completion of the next: `DoneMeansMoved` fails for two waiting requests with
  `PollModes = {TRUE}` and `Timeouts = TRUE`.
* `xdma_thread.c:54`: the thread's test for an empty queue never fails. Where the
  word it then reads is not 0 (`Strays`), it can drop the count of a transfer queued
  meanwhile, and `EveryRequestEnds` fails; with 64-bit addresses it is 0.
* `xdma_thread.c:191`: `xdma_kthread_stop` sets `schedule` and then calls
  `kthread_stop`. A thread that is awake may clear `schedule` in
  between and go to sleep; the wake-up of `kthread_stop` then finds it clear, the
  thread sleeps on, and unloading hangs.
* `libxdma.c:2429`: `transfer_abort` takes a transfer off the queue only if it is
  the head, but its caller stops the engine in any case. With queued asynchronous
  requests and timeouts, `QueueServed` fails.
* `libxdma.c:2994`: asynchronous requests that do not fit the ring together
  overwrite descriptors in use (`RingExclusive` fails on a smaller ring); a
  comment there says it is still to be handled.
* `libxdma.c:3922`: a request cut into more than two transfers exceeds `tfer[2]`
  (`BuffersLive` on a ring smaller than half the request).
* `libxdma.c:3969`: a transfer refused by `transfer_queue` makes `submit_nowait` unmap
  the buffer and free the request, although an earlier transfer of it may be queued
  (`NoDanglingTransfer` fails in `xdma_queue`'s instance with `Refusals = TRUE`).
* `cdev_sgdma.c:471`: with `late_align` a later segment that is misaligned frees the
  `cdev_async_io` under the earlier ones (`BuffersLive`); with `late_pages` the call
  returns an error and the earlier segments then end the iocb a second time
  (`EndsOnce`); with `offline` a segment the engine refuses is never counted and the
  call never ends (`EveryIocbEnds`).
* `cdev_sgdma.c:463`: every segment of an asynchronous call gets the same device
  address, `pos` is not advanced.
* `cdev_sgdma.c:117`: `kfree(cb)` is given the last segment's element of the array,
  not the array; error returns free neither. `set_page_dirty_lock`, which may
  sleep, is called for reads under `engine->lock`.
* `async_io_handler` is only called with `err` 0: a failed segment is a shorter
  length without an error code. Its `spin_trylock` never fails, since callers hold
  `engine->lock`.
* `cdev_events.c:55`: of two readers woken by one event, one gets zero events.
* `XdmaDevice` with one more fault in `Faults`: `msix_irq` (a failing MSI-X vector
  leaves the earlier handlers: `HeldInOrder`, `NothingLeft`), `files` (a file that
  cannot be created is destroyed: `NothingReturnedTwice`), `mod_init` (a failing
  `pci_register_driver` leaves the class: `NothingLeft`), `slot_reset` (a slot reset
  whose enable fails: `HeldInOrder`), `reset_polled` (going online in polled
  mode: `OnlineIsReady`), `online_irq` (its result is ignored:
  `OnlineIsReady`), `open_unplug` (a card unplugged with an open file:
  `OpenFileUsable`).
* `sim/XDMA_APP_tb.v:200`: the address meant for the B RAM has bits 14:13 clear
  and is decoded as the A RAM.

## 6. Not modelled

See `PROJECT.json` for each part with its reason. In short: the top level and
vendor cores (wiring, external); `xdma_app.v` (decoding of two address bits around
a vendor controller); streaming, cyclic, aperture and performance transfers
(not reachable with this memory-mapped design); `llseek` and the ioctls of the SG
DMA files; register files without state; command line tools, test benches and
scripts. Formatting and parsing of matrices in the host programs is left out: no
property depends on it.

Of `XdmaDevice`: a later kernel thread that cannot be started (the array is freed
with the earlier ones running); that `engine->work` is never cancelled on remove;
the numbering of interrupt bits after a channel that could not be set up. Of
`XdmaEngine`: several engines on one completion thread.

## 7. Plan

1. Proofs: that a masked channel of `XdmaEvents` always has its work scheduled or its
   handler running.
2. An abstract queue (`DmaQueue`: every request moved exactly once, in order, or
   failed) that `XdmaEngine` implements without timeouts.
3. `BramRouter`: `xdma_app.v` with back-to-back reads and writes of different RAMs.
4. `xdma_init_request` and `xdma_get_next_adj` as pure functions, against a
   reference (every byte covered once, no prefetch over a page boundary).

When a run is needed for a new part, questions that a theorem has settled for
every instance give up theirs.
