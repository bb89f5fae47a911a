----------------------------- MODULE XdmaDevice -----------------------------
(***************************************************************************)
(* The life of the cards under the xdma driver: loading and unloading the  *)
(* module (xdma_mod.c), probe and remove with every error label of         *)
(* xdma_device_open and xdma_device_close, offline and online around a     *)
(* reset (libxdma.c), the device files (xdma_cdev.c) and, in polled mode,  *)
(* the completion threads shared by all cards (xdma_thread.c).             *)
(*                                                                         *)
(* held[d] is what the kernel has given out for card d: memory, BAR        *)
(* mappings, interrupt handlers, device files. xdev[d] holds the fields    *)
(* the driver decides by. Each call that takes or returns something is one *)
(* step, so cards are probed, used, reset and removed concurrently.        *)
(***************************************************************************)
EXTENDS Integers, Sequences, FiniteSets, FiniteSetsExt

CONSTANTS
  Devices,               \* the cards
  Cards,                 \* Cards[d]: what d may be: BARs 0 .. 5, interrupts, channels
  XDMA_CHANNEL_NUM_MAX,  \* channels in each direction
  MAX_USER_IRQ,          \* user interrupts of a card
  CPUs,                  \* online CPUs
  PollModes,             \* values of the module parameter poll_mode
  MaxIdx,                \* bound: no card is probed when the next index is above it
  MaxOpen,               \* bound: device files open at the same time
  Faults                 \* kernel calls that may fail and events that may come

ASSUME DeviceAssumption ==
  /\ {XDMA_CHANNEL_NUM_MAX, MAX_USER_IRQ, CPUs} \subseteq Nat \ {0}
  /\ \A c \in UNION {Cards[d] : d \in Devices} :
       /\ c.bars \in [0 .. 5 -> {"none", "user", "config", "bypass", "other"}]
       /\ c.irq \in {"msix", "msi", "legacy"}
       /\ c.channels \in [{"h2c", "c2h"} -> 0 .. XDMA_CHANNEL_NUM_MAX]
  /\ PollModes \subseteq BOOLEAN /\ {MaxIdx, MaxOpen} \subseteq Nat

VARIABLES
  poll_mode,  \* module parameter
  hw,         \* hw[d]: BAR layout, interrupt kind and channels of the card
  module,     \* unloaded, loaded or exiting, the users of the module, what it holds
  pc,         \* pc[d]: where the driver is with card d
  xdev,       \* xdev[d]: fields of struct xdma_dev and xdma_pci_dev
  xdev_list,  \* the list of the cards under the driver
  cs_threads, \* the completion threads: running, and the engines each serves
  held,       \* held[d]: kernel objects taken for d
  misuse,     \* objects that were returned when they were not held
  regs,       \* regs[d]: registers of the card the driver has programmed
  opened      \* opened[d]: device files some process has open

deviceVars == <<poll_mode, hw, module, pc, xdev, xdev_list, cs_threads, held,
                misuse, regs, opened>>

Directions == {"h2c", "c2h"}
Engines    == Directions \X (0 .. XDMA_CHANNEL_NUM_MAX - 1)
Users      == 0 .. MAX_USER_IRQ - 1
\* The order in which the driver goes through the engines.
Before(e, f) == (e[1] = "h2c" /\ f[1] = "c2h") \/ (e[1] = f[1] /\ e[2] < f[2])
NThreads   == Min({CPUs, 2 * XDMA_CHANNEL_NUM_MAX})

\* The result of a kernel call: it may fail when the fault is considered.
Result(fault) == IF fault \in Faults THEN BOOLEAN ELSE {TRUE}

Take(d, objs) == held' = [held EXCEPT ![d] = @ \cup objs]
Return(d, objs) ==
  /\ held' = [held EXCEPT ![d] = @ \ objs]
  /\ misuse' = misuse \cup {<<d, o>> : o \in objs \ held[d]}

Goto(d, label) == pc' = [pc EXCEPT ![d] = label]

\* alloc_dev_instance and xpdev_alloc: the fields before anything is set up.
FreshXdev ==
  [idx |-> 0, offline |-> TRUE, regions_in_use |-> FALSE, got_regions |-> FALSE,
   bar |-> {}, user_bar |-> -1, bypass_bar |-> -1, engines |-> {},
   msix |-> FALSE, msi |-> FALSE, irq_line |-> FALSE, msix_irq_line |-> {},
   shutdown |-> {}, mask_irq_user |-> FALSE, flags |-> {}, major |-> FALSE]

Init ==
  /\ poll_mode \in PollModes
  /\ hw \in {h \in [Devices -> UNION {Cards[d] : d \in Devices}] :
              \A d \in Devices : h[d] \in Cards[d]}
  /\ module = [state |-> "unloaded", refs |-> 0, held |-> {}]
  /\ pc = [d \in Devices |-> "unbound"]
  /\ xdev = [d \in Devices |-> FreshXdev]
  /\ xdev_list = <<>>
  /\ cs_threads = [running |-> FALSE, work |-> [t \in 1 .. NThreads |-> {}]]
  /\ held = [d \in Devices |-> {}] /\ misuse = {}
  /\ regs = [d \in Devices |-> {}]
  /\ opened = [d \in Devices |-> {}]

\* The order of xdma_device_open, and where each call goes when it fails.
OpenNext ==
  [alloc |-> "list_add", list_add |-> "enable", enable |-> "regions",
   regions |-> "map_bars", map_bars |-> "dma_mask", dma_mask |-> "h2c",
   h2c |-> "c2h", c2h |-> "msi", msi |-> "irq", irq |-> "isr_enable"]

\* Faulty variant: a failed map_bars jumps past pci_release_regions.
OpenError_SkipsRegions ==
  [alloc |-> "free_xpdev", list_add |-> "free_xdev", enable |-> "err_enable",
   regions |-> "err_regions", map_bars |-> "err_regions", dma_mask |-> "err_mask",
   msi |-> "err_engines", irq |-> "err_msix"]

\* Faulty variant: a failed pci_enable_device jumps to its own undoing.
OpenError_Disables ==
  [alloc |-> "free_xpdev", list_add |-> "free_xdev", enable |-> "err_regions",
   regions |-> "err_regions", map_bars |-> "err_map", dma_mask |-> "err_mask",
   msi |-> "err_engines", irq |-> "err_msix"]

OpenError ==
  [alloc |-> "free_xpdev", list_add |-> "free_xdev", enable |-> "err_enable",
   regions |-> "err_regions", map_bars |-> "err_map", dma_mask |-> "err_mask",
   msi |-> "err_engines", irq |-> "err_msix"]

Continue(d, ok) == Goto(d, IF ok THEN OpenNext[pc[d]] ELSE OpenError[pc[d]])

Removing == {"destroy", "close", "err_msix", "err_engines", "err_mask", "err_map",
             "err_regions", "err_enable", "free_xdev", "free_xpdev"}
Idle     == {"unbound", "in_use"}
-----------------------------------------------------------------------------
(***************************************************************************)
(* Completion threads (xdma_thread.c).                                     *)
(***************************************************************************)
WorkCnt(t) == Cardinality(cs_threads.work[t])

\* xdma_thread_add_work: an empty thread after the first, else the last one
\* with less work than the first, else the first.
LeastLoaded ==
  LET empty == {t \in 2 .. NThreads : WorkCnt(t) = 0}
  IN  IF empty # {} THEN Min(empty)
      ELSE Max({1} \cup {t \in 2 .. NThreads : WorkCnt(t) < WorkCnt(1)})

AddWork(w) ==
  IF poll_mode THEN cs_threads' = [cs_threads EXCEPT !.work[LeastLoaded] = @ \cup {w}]
               ELSE UNCHANGED cs_threads

RemoveWork(w) ==
  IF poll_mode THEN cs_threads' = [cs_threads EXCEPT !.work =
                                     [t \in 1 .. NThreads |-> @[t] \ {w}]]
               ELSE UNCHANGED cs_threads

\* xdma_threads_create and xdma_threads_destroy
StartThreads == cs_threads' = [cs_threads EXCEPT !.running = TRUE]
StopThreads  == cs_threads' = [running |-> FALSE, work |-> [t \in 1 .. NThreads |-> {}]]
-----------------------------------------------------------------------------
(***************************************************************************)
(* Probe: probe_one and the steps of xdma_device_open.                     *)
(***************************************************************************)
\* Faulty variant: the index is the number of cards on the list.
NextIdx_Length == Len(xdev_list)

NextIdx == IF xdev_list = <<>> THEN 0 ELSE xdev[xdev_list[Len(xdev_list)]].idx + 1

ProbeOne(d) ==
  /\ pc[d] = "unbound" /\ module.state = "loaded"
  /\ NextIdx <= MaxIdx
  /\ \E ok \in Result("oom") :
       IF ok THEN Goto(d, "alloc") /\ Take(d, {<<"xpdev", 0>>})
             ELSE UNCHANGED <<pc, held>>
  /\ xdev' = [xdev EXCEPT ![d] = FreshXdev]
  /\ UNCHANGED <<poll_mode, hw, module, xdev_list, cs_threads, misuse, regs, opened>>

AllocDevInstance(d) ==
  /\ pc[d] = "alloc"
  /\ \E ok \in Result("oom") :
       /\ Continue(d, ok)
       /\ IF ok THEN Take(d, {<<"xdev", 0>>}) ELSE UNCHANGED held
  /\ UNCHANGED <<poll_mode, hw, module, xdev, xdev_list, cs_threads, misuse, regs, opened>>

\* xdev_list_add: the first card of a polled driver starts the threads.
ListAdd(d) ==
  /\ pc[d] = "list_add"
  /\ LET first == poll_mode /\ xdev_list = <<>>
     IN  \E ok \in IF first THEN Result("oom") ELSE {TRUE} :
           /\ Continue(d, ok)
           /\ IF ok /\ first THEN StartThreads ELSE UNCHANGED cs_threads
           /\ xdev_list' = IF ok THEN Append(xdev_list, d) ELSE xdev_list
           /\ xdev' = [xdev EXCEPT ![d].idx = NextIdx]
  /\ UNCHANGED <<poll_mode, hw, module, held, misuse, regs, opened>>

EnableDevice(d) ==
  /\ pc[d] = "enable"
  /\ \E ok \in Result("enable") :
       /\ Continue(d, ok)
       /\ IF ok THEN Take(d, {<<"enabled", 0>>}) ELSE UNCHANGED held
  /\ UNCHANGED <<poll_mode, hw, module, xdev, xdev_list, cs_threads, misuse, regs, opened>>

\* request_regions: when it fails the card is taken to be in use elsewhere.
RequestRegions(d) ==
  /\ pc[d] = "regions"
  /\ \E ok \in Result("regions") :
       /\ Continue(d, ok)
       /\ IF ok THEN Take(d, {<<"regions", 0>>}) ELSE UNCHANGED held
       /\ xdev' = [xdev EXCEPT ![d].got_regions = ok, ![d].regions_in_use = ~ok]
  /\ UNCHANGED <<poll_mode, hw, module, xdev_list, cs_threads, misuse, regs, opened>>

\* The BARs a card has (map_single_bar skips those of length 0), which the
\* driver lists in ascending order, and the place of the config BAR in that
\* list, counted from 0.
BarIds(bars) == {i \in 0 .. 5 : bars[i] # "none"}
ConfigBars(bars) == {i \in 0 .. 5 : bars[i] = "config"}
ConfigBarPos(bars) == Cardinality({i \in BarIds(bars) : i < Min(ConfigBars(bars))})

\* Faulty variant: the bypass BAR is taken to be the second on the list.
IdentifyBars_Second(ids, pos) ==
  CASE Cardinality(ids) = 2 /\ pos = 0 -> <<-1, Max(ids)>>
    [] Cardinality(ids) = 2 /\ pos = 1 -> <<Min(ids), -1>>
    [] Cardinality(ids) \in {3, 4} /\ pos \in {1, 2} -> <<Min(ids), Min(ids \ {Min(ids)})>>
    [] OTHER -> <<-1, -1>>

\* identify_bars: the indices of the user and the bypass BAR, -1 for none.
IdentifyBars(ids, pos) ==
  CASE Cardinality(ids) = 2 /\ pos = 0 -> <<-1, Max(ids)>>
    [] Cardinality(ids) = 2 /\ pos = 1 -> <<Min(ids), -1>>
    [] Cardinality(ids) \in {3, 4} /\ pos \in {1, 2} -> <<Min(ids), Max(ids)>>
    [] OTHER -> <<-1, -1>>

\* map_bars: on failure it unmaps what it mapped.
MapBars(d) ==
  /\ pc[d] = "map_bars"
  /\ LET bars == hw[d].bars
         ids  == BarIds(bars)
         id   == IdentifyBars(ids, ConfigBarPos(bars))
     IN  \E ok \in IF ConfigBars(bars) = {} THEN {FALSE} ELSE Result("map_bars") :
           /\ Continue(d, ok)
           /\ IF ok
              THEN /\ Take(d, {<<"bar", i>> : i \in ids})
                   /\ xdev' = [xdev EXCEPT ![d].bar = ids, ![d].user_bar = id[1],
                                           ![d].bypass_bar = id[2]]
              ELSE UNCHANGED <<held, xdev>>
  /\ UNCHANGED <<poll_mode, hw, module, xdev_list, cs_threads, misuse, regs, opened>>

\* set_dma_mask; then all interrupts are masked.
SetDmaMask(d) ==
  /\ pc[d] = "dma_mask"
  /\ \E ok \in Result("dma_mask") : Continue(d, ok)
  /\ UNCHANGED <<poll_mode, hw, module, xdev, xdev_list, cs_threads, held, misuse,
                 regs, opened>>

EngineObjects(e) == {<<"desc", e>>} \cup (IF poll_mode THEN {<<"wb", e>>} ELSE {})
Found(d, dir)    == Cardinality({e \in xdev[d].engines : e[1] = dir})

\* probe_for_engine on the next channel: engine_init allocates its memory,
\* writes its registers and, in polled mode, gives it to a thread. The first
\* channel that is absent or cannot be initialised ends the direction.
ProbeForEngine(d) ==
  /\ pc[d] \in Directions
  /\ LET e == <<pc[d], Found(d, pc[d])>>
     IN  \E ok \in IF e[2] < hw[d].channels[pc[d]] THEN Result("engine") ELSE {FALSE} :
           IF ok
           THEN /\ Take(d, EngineObjects(e))
                /\ xdev' = [xdev EXCEPT ![d].engines = @ \cup {e}]
                /\ regs' = [regs EXCEPT ![d] = @ \cup {<<"engine", e>>}]
                /\ AddWork(<<d, e>>)
                /\ UNCHANGED pc
           ELSE Continue(d, TRUE) /\ UNCHANGED <<held, xdev, regs, cs_threads>>
  /\ UNCHANGED <<poll_mode, hw, module, xdev_list, misuse, opened>>

\* enable_msi_msix: the flag is set even when the call fails.
EnableMsi(d) ==
  /\ pc[d] = "msi"
  /\ \E ok \in IF hw[d].irq = "legacy" THEN {TRUE} ELSE Result("msi") :
       /\ Continue(d, ok)
       /\ IF ok /\ hw[d].irq # "legacy" THEN Take(d, {<<"vectors", 0>>}) ELSE UNCHANGED held
  /\ xdev' = [xdev EXCEPT ![d].msix = hw[d].irq = "msix", ![d].msi = hw[d].irq = "msi"]
  /\ UNCHANGED <<poll_mode, hw, module, xdev_list, cs_threads, misuse, regs, opened>>

ChannelIrqs(es) == {<<"channel_irq", e>> : e \in es}
UserIrqs        == {<<"user_irq", i>> : i \in Users}

\* What irq_setup registers on x, and what it leaves registered when one of
\* the requests fails: the handlers of the channels it had reached.
SetupIrqs(x)  == IF x.msix THEN ChannelIrqs(x.engines) \cup UserIrqs ELSE {<<"line_irq", 0>>}
LeftIrqs(x)   ==
  IF x.msix THEN {ChannelIrqs({f \in x.engines : Before(f, e)}) : e \in x.engines}
                   \cup {ChannelIrqs(x.engines)}
            ELSE {{}}
WithIrqs(x, irqs) ==
  [x EXCEPT !.irq_line = ~x.msix,
            !.msix_irq_line = {e \in x.engines : <<"channel_irq", e>> \in irqs}]
IrqFault(x) == IF x.msix THEN "msix_irq" ELSE "line_irq"

\* irq_setup, then the channel interrupts are enabled and the card is online.
IrqSetup(d) ==
  /\ pc[d] = "irq"
  /\ \E ok \in Result(IrqFault(xdev[d])) :
     \E irqs \in IF ok THEN {SetupIrqs(xdev[d])} ELSE LeftIrqs(xdev[d]) :
       /\ Continue(d, ok)
       /\ Take(d, irqs)
       /\ xdev' = [xdev EXCEPT ![d] = [WithIrqs(@, irqs) EXCEPT !.offline = ~ok]]
       /\ regs' = [regs EXCEPT ![d] = IF ok
            THEN @ \cup (IF xdev[d].msix THEN {<<"irq_vectors", 0>>} ELSE {})
                   \cup (IF poll_mode THEN {} ELSE {<<"channel_int", 0>>})
            ELSE @]
  /\ UNCHANGED <<poll_mode, hw, module, xdev_list, cs_threads, misuse, opened>>

\* xdma_user_isr_enable
UserIsrEnable(d) ==
  /\ pc[d] = "isr_enable"
  /\ Goto(d, "files")
  /\ xdev' = [xdev EXCEPT ![d].mask_irq_user = TRUE]
  /\ regs' = [regs EXCEPT ![d] = @ \cup {<<"user_int", 0>>}]
  /\ UNCHANGED <<poll_mode, hw, module, xdev_list, cs_threads, held, misuse, opened>>

(***************************************************************************)
(* Device files: xpdev_create_interfaces and xpdev_destroy_interfaces.     *)
(***************************************************************************)
Groups(x) ==
  <<"CTRL", "EVENT", "SG">> \o (IF x.bypass_bar > 0 THEN <<"BYPASS">> ELSE <<>>)
                            \o (IF x.user_bar >= 0 THEN <<"USER", "XVC">> ELSE <<>>)

Bypass == [h2c |-> "bypass_h2c", c2h |-> "bypass_c2h"]

FilesOf(x, g) ==
  CASE g = "CTRL"  -> {<<"control", 0>>}
    [] g = "EVENT" -> {<<"events", i>> : i \in Users}
    [] g = "SG"    -> x.engines
    [] g = "BYPASS" -> {<<Bypass[e[1]], e[2]>> : e \in x.engines} \cup {<<"bypass", 0>>}
    [] g = "USER"  -> {<<"user", 0>>}
    [] g = "XVC"   -> {<<"xvc", 0>>}

AsFiles(fs) == {<<"file", f>> : f \in fs}

\* create_xcdev for the files of the next group; the first file allocates
\* the device numbers. The flag is set when the whole group is there. After
\* the last group the card is bound (dev_set_drvdata).
CreateInterfaces(d) ==
  /\ pc[d] = "files"
  /\ LET x == xdev[d]
         n == Cardinality(x.flags) + 1
     IN  IF n > Len(Groups(x))
         THEN Goto(d, "bound") /\ UNCHANGED <<held, xdev>>
         ELSE LET g     == Groups(x)[n]
                  files == FilesOf(x, g)
              IN  \E region \in IF x.major THEN {TRUE} ELSE Result("chrdev") :
                  \E made \in CASE ~region -> {{}}
                               [] region /\ "files" \in Faults -> SUBSET files
                               [] OTHER -> {files} :
                    /\ Take(d, AsFiles(made) \cup (IF region THEN {<<"chrdev", 0>>} ELSE {}))
                    /\ xdev' = [xdev EXCEPT ![d].major = region,
                                 ![d].flags = IF region /\ made = files THEN @ \cup {g} ELSE @]
                    /\ Goto(d, IF region /\ made = files THEN "files" ELSE "files_failed")
  /\ UNCHANGED <<poll_mode, hw, module, xdev_list, cs_threads, misuse, regs, opened>>

\* xpdev_destroy_interfaces, which clears neither the flags nor the major:
\* create_interfaces calls it when it fails, xpdev_free always.
DestroyInterfaces(d) ==
  /\ pc[d] \in {"files_failed", "destroy"}
  /\ Return(d, (UNION {AsFiles(FilesOf(xdev[d], g)) : g \in xdev[d].flags})
               \cup (IF xdev[d].major THEN {<<"chrdev", 0>>} ELSE {}))
  /\ Goto(d, IF pc[d] = "files_failed" THEN "destroy" ELSE "close")
  /\ UNCHANGED <<poll_mode, hw, module, xdev, xdev_list, cs_threads, regs, opened>>

\* Faulty variant: an open file does not keep the module loaded.
Open_NoOwner(d, f) ==
  /\ <<"file", f>> \in held[d] /\ f \notin opened[d]
  /\ \A c \in Devices : opened[c] = {}
  /\ module.state = "loaded"
  /\ pc[d] \notin Removing \/ "open_unplug" \in Faults
  /\ opened' = [opened EXCEPT ![d] = @ \cup {f}]
  /\ UNCHANGED <<poll_mode, hw, module, pc, xdev, xdev_list, cs_threads, held, misuse, regs>>

\* A process opens a device file; cdev.owner is THIS_MODULE, so the module
\* cannot be unloaded before it is closed, and not opened while it is.
Open(d, f) ==
  /\ <<"file", f>> \in held[d] /\ f \notin opened[d]
  /\ module.state = "loaded" /\ module.refs < MaxOpen
  /\ pc[d] \notin Removing \/ "open_unplug" \in Faults
  /\ module' = [module EXCEPT !.refs = @ + 1]
  /\ opened' = [opened EXCEPT ![d] = @ \cup {f}]
  /\ UNCHANGED <<poll_mode, hw, pc, xdev, xdev_list, cs_threads, held, misuse, regs>>

Close(d, f) ==
  /\ f \in opened[d]
  /\ module' = [module EXCEPT !.refs = @ - 1]
  /\ opened' = [opened EXCEPT ![d] = @ \ {f}]
  /\ UNCHANGED <<poll_mode, hw, pc, xdev, xdev_list, cs_threads, held, misuse, regs>>
-----------------------------------------------------------------------------
(***************************************************************************)
(* Remove, and the error labels of xdma_device_open, which are the same    *)
(* steps as the second half of xdma_device_close.                          *)
(***************************************************************************)
Listed(d) == \E k \in 1 .. Len(xdev_list) : xdev_list[k] = d

TeardownIrqs(x) ==
  CASE x.msix -> ChannelIrqs(x.msix_irq_line) \cup UserIrqs
    [] ~x.msix /\ x.irq_line -> {<<"line_irq", 0>>}
    [] OTHER -> {}
IrqRegs == {<<"channel_int", 0>>, <<"user_int", 0>>, <<"irq_vectors", 0>>}

\* remove_one: on module exit, or when one card is unplugged or unbound.
RemoveOne(d) ==
  /\ pc[d] \in {"bound", "dead"}
  /\ \/ module.state = "exiting"
     \/ "unplug" \in Faults /\ (opened[d] = {} \/ "open_unplug" \in Faults)
  /\ Goto(d, "destroy")
  /\ UNCHANGED <<poll_mode, hw, module, xdev, xdev_list, cs_threads, held, misuse,
                 regs, opened>>

\* Faulty variant: the handlers are not freed.
DeviceClose_NoTeardown(d) ==
  /\ pc[d] = "close" /\ Listed(d)
  /\ regs' = [regs EXCEPT ![d] = @ \ IrqRegs]
  /\ Goto(d, "err_msix")
  /\ UNCHANGED <<poll_mode, hw, module, xdev, xdev_list, cs_threads, held, misuse, opened>>

\* xdma_device_close up to irq_teardown
DeviceClose(d) ==
  /\ pc[d] = "close" /\ Listed(d)
  /\ regs' = [regs EXCEPT ![d] = @ \ IrqRegs]
  /\ Return(d, TeardownIrqs(xdev[d]))
  /\ Goto(d, "err_msix")
  /\ UNCHANGED <<poll_mode, hw, module, xdev, xdev_list, cs_threads, opened>>

DisableMsi(d) ==
  /\ pc[d] = "err_msix"
  /\ IF xdev[d].msix \/ xdev[d].msi THEN Return(d, {<<"vectors", 0>>})
                                    ELSE UNCHANGED <<held, misuse>>
  /\ xdev' = [xdev EXCEPT ![d].msix = FALSE, ![d].msi = FALSE]
  /\ Goto(d, "err_engines")
  /\ UNCHANGED <<poll_mode, hw, module, xdev_list, cs_threads, regs, opened>>

\* Faulty variant: the engine stays on the list of its thread.
RemoveEngines_WorkKept(d) ==
  /\ pc[d] = "err_engines"
  /\ IF xdev[d].engines = {}
     THEN Goto(d, "err_mask") /\ UNCHANGED <<xdev, held, misuse, regs, cs_threads>>
     ELSE LET e == CHOOSE e \in xdev[d].engines :
                     \A f \in xdev[d].engines \ {e} : Before(e, f)
          IN  /\ xdev' = [xdev EXCEPT ![d].engines = @ \ {e}, ![d].msix_irq_line = @ \ {e}]
              /\ Return(d, EngineObjects(e))
              /\ regs' = [regs EXCEPT ![d] = @ \ {<<"engine", e>>}]
              /\ UNCHANGED <<pc, cs_threads>>
  /\ UNCHANGED <<poll_mode, hw, module, xdev_list, opened>>

\* remove_engines: engine_destroy of one engine after the other.
RemoveEngines(d) ==
  /\ pc[d] = "err_engines"
  /\ IF xdev[d].engines = {}
     THEN Goto(d, "err_mask") /\ UNCHANGED <<xdev, held, misuse, regs, cs_threads>>
     ELSE LET e == CHOOSE e \in xdev[d].engines :
                     \A f \in xdev[d].engines \ {e} : Before(e, f)
          IN  /\ xdev' = [xdev EXCEPT ![d].engines = @ \ {e}, ![d].msix_irq_line = @ \ {e}]
              /\ Return(d, EngineObjects(e))
              /\ regs' = [regs EXCEPT ![d] = @ \ {<<"engine", e>>}]
              /\ RemoveWork(<<d, e>>)
              /\ UNCHANGED pc
  /\ UNCHANGED <<poll_mode, hw, module, xdev_list, opened>>

UnmapBars(d) ==
  /\ pc[d] = "err_mask"
  /\ Return(d, {<<"bar", i>> : i \in xdev[d].bar})
  /\ xdev' = [xdev EXCEPT ![d].bar = {}]
  /\ Goto(d, "err_map")
  /\ UNCHANGED <<poll_mode, hw, module, xdev_list, cs_threads, regs, opened>>

ReleaseRegions(d) ==
  /\ pc[d] = "err_map"
  /\ IF xdev[d].got_regions THEN Return(d, {<<"regions", 0>>}) ELSE UNCHANGED <<held, misuse>>
  /\ Goto(d, "err_regions")
  /\ UNCHANGED <<poll_mode, hw, module, xdev, xdev_list, cs_threads, regs, opened>>

DisableDevice(d) ==
  /\ pc[d] = "err_regions"
  /\ IF ~xdev[d].regions_in_use THEN Return(d, {<<"enabled", 0>>})
                                ELSE UNCHANGED <<held, misuse>>
  /\ Goto(d, "err_enable")
  /\ UNCHANGED <<poll_mode, hw, module, xdev, xdev_list, cs_threads, regs, opened>>

\* xdev_list_remove: the last card of a polled driver stops the threads.
ListRemove(d) ==
  /\ pc[d] = "err_enable"
  /\ \E k \in 1 .. Len(xdev_list) :
       /\ xdev_list[k] = d
       /\ xdev_list' = SubSeq(xdev_list, 1, k - 1) \o SubSeq(xdev_list, k + 1, Len(xdev_list))
  /\ IF poll_mode /\ xdev_list' = <<>> THEN StopThreads ELSE UNCHANGED cs_threads
  /\ Goto(d, "free_xdev")
  /\ UNCHANGED <<poll_mode, hw, module, xdev, held, misuse, regs, opened>>

FreeXdev(d) ==
  /\ pc[d] = "free_xdev"
  /\ Return(d, {<<"xdev", 0>>})
  /\ Goto(d, "free_xpdev")
  /\ UNCHANGED <<poll_mode, hw, module, xdev, xdev_list, cs_threads, regs, opened>>

\* The end of xpdev_free. A card in use elsewhere stays enabled for it.
FreeXpdev(d) ==
  /\ pc[d] = "free_xpdev"
  /\ Return(d, {<<"xpdev", 0>>})
  /\ Goto(d, IF xdev[d].regions_in_use THEN "in_use" ELSE "unbound")
  /\ xdev' = [xdev EXCEPT ![d] = FreshXdev]
  /\ UNCHANGED <<poll_mode, hw, module, xdev_list, cs_threads, regs, opened>>
-----------------------------------------------------------------------------
(***************************************************************************)
(* Resets: the PCI error handlers, xdma_device_offline and _online.        *)
(***************************************************************************)
MayReset == ~poll_mode \/ "reset_polled" \in Faults

\* xdma_device_offline, returning objs too.
DeviceOffline(d, objs) ==
  /\ xdev' = [xdev EXCEPT ![d].offline = TRUE, ![d].shutdown = xdev[d].engines]
  /\ regs' = [regs EXCEPT ![d] = @ \ IrqRegs]
  /\ Return(d, TeardownIrqs(xdev[d]) \cup objs)

EngineRegs(x) == {<<"engine", e>> : e \in x.engines}

\* Faulty variant: the user interrupts stay masked.
DeviceOnline_NoUserInt(d, objs) ==
  /\ ~poll_mode
  /\ xdev' = [xdev EXCEPT ![d] = [WithIrqs(@, SetupIrqs(xdev[d])) EXCEPT
                                    !.offline = FALSE, !.shutdown = {}]]
  /\ Take(d, SetupIrqs(xdev[d]) \cup objs)
  /\ regs' = [regs EXCEPT ![d] = EngineRegs(xdev[d]) \cup {<<"channel_int", 0>>}
                 \cup (IF xdev[d].msix THEN {<<"irq_vectors", 0>>} ELSE {})]

\* xdma_device_online, taking objs too, on a card that has lost its
\* registers. The result of irq_setup is not looked at; in polled mode the
\* interrupts are left alone.
DeviceOnline(d, objs) ==
  LET x == xdev[d]
  IN  \E ok \in Result("online_irq") :
      \E irqs \in CASE poll_mode -> {{}}
                    [] ~poll_mode /\ ok -> {SetupIrqs(x)}
                    [] OTHER -> LeftIrqs(x) :
        /\ xdev' = [xdev EXCEPT ![d] = [(IF poll_mode THEN @ ELSE WithIrqs(@, irqs)) EXCEPT
                                          !.offline = FALSE, !.shutdown = {}]]
        /\ Take(d, irqs \cup objs)
        /\ regs' = [regs EXCEPT ![d] = EngineRegs(x) \cup
             (IF poll_mode THEN {}
              ELSE {<<"channel_int", 0>>}
                   \cup (IF x.mask_irq_user THEN {<<"user_int", 0>>} ELSE {})
                   \cup (IF x.msix /\ ok THEN {<<"irq_vectors", 0>>} ELSE {}))]

\* xdma_error_detected, frozen channel
ErrorDetected(d) ==
  /\ pc[d] = "bound" /\ MayReset
  /\ DeviceOffline(d, {<<"enabled", 0>>})
  /\ Goto(d, "frozen")
  /\ UNCHANGED <<poll_mode, hw, module, xdev_list, cs_threads, opened>>

\* xdma_slot_reset; a card that cannot be enabled again stays offline.
SlotReset(d) ==
  /\ pc[d] = "frozen"
  /\ \E ok \in Result("slot_reset") :
       IF ok THEN DeviceOnline(d, {<<"enabled", 0>>}) /\ Goto(d, "bound")
             ELSE Goto(d, "dead") /\ UNCHANGED <<xdev, held, regs>>
  /\ UNCHANGED <<poll_mode, hw, module, xdev_list, cs_threads, misuse, opened>>

ResetPrepare(d) ==
  /\ pc[d] = "bound" /\ MayReset
  /\ DeviceOffline(d, {})
  /\ Goto(d, "resetting")
  /\ UNCHANGED <<poll_mode, hw, module, xdev_list, cs_threads, opened>>

ResetDone(d) ==
  /\ pc[d] = "resetting"
  /\ DeviceOnline(d, {})
  /\ Goto(d, "bound")
  /\ UNCHANGED <<poll_mode, hw, module, xdev_list, cs_threads, misuse, opened>>
-----------------------------------------------------------------------------
(***************************************************************************)
(* The module: xdma_mod_init and xdma_mod_exit.                            *)
(***************************************************************************)

\* The class, the cache and the registration, in this order; a failure
\* returns what was not yet taken, and only that.
ModInit ==
  /\ module.state = "unloaded"
  /\ \E class \in Result("class"), rest \in Result("mod_init") :
     \E got \in CASE ~class -> {{}}
                 [] class /\ rest -> {{"class", "cache"}}
                 [] OTHER -> {{"class"}, {"class", "cache"}} :
       module' = [module EXCEPT !.state = IF class /\ rest THEN "loaded" ELSE "unloaded",
                                !.held = @ \cup got]
  /\ UNCHANGED <<poll_mode, hw, pc, xdev, xdev_list, cs_threads, held, misuse, regs, opened>>

ModExit ==
  /\ module.state = "loaded" /\ module.refs = 0
  /\ module' = [module EXCEPT !.state = "exiting"]
  /\ UNCHANGED <<poll_mode, hw, pc, xdev, xdev_list, cs_threads, held, misuse, regs, opened>>

\* pci_unregister_driver returns when no card is bound; then
\* xdma_cdev_cleanup destroys the cache and the class.
ModCleanup ==
  /\ module.state = "exiting" /\ \A d \in Devices : pc[d] \in Idle
  /\ module' = [module EXCEPT !.state = "unloaded", !.held = {}]
  /\ UNCHANGED <<poll_mode, hw, pc, xdev, xdev_list, cs_threads, held, misuse, regs, opened>>
-----------------------------------------------------------------------------
Probing(d) ==
  \/ ProbeOne(d) \/ AllocDevInstance(d) \/ ListAdd(d) \/ EnableDevice(d)
  \/ RequestRegions(d) \/ MapBars(d) \/ SetDmaMask(d) \/ ProbeForEngine(d)
  \/ EnableMsi(d) \/ IrqSetup(d) \/ UserIsrEnable(d) \/ CreateInterfaces(d)

Unwinding(d) ==
  \/ RemoveOne(d) \/ DestroyInterfaces(d) \/ DeviceClose(d) \/ DisableMsi(d)
  \/ RemoveEngines(d) \/ UnmapBars(d) \/ ReleaseRegions(d) \/ DisableDevice(d)
  \/ ListRemove(d) \/ FreeXdev(d) \/ FreeXpdev(d)

Resets(d) == ErrorDetected(d) \/ SlotReset(d) \/ ResetPrepare(d) \/ ResetDone(d)

Next ==
  \/ \E d \in Devices : Probing(d) \/ Unwinding(d) \/ Resets(d)
  \/ \E d \in Devices : \E o \in held[d] : o[1] = "file" /\ Open(d, o[2])
  \/ \E d \in Devices : \E f \in opened[d] : Close(d, f)
  \/ ModInit \/ ModExit \/ ModCleanup

Spec == Init /\ [][Next]_deviceVars
-----------------------------------------------------------------------------
(***************************************************************************)
(* A failed probe and a remove give everything back: nothing is held for a *)
(* card the driver is not bound to (a card in use elsewhere stays enabled, *)
(* "assume device is in use so do not disable it later"), none of its      *)
(* registers is armed, and an unloaded module leaves nothing behind.       *)
(***************************************************************************)
NothingLeft ==
  /\ \A d \in Devices :
       /\ pc[d] = "unbound" => held[d] = {}
       /\ pc[d] = "in_use" => held[d] = {<<"enabled", 0>>}
       /\ pc[d] \in Idle => regs[d] = {} /\ ~Listed(d)
  /\ module.state = "unloaded" => module.held = {} /\ xdev_list = <<>> /\ ~cs_threads.running

(***************************************************************************)
(* Nothing is given back twice, on whichever path (error labels, remove,   *)
(* offline, remove after a reset) it is given back.                        *)
(***************************************************************************)
NothingReturnedTwice == misuse = {}

(***************************************************************************)
(* What is held rests on what it needs, through every step of set-up and   *)
(* tear-down: a handler on the vectors and the engine it is given, an      *)
(* engine on the mapped config BAR its registers are in, a mapping on the  *)
(* requested regions, all of it on the structure that is freed last.       *)
(***************************************************************************)
Holds(d, kind) == \E o \in held[d] : o[1] = kind
EngineOf(f) == CASE f[1] \in Directions -> {f}
                 [] f[1] = "bypass_h2c" -> {<<"h2c", f[2]>>}
                 [] f[1] = "bypass_c2h" -> {<<"c2h", f[2]>>}
                 [] OTHER -> {}
HeldInOrder ==
  \A d \in Devices :
    /\ \A o \in held[d] :
         /\ o[1] = "channel_irq" => <<"vectors", 0>> \in held[d] /\ <<"desc", o[2]>> \in held[d]
         /\ o[1] = "user_irq" => <<"vectors", 0>> \in held[d]
         /\ o[1] = "desc" => \E i \in ConfigBars(hw[d].bars) : <<"bar", i>> \in held[d]
         /\ o[1] = "file" => <<"chrdev", 0>> \in held[d]
                             /\ \A e \in EngineOf(o[2]) : <<"desc", e>> \in held[d]
    /\ Holds(d, "file") => module.state # "unloaded"
    /\ Holds(d, "bar") => Holds(d, "regions")
    /\ Holds(d, "regions") => Holds(d, "enabled") \/ pc[d] \in {"frozen", "dead"}
    /\ Holds(d, "enabled") => Listed(d) \/ xdev[d].regions_in_use \/ pc[d] = "in_use"
    /\ Listed(d) \/ Holds(d, "line_irq") => Holds(d, "xdev")

(***************************************************************************)
(* Two cards on the list never have the same index, and with it the same   *)
(* device file names, however cards come and go.                           *)
(***************************************************************************)
DistinctIdx ==
  \A c, d \in Devices : Listed(c) /\ Listed(d) /\ xdev[c].idx = xdev[d].idx => c = d

(***************************************************************************)
(* In polled mode the threads run exactly while some card is listed, every *)
(* engine that is set up is on the list of exactly one thread, and no      *)
(* thread has an engine that is gone.                                      *)
(***************************************************************************)
EveryEnginePolled ==
  LET alive == IF poll_mode THEN UNION {{<<d, e>> : e \in xdev[d].engines} : d \in Devices}
                            ELSE {}
  IN  /\ cs_threads.running <=> poll_mode /\ xdev_list # <<>>
      /\ UNION {cs_threads.work[t] : t \in 1 .. NThreads} = alive
      /\ \A t, u \in 1 .. NThreads : t # u => cs_threads.work[t] \cap cs_threads.work[u] = {}

(***************************************************************************)
(* A card that is bound and not offline can work: after a probe, and after *)
(* any number of resets, which clear its registers, all its engines are    *)
(* programmed and not shut down, its handlers are registered, and user     *)
(* interrupts and, unless polled, channel interrupts are enabled. An       *)
(* offline card has no handler and no interrupt enabled.                   *)
(***************************************************************************)
OnlineIsReady ==
  \A d \in Devices :
    /\ pc[d] \in {"files", "bound"} /\ ~xdev[d].offline =>
         /\ SetupIrqs(xdev[d]) \subseteq held[d]
         /\ xdev[d].shutdown = {} /\ EngineRegs(xdev[d]) \subseteq regs[d]
         /\ <<"user_int", 0>> \in regs[d]
         /\ poll_mode \/ <<"channel_int", 0>> \in regs[d]
         /\ hw[d].irq = "msix" => <<"irq_vectors", 0>> \in regs[d]
    /\ pc[d] \in {"frozen", "resetting"} =>
         /\ xdev[d].offline /\ regs[d] \cap IrqRegs = {}
         /\ held[d] \cap (SetupIrqs(xdev[d]) \cup UserIrqs) = {}

(***************************************************************************)
(* The files of a bound card are those of its hardware: a user (and xvc)   *)
(* file when it has a user BAR, bypass files when it has a bypass BAR, a   *)
(* file for every engine, whatever BAR numbers they come with (the rules   *)
(* in the comment of identify_bars).                                       *)
(***************************************************************************)
FilesMatchCard ==
  \A d \in Devices : pc[d] = "bound" =>
    LET HasBar(kind) == \E i \in 0 .. 5 : hw[d].bars[i] = kind
        HasFile(f)   == <<"file", f>> \in held[d]
    IN  /\ HasFile(<<"user", 0>>) <=> HasBar("user")
        /\ HasFile(<<"xvc", 0>>) <=> HasBar("user")
        /\ HasFile(<<"bypass", 0>>) <=> HasBar("bypass")
        /\ HasBar("user") => hw[d].bars[xdev[d].user_bar] = "user"
        /\ HasBar("bypass") => hw[d].bars[xdev[d].bypass_bar] = "bypass"
        /\ \A e \in Engines : HasFile(e) <=> <<"desc", e>> \in held[d]

(***************************************************************************)
(* An open file belongs to a card that is still there, with its engine:    *)
(* unloading the module waits for open files.                              *)
(***************************************************************************)
OpenFileUsable ==
  \A d \in Devices : \A f \in opened[d] :
    /\ {<<"xpdev", 0>>, <<"xdev", 0>>} \subseteq held[d]
    /\ \A e \in EngineOf(f) : <<"desc", e>> \in held[d]
=============================================================================
