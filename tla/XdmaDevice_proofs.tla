-------------------------- MODULE XdmaDevice_proofs --------------------------
(***************************************************************************)
(* Proofs about the life of the cards, for any number of cards, channels,  *)
(* user interrupts, CPUs and open files.                                   *)
(***************************************************************************)
EXTENDS XdmaDevice, FiniteSetTheorems, SequenceTheorems, WellFoundedInduction, TLAPS

(***************************************************************************)
(* The failures and events after which the driver keeps the books, which   *)
(* are those of the run xdma_device. It does not after a failed request of *)
(* an MSI-X vector, a group of files made in part, a module load that      *)
(* fails half way, a card that cannot be enabled after a reset, a reset in *)
(* polled mode, a failed irq_setup after a reset, and a card unplugged     *)
(* while one of its files is open.                                         *)
(***************************************************************************)
Unhandled == {"msix_irq", "files", "mod_init", "slot_reset", "reset_polled",
              "online_irq", "open_unplug"}
Handled == Faults \cap Unhandled = {}

(***************************************************************************)
(* The inductive invariant. Where the driver is with a card decides what   *)
(* is held for it; the sets below are nested as the calls of               *)
(* xdma_device_open and the labels that undo them are.                     *)
(***************************************************************************)
FilesAt   == {"files", "files_failed", "bound", "frozen", "resetting", "destroy"}
IrqsAt    == {"isr_enable", "files", "files_failed", "bound", "destroy", "close"}
VectorsAt == IrqsAt \cup {"irq", "frozen", "resetting", "err_msix"}
EnginesAt == VectorsAt \cup {"h2c", "c2h", "msi", "err_engines"}
BarsAt    == EnginesAt \cup {"dma_mask", "err_mask"}
RegionsAt == BarsAt \cup {"map_bars", "err_map"}
EnabledAt == (RegionsAt \ {"frozen"}) \cup {"regions", "err_regions"}
ListedAt  == RegionsAt \cup {"enable", "regions", "err_regions", "err_enable"}
XdevAt    == ListedAt \cup {"list_add", "free_xdev"}
XpdevAt   == XdevAt \cup {"alloc", "free_xpdev"}

When(b, S) == IF b THEN S ELSE {}

EngineMem(e, pm) == {<<"desc", e>>} \cup When(pm, {<<"wb", e>>})

BarObjs(x)        == {<<"bar", i>> : i \in x.bar}
EngineObjs(x, pm) == UNION {EngineMem(e, pm) : e \in x.engines}
FileObjs(x)       == UNION {AsFiles(FilesOf(x, g)) : g \in x.flags}

\* What is held for a card at label p with fields x, pm being poll_mode.
HeldSet(p, x, pm) ==
  When(p \in XpdevAt, {<<"xpdev", 0>>})
  \cup When(p \in XdevAt, {<<"xdev", 0>>})
  \cup When(\/ p \in EnabledAt \/ p = "in_use"
            \/ p \in {"err_enable", "free_xdev", "free_xpdev"} /\ x.regions_in_use,
            {<<"enabled", 0>>})
  \cup When(p \in RegionsAt, {<<"regions", 0>>})
  \cup BarObjs(x) \cup EngineObjs(x, pm)
  \cup When(p \in VectorsAt /\ (x.msix \/ x.msi), {<<"vectors", 0>>})
  \cup When(p \in IrqsAt, SetupIrqs(x))
  \cup When(p \in FilesAt /\ x.major, {<<"chrdev", 0>>})
  \cup When(p \in FilesAt, FileObjs(x))

\* The registers of the card that are programmed.
RegSet(p, x, pm) ==
  EngineRegs(x)
  \cup When(p \in IrqsAt /\ x.msix, {<<"irq_vectors", 0>>})
  \cup When(p \in IrqsAt /\ ~pm, {<<"channel_int", 0>>})
  \cup When(p \in IrqsAt \ {"isr_enable"}, {<<"user_int", 0>>})

GroupNames == {"CTRL", "EVENT", "SG", "BYPASS", "USER", "XVC"}

XdevType ==
  [idx : Nat, offline : BOOLEAN, regions_in_use : BOOLEAN, got_regions : BOOLEAN,
   bar : SUBSET (0 .. 5), user_bar : Int, bypass_bar : Int, engines : SUBSET Engines,
   msix : BOOLEAN, msi : BOOLEAN, irq_line : BOOLEAN, msix_irq_line : SUBSET Engines,
   shutdown : SUBSET Engines, mask_irq_user : BOOLEAN, flags : SUBSET GroupNames,
   major : BOOLEAN]

\* The engines of one direction.
InDirection(x, dir) == {e \in x.engines : e[1] = dir}

\* The fields x of card c at label p.
FieldInv(p, x, c, pm) ==
  /\ p \in XpdevAt \cup Idle
  /\ p \notin {"err_regions", "err_enable", "free_xdev", "free_xpdev"} => ~x.regions_in_use
  /\ p \in RegionsAt => x.got_regions
  /\ p \in BarsAt => ConfigBars(c.bars) \cap x.bar # {}
  /\ p \notin BarsAt => x.bar = {}
  /\ p \notin EnginesAt => x.engines = {}
  /\ p \in Directions => \A e \in x.engines : e[2] < Cardinality(InDirection(x, e[1]))
  /\ p \in VectorsAt => x.msix = (c.irq = "msix") /\ x.msi = (c.irq = "msi")
  /\ p \in IrqsAt => /\ x.irq_line = ~x.msix
                     /\ x.msix_irq_line = When(x.msix, x.engines)
  /\ p \in (FilesAt \cup {"close"}) => x.mask_irq_user
  /\ p \notin (FilesAt \ {"files_failed"}) \cup Removing => ~x.major
  /\ ~x.major => x.flags = {}
  /\ p \notin {"frozen", "resetting"} \cup Removing => x.shutdown = {}
  /\ p \in {"frozen", "resetting"} => x.offline /\ ~pm

CardInv(p, x, h, r, c, pm) ==
  /\ x \in XdevType
  /\ FieldInv(p, x, c, pm)
  /\ h = HeldSet(p, x, pm)
  /\ r = RegSet(p, x, pm)

\* The list of cards is ordered by index.
ListInv ==
  /\ xdev_list \in Seq(Devices)
  /\ \A i, j \in 1 .. Len(xdev_list) : i < j => xdev[xdev_list[i]].idx < xdev[xdev_list[j]].idx
  /\ \A d \in Devices : Listed(d) <=> pc[d] \in ListedAt

Works == [1 .. NThreads -> SUBSET (Devices \X Engines)]

ThreadsInv ==
  /\ cs_threads \in [running : BOOLEAN, work : Works]
  /\ cs_threads.running <=> poll_mode /\ xdev_list # <<>>
  /\ \A d \in Devices, e \in Engines :
       (\E t \in 1 .. NThreads : <<d, e>> \in cs_threads.work[t])
         <=> poll_mode /\ e \in xdev[d].engines
  /\ \A t, u \in 1 .. NThreads : t # u => cs_threads.work[t] \cap cs_threads.work[u] = {}

ModuleInv ==
  /\ module.state \in {"unloaded", "loaded", "exiting"}
  /\ module.state = "unloaded" => module.held = {} /\ \A d \in Devices : pc[d] \in Idle

OpenPairs == UNION {{<<d, f>> : f \in opened[d]} : d \in Devices}

\* An open file exists, and the module counts the open files.
OpenInv ==
  /\ IsFiniteSet(OpenPairs) /\ module.refs = Cardinality(OpenPairs)
  /\ module.state # "loaded" => module.refs = 0
  /\ \A d \in Devices : \A f \in opened[d] :
       pc[d] \in {"files", "bound", "frozen", "resetting"} /\ <<"file", f>> \in held[d]

\* The domains of the functions.
FrameInv ==
  /\ poll_mode \in BOOLEAN
  /\ hw \in [Devices -> UNION {Cards[d] : d \in Devices}]
  /\ DOMAIN pc = Devices /\ DOMAIN xdev = Devices /\ DOMAIN held = Devices
  /\ DOMAIN regs = Devices /\ DOMAIN opened = Devices
  /\ pc = [d \in Devices |-> pc[d]] /\ xdev = [d \in Devices |-> xdev[d]]
  /\ held = [d \in Devices |-> held[d]] /\ regs = [d \in Devices |-> regs[d]]
  /\ opened = [d \in Devices |-> opened[d]]
  /\ DOMAIN module = {"state", "refs", "held"}

CardsInv ==
  \A d \in Devices : CardInv(pc[d], xdev[d], held[d], regs[d], hw[d], poll_mode)

DeviceInv ==
  /\ FrameInv /\ CardsInv /\ ListInv /\ ThreadsInv /\ ModuleInv /\ OpenInv /\ misuse = {}
-----------------------------------------------------------------------------
(***************************************************************************)
(* Least and greatest numbers, the engines and the threads.                *)
(***************************************************************************)
LEMMA LeastNumber ==
  ASSUME NEW S \in SUBSET Nat, S # {}
  PROVE  \E m \in S : \A y \in S : m <= y
<1> DEFINE R == OpToRel(<, Nat)
<1>1. IsWellFoundedOn(R, Nat)
  BY NatLessThanWellFounded
<1>2. \A a, b \in Nat : a < b => <<a, b>> \in R
  BY DEF OpToRel
<1> HIDE DEF R
<1>3. PICK m \in S : \A y \in S : ~(<<y, m>> \in R)
  BY <1>1, WFMin
<1>4. ASSUME NEW y \in S PROVE m <= y
  <2>1. m \in Nat /\ y \in Nat
    OBVIOUS
  <2>2. ~(y < m)
    BY <1>2, <1>3, <2>1
  <2> QED
    BY <2>1, <2>2
<1> QED
  BY <1>4

LEMMA GreatestNumber ==
  ASSUME NEW n \in Nat, NEW S \in SUBSET (0 .. n), S # {}
  PROVE  \E m \in S : \A y \in S : m >= y
<1> DEFINE T == {n - s : s \in S}
<1>1. T \in SUBSET Nat /\ T # {}
  <2>1. \A s \in S : n - s \in Nat
    OBVIOUS
  <2> QED
    BY <2>1
<1>2. PICK t \in T : \A u \in T : t <= u
  <2> HIDE DEF T
  <2> QED
    BY <1>1, LeastNumber
<1>3. PICK m \in S : t = n - m
  OBVIOUS
<1>4. ASSUME NEW y \in S PROVE m >= y
  <2>1. n - y \in T
    OBVIOUS
  <2>2. t <= n - y
    BY <1>2, <2>1
  <2>3. m \in Nat /\ y \in Nat
    OBVIOUS
  <2> HIDE DEF T
  <2> QED
    BY <1>3, <2>2, <2>3
<1> QED
  BY <1>4

LEMMA EnginesFinite == IsFiniteSet(Engines)
<1>1. XDMA_CHANNEL_NUM_MAX \in Nat \ {0}
  BY DeviceAssumption
<1>2. IsFiniteSet(0 .. XDMA_CHANNEL_NUM_MAX - 1)
  BY <1>1, FS_Interval
<1>3. IsFiniteSet(Directions)
  <2>1. Directions = {"h2c"} \cup {"c2h"}
    BY DEF Directions
  <2> QED
    BY <2>1, FS_Singleton, FS_AddElement
<1> QED
  BY <1>2, <1>3, FS_Product DEF Engines

LEMMA ThreadCount == NThreads \in Nat \ {0}
<1>1. CPUs \in Nat \ {0} /\ 2 * XDMA_CHANNEL_NUM_MAX \in Nat \ {0}
  BY DeviceAssumption
<1> DEFINE S == {CPUs, 2 * XDMA_CHANNEL_NUM_MAX}
<1>2. \E m \in S : \A y \in S : m =< y
  BY <1>1
<1>3. Min(S) \in S
  <2> HIDE DEF S
  <2> QED
    BY <1>2 DEF Min
<1> QED
  BY <1>1, <1>3 DEF NThreads

LEMMA LeastLoadedThread == LeastLoaded \in 1 .. NThreads
<1> DEFINE empty == {t \in 2 .. NThreads : WorkCnt(t) = 0}
           low   == {1} \cup {t \in 2 .. NThreads : WorkCnt(t) < WorkCnt(1)}
<1>1. empty \subseteq 2 .. NThreads /\ low \subseteq 1 .. NThreads /\ 1 \in low
  BY ThreadCount
<1>2. LeastLoaded = IF empty # {} THEN Min(empty) ELSE Max(low)
  BY DEF LeastLoaded
<1> HIDE DEF empty, low
<1>3. CASE empty # {}
  <2>1. empty \in SUBSET Nat
    BY <1>1, ThreadCount
  <2>2. \E m \in empty : \A y \in empty : m =< y
    BY <1>3, <2>1, LeastNumber
  <2>3. Min(empty) \in empty
    BY <2>2 DEF Min
  <2>4. \A t \in 2 .. NThreads : t \in 1 .. NThreads
    BY ThreadCount
  <2> QED
    BY <1>1, <1>2, <1>3, <2>3, <2>4
<1>4. CASE empty = {}
  <2>1. low \in SUBSET (0 .. NThreads) /\ low # {}
    BY <1>1, ThreadCount
  <2>2. \E m \in low : \A y \in low : m >= y
    BY <2>1, GreatestNumber, ThreadCount
  <2>3. Max(low) \in low
    BY <2>2 DEF Max
  <2> QED
    BY <1>1, <1>2, <1>4, <2>3
<1> QED
  BY <1>3, <1>4

\* remove_engines finds a first engine as long as there is one.
FirstEngine(S) == CHOOSE e \in S : \A f \in S \ {e} : Before(e, f)

LEMMA FirstEngineFound ==
  ASSUME NEW S \in SUBSET Engines, S # {}
  PROVE  FirstEngine(S) \in S
<1> DEFINE dir == IF \E e \in S : e[1] = "h2c" THEN "h2c" ELSE "c2h"
           T   == {e \in S : e[1] = dir}
           K   == {e[2] : e \in T}
<1>1. \A e \in S : /\ e[1] \in Directions /\ e[2] \in Nat /\ e = <<e[1], e[2]>>
  BY DeviceAssumption DEF Engines
<1>2. T # {}
  BY <1>1 DEF Directions
<1>3. K \in SUBSET Nat /\ K # {}
  BY <1>1, <1>2
<1>4. PICK k \in K : \A j \in K : k <= j
  <2> HIDE DEF K
  <2> QED
    BY <1>3, LeastNumber
<1>5. PICK e \in T : k = e[2]
  OBVIOUS
<1>6. ASSUME NEW f \in S \ {e} PROVE Before(e, f)
  <2>1. e \in S /\ e[1] = dir
    BY <1>5
  <2>2. CASE f[1] = dir
    <3>1. f[2] \in K
      BY <2>2
    <3>2. e[2] <= f[2]
      BY <1>4, <1>5, <3>1
    <3>3. e[2] # f[2]
      BY <1>1, <2>1, <2>2
    <3> QED
      BY <1>1, <2>1, <2>2, <3>2, <3>3 DEF Before
  <2>3. CASE f[1] # dir
    BY <1>1, <2>1, <2>3 DEF Before, Directions
  <2> QED
    BY <2>2, <2>3
<1>7. \E e1 \in S : \A f \in S \ {e1} : Before(e1, f)
  BY <1>5, <1>6
<1> QED
  BY <1>7 DEF FirstEngine
-----------------------------------------------------------------------------
(***************************************************************************)
(* A step that concerns one card.                                          *)
(***************************************************************************)
Moves(d, p, x, h, r) ==
  /\ pc' = [pc EXCEPT ![d] = p] /\ xdev' = [xdev EXCEPT ![d] = x]
  /\ held' = [held EXCEPT ![d] = h] /\ regs' = [regs EXCEPT ![d] = r]
  /\ poll_mode' = poll_mode /\ hw' = hw

LEMMA Moved ==
  ASSUME FrameInv, NEW d \in Devices, NEW p, NEW x, NEW h, NEW r, Moves(d, p, x, h, r)
  PROVE  /\ pc'[d] = p /\ xdev'[d] = x /\ held'[d] = h /\ regs'[d] = r
         /\ \A c \in Devices \ {d} : /\ pc'[c] = pc[c] /\ xdev'[c] = xdev[c]
                                     /\ held'[c] = held[c] /\ regs'[c] = regs[c]
BY DEF FrameInv, Moves

LEMMA FrameStep ==
  ASSUME FrameInv, NEW d \in Devices, NEW p, NEW x, NEW h, NEW r, Moves(d, p, x, h, r),
         opened' = [opened EXCEPT ![d] = opened'[d]],
         DOMAIN module' = {"state", "refs", "held"}
  PROVE  FrameInv'
BY DEF FrameInv, Moves

LEMMA CardsStep ==
  ASSUME FrameInv, CardsInv, NEW d \in Devices, NEW p, NEW x, NEW h, NEW r,
         Moves(d, p, x, h, r), CardInv(p, x, h, r, hw[d], poll_mode)
  PROVE  CardsInv'
<1> SUFFICES ASSUME NEW c \in Devices
             PROVE  CardInv(pc'[c], xdev'[c], held'[c], regs'[c], hw'[c], poll_mode')
  BY Zenon DEF CardsInv, CardInv, FieldInv, HeldSet, RegSet, EngineMem, InDirection,
         SetupIrqs, FilesOf, AsFiles, EngineRegs, When, XdevType,
         BarObjs, EngineObjs, FileObjs
<1>1. hw'[c] = hw[c] /\ poll_mode' = poll_mode
  BY DEF Moves
<1>2. CASE c = d
  BY <1>1, <1>2, Moved
<1>3. CASE c # d
  BY <1>1, <1>3, Moved DEF CardsInv
<1> QED
  BY <1>2, <1>3

LEMMA ListStep ==
  ASSUME FrameInv, ListInv, NEW d \in Devices, NEW p, NEW x, NEW h, NEW r,
         Moves(d, p, x, h, r), xdev_list' = xdev_list,
         p \in ListedAt <=> pc[d] \in ListedAt,
         pc[d] \in ListedAt => x.idx = xdev[d].idx
  PROVE  ListInv'
<1>1. xdev_list' \in Seq(Devices)
  BY DEF ListInv
<1>2. \A c \in Devices : Listed(c)' <=> pc'[c] \in ListedAt
  BY Moved DEF ListInv, Listed
<1>3. ASSUME NEW k \in 1 .. Len(xdev_list)
      PROVE  xdev_list[k] \in Devices /\ xdev'[xdev_list[k]].idx = xdev[xdev_list[k]].idx
  <2>1. xdev_list[k] \in Devices
    BY DEF ListInv
  <2>2. CASE xdev_list[k] = d
    <3>1. pc[d] \in ListedAt
      BY <2>2 DEF ListInv, Listed
    <3> QED
      BY <2>1, <2>2, <3>1, Moved
  <2>3. CASE xdev_list[k] # d
    BY <2>1, <2>3, Moved
  <2> QED
    BY <2>1, <2>2, <2>3
<1>4. ASSUME NEW i \in 1 .. Len(xdev_list), NEW j \in 1 .. Len(xdev_list), i < j
      PROVE  xdev'[xdev_list[i]].idx < xdev'[xdev_list[j]].idx
  <2>1. xdev[xdev_list[i]].idx < xdev[xdev_list[j]].idx
    BY <1>4 DEF ListInv
  <2> QED
    BY <1>3, <2>1
<1> QED
  BY <1>1, <1>2, <1>4 DEF ListInv

LEMMA ThreadsStep ==
  ASSUME FrameInv, ThreadsInv, NEW d \in Devices, NEW p, NEW x, NEW h, NEW r,
         Moves(d, p, x, h, r), xdev_list' = xdev_list, cs_threads' = cs_threads,
         x.engines = xdev[d].engines
  PROVE  ThreadsInv'
<1>1. \A c \in Devices : xdev'[c].engines = xdev[c].engines
  BY Moved
<1>2. poll_mode' = poll_mode
  BY DEF Moves
<1> QED
  BY <1>1, <1>2 DEF ThreadsInv, Works, Listed

OpenAt == {"files", "bound", "frozen", "resetting"}

LEMMA OpenStep ==
  ASSUME FrameInv, OpenInv, NEW d \in Devices, NEW p, NEW x, NEW h, NEW r,
         Moves(d, p, x, h, r), module' = module, opened' = opened,
         opened[d] # {} => p \in OpenAt,
         p \in OpenAt => \A o \in held[d] : o[1] = "file" => o \in h
  PROVE  OpenInv'
<1>1. OpenPairs' = OpenPairs
  BY DEF OpenPairs
<1>2. ASSUME NEW c \in Devices, NEW f \in opened[c]
      PROVE  pc'[c] \in OpenAt /\ <<"file", f>> \in held'[c]
  <2>1. pc[c] \in OpenAt /\ <<"file", f>> \in held[c]
    BY DEF OpenInv, OpenAt
  <2>2. CASE c = d
    <3>1. p \in OpenAt /\ <<"file", f>>[1] = "file"
      BY <2>2
    <3>2. <<"file", f>> \in h
      BY <2>1, <2>2, <3>1
    <3> QED
      BY <2>2, <3>1, <3>2, Moved
  <2>3. CASE c # d
    BY <2>1, <2>3, Moved
  <2> QED
    BY <2>2, <2>3
<1> QED
  BY <1>1, <1>2 DEF OpenInv, OpenAt

(***************************************************************************)
(* Most steps leave the list, the threads, the module and the open files   *)
(* alone.                                                                  *)
(***************************************************************************)
LEMMA QuietStep ==
  ASSUME DeviceInv, NEW d \in Devices, NEW p, NEW x, NEW h, NEW r, Moves(d, p, x, h, r),
         UNCHANGED <<module, xdev_list, cs_threads, opened>>, misuse' = {},
         CardInv(p, x, h, r, hw[d], poll_mode),
         p \in ListedAt <=> pc[d] \in ListedAt,
         pc[d] \in ListedAt => x.idx = xdev[d].idx,
         x.engines = xdev[d].engines,
         pc[d] \in Idle => module.state = "loaded",
         opened[d] # {} => p \in OpenAt,
         p \in OpenAt => \A o \in held[d] : o[1] = "file" => o \in h
  PROVE  DeviceInv'
<1> USE DEF DeviceInv
<1>1. FrameInv'
  <2>1. opened' = [opened EXCEPT ![d] = opened'[d]] /\ DOMAIN module' = {"state", "refs", "held"}
    BY DEF FrameInv
  <2> QED
    BY <2>1, FrameStep
<1>2. CardsInv'
  BY CardsStep
<1>3. ListInv'
  BY ListStep
<1>4. ThreadsInv'
  BY ThreadsStep
<1>5. ModuleInv'
  BY Moved DEF ModuleInv
<1>6. OpenInv'
  BY OpenStep
<1> QED
  BY <1>1, <1>2, <1>3, <1>4, <1>5, <1>6
-----------------------------------------------------------------------------
(***************************************************************************)
(* What each call does to the books of one card.                           *)
(***************************************************************************)
LEMMA Kinds ==
  ASSUME NEW x, NEW pm
  PROVE  /\ \A o \in BarObjs(x) : o[1] = "bar"
         /\ \A o \in EngineObjs(x, pm) : o[1] \in {"desc", "wb"}
         /\ \A o \in SetupIrqs(x) : o[1] \in {"channel_irq", "user_irq", "line_irq"}
         /\ \A o \in FileObjs(x) : o[1] = "file"
<1>1. \A o \in BarObjs(x) : o[1] = "bar"
  BY DEF BarObjs
<1>2. \A o \in EngineObjs(x, pm) : o[1] \in {"desc", "wb"}
  BY DEF EngineObjs, EngineMem, When
<1>3. \A o \in SetupIrqs(x) : o[1] \in {"channel_irq", "user_irq", "line_irq"}
  BY DEF SetupIrqs, ChannelIrqs, UserIrqs
<1>4. \A o \in FileObjs(x) : o[1] = "file"
  BY DEF FileObjs, AsFiles
<1> QED
  BY <1>1, <1>2, <1>3, <1>4

LEMMA SameObjs ==
  ASSUME NEW x, NEW y, NEW pm
  PROVE  /\ y.bar = x.bar => BarObjs(y) = BarObjs(x)
         /\ y.engines = x.engines => EngineObjs(y, pm) = EngineObjs(x, pm)
         /\ y.engines = x.engines /\ y.msix = x.msix => SetupIrqs(y) = SetupIrqs(x)
         /\ y.engines = x.engines /\ y.flags = x.flags => FileObjs(y) = FileObjs(x)
<1>1. y.engines = x.engines => \A g : FilesOf(y, g) = FilesOf(x, g)
  BY DEF FilesOf
<1>2. y.bar = x.bar => BarObjs(y) = BarObjs(x)
  BY DEF BarObjs
<1>3. y.engines = x.engines => EngineObjs(y, pm) = EngineObjs(x, pm)
  BY DEF EngineObjs
<1>4. y.engines = x.engines /\ y.msix = x.msix => SetupIrqs(y) = SetupIrqs(x)
  BY DEF SetupIrqs
<1>5. y.engines = x.engines /\ y.flags = x.flags => FileObjs(y) = FileObjs(x)
  BY <1>1 DEF FileObjs
<1> QED
  BY <1>2, <1>3, <1>4, <1>5

LEMMA NoObjs ==
  ASSUME NEW x, NEW pm
  PROVE  /\ x.bar = {} => BarObjs(x) = {}
         /\ x.engines = {} => EngineObjs(x, pm) = {}
         /\ x.flags = {} => FileObjs(x) = {}
BY DEF BarObjs, EngineObjs, FileObjs

LEMMA CardAlloc ==
  ASSUME NEW x, NEW h, NEW r, NEW c, NEW pm, CardInv("alloc", x, h, r, c, pm)
  PROVE  /\ CardInv("list_add", x, h \cup {<<"xdev", 0>>}, r, c, pm)
         /\ CardInv("free_xpdev", x, h, r, c, pm)
<1> USE DEF CardInv, FilesAt, IrqsAt, VectorsAt, EnginesAt, BarsAt, RegionsAt, EnabledAt,
            ListedAt, XdevAt, XpdevAt, Idle, Removing, Directions
<1>1. FieldInv("list_add", x, c, pm) /\ FieldInv("free_xpdev", x, c, pm)
  BY DEF FieldInv
<1>2. RegSet("list_add", x, pm) = r /\ RegSet("free_xpdev", x, pm) = r
  BY DEF RegSet, When
<1>3. HeldSet("list_add", x, pm) = h \cup {<<"xdev", 0>>}
  BY DEF HeldSet, When, FieldInv
<1>4. HeldSet("free_xpdev", x, pm) = h
  BY DEF HeldSet, When, FieldInv
<1> QED
  BY <1>1, <1>2, <1>3, <1>4

LEMMA CardEnable ==
  ASSUME NEW x, NEW h, NEW r, NEW c, NEW pm, CardInv("enable", x, h, r, c, pm)
  PROVE  /\ CardInv("regions", x, h \cup {<<"enabled", 0>>}, r, c, pm)
         /\ CardInv("err_enable", x, h, r, c, pm)
<1> USE DEF CardInv, FilesAt, IrqsAt, VectorsAt, EnginesAt, BarsAt, RegionsAt, EnabledAt,
            ListedAt, XdevAt, XpdevAt, Idle, Removing, Directions
<1>1. FieldInv("regions", x, c, pm) /\ FieldInv("err_enable", x, c, pm)
  BY DEF FieldInv
<1>2. RegSet("regions", x, pm) = r /\ RegSet("err_enable", x, pm) = r
  BY DEF RegSet, When
<1>3. HeldSet("regions", x, pm) = h \cup {<<"enabled", 0>>}
  BY DEF HeldSet, When, FieldInv
<1>4. HeldSet("err_enable", x, pm) = h
  BY DEF HeldSet, When, FieldInv
<1> QED
  BY <1>1, <1>2, <1>3, <1>4

LEMMA CardListAdd ==
  ASSUME NEW x, NEW h, NEW r, NEW c, NEW pm, CardInv("list_add", x, h, r, c, pm),
         NEW n \in Nat
  PROVE  /\ CardInv("enable", [x EXCEPT !.idx = n], h, r, c, pm)
         /\ CardInv("free_xdev", [x EXCEPT !.idx = n], h, r, c, pm)
<1> DEFINE y == [x EXCEPT !.idx = n]
<1> USE DEF CardInv, FilesAt, IrqsAt, VectorsAt, EnginesAt, BarsAt, RegionsAt, EnabledAt,
            ListedAt, XdevAt, XpdevAt, Idle, Removing, Directions
<1>1. y \in XdevType
  BY DEF XdevType
<1>2. /\ y.regions_in_use = x.regions_in_use /\ y.bar = x.bar /\ y.engines = x.engines /\ y.msix = x.msix
      /\ y.msi = x.msi /\ y.major = x.major /\ y.flags = x.flags
  BY DEF XdevType
<1>3. FieldInv("enable", y, c, pm)
  BY DEF FieldInv, XdevType
<1>4. r = RegSet("enable", y, pm)
  BY DEF RegSet, When, FieldInv, XdevType, EngineRegs
<1>5. FieldInv("free_xdev", y, c, pm)
  BY DEF FieldInv, XdevType
<1>6. r = RegSet("free_xdev", y, pm)
  BY DEF RegSet, When, FieldInv, XdevType, EngineRegs
<1> HIDE DEF y
<1>7. h = HeldSet("enable", y, pm)
  BY <1>2, SameObjs, NoObjs, Kinds DEF HeldSet, When, FieldInv
<1>8. h = HeldSet("free_xdev", y, pm)
  BY <1>2, SameObjs, NoObjs, Kinds DEF HeldSet, When, FieldInv
<1> QED
  BY <1>1, <1>3, <1>4, <1>5, <1>6, <1>7, <1>8 DEF y

LEMMA CardRegions ==
  ASSUME NEW x, NEW h, NEW r, NEW c, NEW pm, CardInv("regions", x, h, r, c, pm)
  PROVE  /\ CardInv("map_bars", [x EXCEPT !.got_regions = TRUE, !.regions_in_use = FALSE],
                    h \cup {<<"regions", 0>>}, r, c, pm)
         /\ CardInv("err_regions", [x EXCEPT !.got_regions = FALSE, !.regions_in_use = TRUE],
                    h, r, c, pm)
<1> DEFINE y1 == [x EXCEPT !.got_regions = TRUE, !.regions_in_use = FALSE]
           y2 == [x EXCEPT !.got_regions = FALSE, !.regions_in_use = TRUE]
<1> USE DEF CardInv, FilesAt, IrqsAt, VectorsAt, EnginesAt, BarsAt, RegionsAt, EnabledAt,
            ListedAt, XdevAt, XpdevAt, Idle, Removing, Directions
<1>1. y1 \in XdevType
  BY DEF XdevType
<1>2. y2 \in XdevType
  BY DEF XdevType
<1>3. /\ y1.regions_in_use = FALSE /\ y1.bar = x.bar /\ y1.engines = x.engines /\ y1.msix = x.msix
      /\ y1.msi = x.msi /\ y1.major = x.major /\ y1.flags = x.flags
  BY DEF XdevType
<1>4. /\ y2.regions_in_use = TRUE /\ y2.bar = x.bar /\ y2.engines = x.engines /\ y2.msix = x.msix
      /\ y2.msi = x.msi /\ y2.major = x.major /\ y2.flags = x.flags
  BY DEF XdevType
<1>5. FieldInv("map_bars", y1, c, pm)
  BY DEF FieldInv, XdevType
<1>6. r = RegSet("map_bars", y1, pm)
  BY DEF RegSet, When, FieldInv, XdevType, EngineRegs
<1>7. FieldInv("err_regions", y2, c, pm)
  BY DEF FieldInv, XdevType
<1>8. r = RegSet("err_regions", y2, pm)
  BY DEF RegSet, When, FieldInv, XdevType, EngineRegs
<1> HIDE DEF y1, y2
<1>9. h \cup {<<"regions", 0>>} = HeldSet("map_bars", y1, pm)
  BY <1>3, SameObjs, NoObjs, Kinds DEF HeldSet, When, FieldInv
<1>10. h = HeldSet("err_regions", y2, pm)
  BY <1>4, SameObjs, NoObjs, Kinds DEF HeldSet, When, FieldInv
<1> QED
  BY <1>1, <1>2, <1>5, <1>6, <1>7, <1>8, <1>9, <1>10 DEF y1, y2

LEMMA CardMapBars ==
  ASSUME NEW x, NEW h, NEW r, NEW c, NEW pm, CardInv("map_bars", x, h, r, c, pm),
         NEW S \in SUBSET (0 .. 5), ConfigBars(c.bars) \cap S # {},
         NEW u \in Int, NEW v \in Int, NEW B, B = {<<"bar", i>> : i \in S}
  PROVE  /\ CardInv("dma_mask", [x EXCEPT !.bar = S, !.user_bar = u, !.bypass_bar = v],
                    h \cup B, r, c, pm)
         /\ CardInv("err_map", x, h, r, c, pm)
<1> DEFINE y == [x EXCEPT !.bar = S, !.user_bar = u, !.bypass_bar = v]
<1> USE DEF CardInv, FilesAt, IrqsAt, VectorsAt, EnginesAt, BarsAt, RegionsAt, EnabledAt,
            ListedAt, XdevAt, XpdevAt, Idle, Removing, Directions
<1>1. y \in XdevType
  BY DEF XdevType
<1>2. /\ y.regions_in_use = x.regions_in_use /\ y.bar = S /\ y.engines = x.engines /\ y.msix = x.msix
      /\ y.msi = x.msi /\ y.major = x.major /\ y.flags = x.flags
  BY DEF XdevType
<1>3. FieldInv("dma_mask", y, c, pm)
  BY DEF FieldInv, XdevType
<1>4. r = RegSet("dma_mask", y, pm)
  BY DEF RegSet, When, FieldInv, XdevType, EngineRegs
<1>5. FieldInv("err_map", x, c, pm)
  BY DEF FieldInv, XdevType
<1>6. r = RegSet("err_map", x, pm)
  BY DEF RegSet, When, FieldInv, XdevType, EngineRegs
<1>9. BarObjs(y) = B
  BY <1>2 DEF BarObjs
<1> HIDE DEF y
<1>7. h \cup B = HeldSet("dma_mask", y, pm)
  BY <1>2, <1>9, SameObjs, NoObjs DEF HeldSet, When, FieldInv
<1>8. h = HeldSet("err_map", x, pm)
  BY SameObjs, NoObjs, Kinds DEF HeldSet, When, FieldInv
<1> QED
  BY <1>1, <1>3, <1>4, <1>5, <1>6, <1>7, <1>8 DEF y

LEMMA CardDmaMask ==
  ASSUME NEW x, NEW h, NEW r, NEW c, NEW pm, CardInv("dma_mask", x, h, r, c, pm)
  PROVE  /\ CardInv("h2c", x, h, r, c, pm)
         /\ CardInv("err_mask", x, h, r, c, pm)
<1> USE DEF CardInv, FilesAt, IrqsAt, VectorsAt, EnginesAt, BarsAt, RegionsAt, EnabledAt,
            ListedAt, XdevAt, XpdevAt, Idle, Removing, Directions
<1>1. FieldInv("h2c", x, c, pm)
  BY DEF FieldInv, XdevType
<1>2. r = RegSet("h2c", x, pm)
  BY DEF RegSet, When, FieldInv, XdevType, EngineRegs
<1>3. FieldInv("err_mask", x, c, pm)
  BY DEF FieldInv, XdevType
<1>4. r = RegSet("err_mask", x, pm)
  BY DEF RegSet, When, FieldInv, XdevType, EngineRegs
<1>5. h = HeldSet("h2c", x, pm)
  BY SameObjs, NoObjs, Kinds DEF HeldSet, When, FieldInv
<1>6. h = HeldSet("err_mask", x, pm)
  BY SameObjs, NoObjs, Kinds DEF HeldSet, When, FieldInv
<1> QED
  BY <1>1, <1>2, <1>3, <1>4, <1>5, <1>6

LEMMA CardIsr ==
  ASSUME NEW x, NEW h, NEW r, NEW c, NEW pm, CardInv("isr_enable", x, h, r, c, pm)
  PROVE  CardInv("files", [x EXCEPT !.mask_irq_user = TRUE],
                    h, r \cup {<<"user_int", 0>>}, c, pm)
<1> DEFINE y == [x EXCEPT !.mask_irq_user = TRUE]
<1> USE DEF CardInv, FilesAt, IrqsAt, VectorsAt, EnginesAt, BarsAt, RegionsAt, EnabledAt,
            ListedAt, XdevAt, XpdevAt, Idle, Removing, Directions
<1>1. y \in XdevType
  BY DEF XdevType
<1>2. /\ y.regions_in_use = x.regions_in_use /\ y.bar = x.bar /\ y.engines = x.engines /\ y.msix = x.msix
      /\ y.msi = x.msi /\ y.major = x.major /\ y.flags = x.flags
  BY DEF XdevType
<1>3. FieldInv("files", y, c, pm)
  BY DEF FieldInv, XdevType
<1>4. r \cup {<<"user_int", 0>>} = RegSet("files", y, pm)
  BY DEF RegSet, When, FieldInv, XdevType, EngineRegs
<1> HIDE DEF y
<1>5. h = HeldSet("files", y, pm)
  BY <1>2, SameObjs, NoObjs, Kinds DEF HeldSet, When, FieldInv
<1> QED
  BY <1>1, <1>3, <1>4, <1>5 DEF y

LEMMA CardBound ==
  ASSUME NEW x, NEW h, NEW r, NEW c, NEW pm, CardInv("files", x, h, r, c, pm)
  PROVE  CardInv("bound", x, h, r, c, pm)
<1> USE DEF CardInv, FilesAt, IrqsAt, VectorsAt, EnginesAt, BarsAt, RegionsAt, EnabledAt,
            ListedAt, XdevAt, XpdevAt, Idle, Removing, Directions
<1>1. FieldInv("bound", x, c, pm)
  BY DEF FieldInv, XdevType
<1>2. r = RegSet("bound", x, pm)
  BY DEF RegSet, When, FieldInv, XdevType, EngineRegs
<1>3. h = HeldSet("bound", x, pm)
  BY SameObjs, NoObjs, Kinds DEF HeldSet, When, FieldInv
<1> QED
  BY <1>1, <1>2, <1>3

LEMMA CardRemove ==
  ASSUME NEW x, NEW h, NEW r, NEW c, NEW pm, CardInv("bound", x, h, r, c, pm)
  PROVE  CardInv("destroy", x, h, r, c, pm)
<1> USE DEF CardInv, FilesAt, IrqsAt, VectorsAt, EnginesAt, BarsAt, RegionsAt, EnabledAt,
            ListedAt, XdevAt, XpdevAt, Idle, Removing, Directions
<1>1. FieldInv("destroy", x, c, pm)
  BY DEF FieldInv, XdevType
<1>2. r = RegSet("destroy", x, pm)
  BY DEF RegSet, When, FieldInv, XdevType, EngineRegs
<1>3. h = HeldSet("destroy", x, pm)
  BY SameObjs, NoObjs, Kinds DEF HeldSet, When, FieldInv
<1> QED
  BY <1>1, <1>2, <1>3

LEMMA CardDisableMsi ==
  ASSUME NEW x, NEW h, NEW r, NEW c, NEW pm, CardInv("err_msix", x, h, r, c, pm)
  PROVE  CardInv("err_engines", [x EXCEPT !.msix = FALSE, !.msi = FALSE],
                    (IF x.msix \/ x.msi THEN h \ {<<"vectors", 0>>} ELSE h), r, c, pm)
<1> DEFINE y == [x EXCEPT !.msix = FALSE, !.msi = FALSE]
<1> USE DEF CardInv, FilesAt, IrqsAt, VectorsAt, EnginesAt, BarsAt, RegionsAt, EnabledAt,
            ListedAt, XdevAt, XpdevAt, Idle, Removing, Directions
<1>1. y \in XdevType
  BY DEF XdevType
<1>2. /\ y.regions_in_use = x.regions_in_use /\ y.bar = x.bar /\ y.engines = x.engines /\ y.msix = FALSE
      /\ y.msi = FALSE /\ y.major = x.major /\ y.flags = x.flags
  BY DEF XdevType
<1>3. FieldInv("err_engines", y, c, pm)
  BY DEF FieldInv, XdevType
<1>4. r = RegSet("err_engines", y, pm)
  BY DEF RegSet, When, FieldInv, XdevType, EngineRegs
<1> HIDE DEF y
<1>5. (IF x.msix \/ x.msi THEN h \ {<<"vectors", 0>>} ELSE h) = HeldSet("err_engines", y, pm)
  BY <1>2, SameObjs, NoObjs, Kinds DEF HeldSet, When, FieldInv
<1> QED
  BY <1>1, <1>3, <1>4, <1>5 DEF y

LEMMA CardEnginesGone ==
  ASSUME NEW x, NEW h, NEW r, NEW c, NEW pm, CardInv("err_engines", x, h, r, c, pm),
         x.engines = {}
  PROVE  CardInv("err_mask", x, h, r, c, pm)
<1> USE DEF CardInv, FilesAt, IrqsAt, VectorsAt, EnginesAt, BarsAt, RegionsAt, EnabledAt,
            ListedAt, XdevAt, XpdevAt, Idle, Removing, Directions
<1>1. FieldInv("err_mask", x, c, pm)
  BY DEF FieldInv, XdevType
<1>2. r = RegSet("err_mask", x, pm)
  BY DEF RegSet, When, FieldInv, XdevType, EngineRegs
<1>3. h = HeldSet("err_mask", x, pm)
  BY SameObjs, NoObjs, Kinds DEF HeldSet, When, FieldInv
<1> QED
  BY <1>1, <1>2, <1>3

LEMMA CardUnmap ==
  ASSUME NEW x, NEW h, NEW r, NEW c, NEW pm, CardInv("err_mask", x, h, r, c, pm)
  PROVE  CardInv("err_map", [x EXCEPT !.bar = {}], h \ BarObjs(x), r, c, pm)
<1> DEFINE y == [x EXCEPT !.bar = {}]
<1> USE DEF CardInv, FilesAt, IrqsAt, VectorsAt, EnginesAt, BarsAt, RegionsAt, EnabledAt,
            ListedAt, XdevAt, XpdevAt, Idle, Removing, Directions
<1>1. y \in XdevType
  BY DEF XdevType
<1>2. /\ y.regions_in_use = x.regions_in_use /\ y.bar = {} /\ y.engines = x.engines /\ y.msix = x.msix
      /\ y.msi = x.msi /\ y.major = x.major /\ y.flags = x.flags
  BY DEF XdevType
<1>3. FieldInv("err_map", y, c, pm)
  BY DEF FieldInv, XdevType
<1>4. r = RegSet("err_map", y, pm)
  BY DEF RegSet, When, FieldInv, XdevType, EngineRegs
<1> HIDE DEF y
<1>5. h \ BarObjs(x) = HeldSet("err_map", y, pm)
  BY <1>2, SameObjs, NoObjs, Kinds DEF HeldSet, When, FieldInv
<1> QED
  BY <1>1, <1>3, <1>4, <1>5 DEF y

LEMMA CardRelease ==
  ASSUME NEW x, NEW h, NEW r, NEW c, NEW pm, CardInv("err_map", x, h, r, c, pm)
  PROVE  CardInv("err_regions", x, h \ {<<"regions", 0>>}, r, c, pm)
<1> USE DEF CardInv, FilesAt, IrqsAt, VectorsAt, EnginesAt, BarsAt, RegionsAt, EnabledAt,
            ListedAt, XdevAt, XpdevAt, Idle, Removing, Directions
<1>1. FieldInv("err_regions", x, c, pm)
  BY DEF FieldInv, XdevType
<1>2. r = RegSet("err_regions", x, pm)
  BY DEF RegSet, When, FieldInv, XdevType, EngineRegs
<1>3. h \ {<<"regions", 0>>} = HeldSet("err_regions", x, pm)
  BY SameObjs, NoObjs, Kinds DEF HeldSet, When, FieldInv
<1> QED
  BY <1>1, <1>2, <1>3

LEMMA CardDisable ==
  ASSUME NEW x, NEW h, NEW r, NEW c, NEW pm, CardInv("err_regions", x, h, r, c, pm)
  PROVE  CardInv("err_enable", x,
                    (IF x.regions_in_use THEN h ELSE h \ {<<"enabled", 0>>}), r, c, pm)
<1> USE DEF CardInv, FilesAt, IrqsAt, VectorsAt, EnginesAt, BarsAt, RegionsAt, EnabledAt,
            ListedAt, XdevAt, XpdevAt, Idle, Removing, Directions
<1>1. FieldInv("err_enable", x, c, pm)
  BY DEF FieldInv, XdevType
<1>2. r = RegSet("err_enable", x, pm)
  BY DEF RegSet, When, FieldInv, XdevType, EngineRegs
<1>3. (IF x.regions_in_use THEN h ELSE h \ {<<"enabled", 0>>}) = HeldSet("err_enable", x, pm)
  BY SameObjs, NoObjs, Kinds DEF HeldSet, When, FieldInv
<1> QED
  BY <1>1, <1>2, <1>3

LEMMA CardUnlist ==
  ASSUME NEW x, NEW h, NEW r, NEW c, NEW pm, CardInv("err_enable", x, h, r, c, pm)
  PROVE  CardInv("free_xdev", x, h, r, c, pm)
<1> USE DEF CardInv, FilesAt, IrqsAt, VectorsAt, EnginesAt, BarsAt, RegionsAt, EnabledAt,
            ListedAt, XdevAt, XpdevAt, Idle, Removing, Directions
<1>1. FieldInv("free_xdev", x, c, pm)
  BY DEF FieldInv, XdevType
<1>2. r = RegSet("free_xdev", x, pm)
  BY DEF RegSet, When, FieldInv, XdevType, EngineRegs
<1>3. h = HeldSet("free_xdev", x, pm)
  BY SameObjs, NoObjs, Kinds DEF HeldSet, When, FieldInv
<1> QED
  BY <1>1, <1>2, <1>3

LEMMA CardFreeXdev ==
  ASSUME NEW x, NEW h, NEW r, NEW c, NEW pm, CardInv("free_xdev", x, h, r, c, pm)
  PROVE  CardInv("free_xpdev", x, h \ {<<"xdev", 0>>}, r, c, pm)
<1> USE DEF CardInv, FilesAt, IrqsAt, VectorsAt, EnginesAt, BarsAt, RegionsAt, EnabledAt,
            ListedAt, XdevAt, XpdevAt, Idle, Removing, Directions
<1>1. FieldInv("free_xpdev", x, c, pm)
  BY DEF FieldInv, XdevType
<1>2. r = RegSet("free_xpdev", x, pm)
  BY DEF RegSet, When, FieldInv, XdevType, EngineRegs
<1>3. h \ {<<"xdev", 0>>} = HeldSet("free_xpdev", x, pm)
  BY SameObjs, NoObjs, Kinds DEF HeldSet, When, FieldInv
<1> QED
  BY <1>1, <1>2, <1>3

LEMMA CardProbe ==
  ASSUME NEW x, NEW h, NEW r, NEW c, NEW pm, CardInv("unbound", x, h, r, c, pm)
  PROVE  /\ CardInv("alloc", FreshXdev, h \cup {<<"xpdev", 0>>}, r, c, pm)
         /\ CardInv("unbound", FreshXdev, h, r, c, pm)
<1> DEFINE y == FreshXdev
<1> USE DEF CardInv, FilesAt, IrqsAt, VectorsAt, EnginesAt, BarsAt, RegionsAt, EnabledAt,
            ListedAt, XdevAt, XpdevAt, Idle, Removing, Directions
<1>1. y \in XdevType
  BY DEF XdevType, FreshXdev
<1>2. /\ y.regions_in_use = FALSE /\ y.bar = {} /\ y.engines = {} /\ y.msix = FALSE
      /\ y.msi = FALSE /\ y.major = FALSE /\ y.flags = {}
  BY DEF XdevType, FreshXdev
<1>3. FieldInv("alloc", y, c, pm)
  BY DEF FieldInv, XdevType, FreshXdev
<1>4. r = RegSet("alloc", y, pm)
  BY DEF RegSet, When, FieldInv, XdevType, EngineRegs, FreshXdev
<1>5. FieldInv("unbound", y, c, pm)
  BY DEF FieldInv, XdevType, FreshXdev
<1>6. r = RegSet("unbound", y, pm)
  BY DEF RegSet, When, FieldInv, XdevType, EngineRegs, FreshXdev
<1> HIDE DEF y
<1>7. h = {}
  <2>1. x.bar = {} /\ x.engines = {}
    BY DEF FieldInv
  <2>2. BarObjs(x) = {} /\ EngineObjs(x, pm) = {}
    BY <2>1, NoObjs
  <2> QED
    BY <2>2 DEF HeldSet, When
<1>8. BarObjs(y) = {} /\ EngineObjs(y, pm) = {}
  BY <1>2, NoObjs
<1>9. HeldSet("alloc", y, pm) = {<<"xpdev", 0>>}
  BY <1>2, <1>8 DEF HeldSet, When
<1>10. HeldSet("unbound", y, pm) = {}
  BY <1>2, <1>8 DEF HeldSet, When
<1> QED
  BY <1>1, <1>3, <1>4, <1>5, <1>6, <1>7, <1>9, <1>10 DEF y

LEMMA CardFree ==
  ASSUME NEW x, NEW h, NEW r, NEW c, NEW pm, CardInv("free_xpdev", x, h, r, c, pm),
         NEW p, p = IF x.regions_in_use THEN "in_use" ELSE "unbound"
  PROVE  CardInv(p, FreshXdev, h \ {<<"xpdev", 0>>}, r, c, pm)
<1> DEFINE y == FreshXdev
<1> USE DEF CardInv, FilesAt, IrqsAt, VectorsAt, EnginesAt, BarsAt, RegionsAt, EnabledAt,
            ListedAt, XdevAt, XpdevAt, Idle, Removing, Directions
<1>1. y \in XdevType
  BY DEF XdevType, FreshXdev
<1>2. FieldInv(p, y, c, pm)
  BY DEF FieldInv, XdevType, FreshXdev
<1>3. r = RegSet(p, y, pm)
  BY DEF RegSet, When, FieldInv, XdevType, EngineRegs, FreshXdev
<1>4. y.bar = {} /\ y.engines = {}
  BY DEF FreshXdev
<1> HIDE DEF y
<1>5. h = {<<"xpdev", 0>>} \cup When(x.regions_in_use, {<<"enabled", 0>>})
  BY NoObjs DEF HeldSet, When, FieldInv
<1>6. HeldSet(p, y, pm) = When(x.regions_in_use, {<<"enabled", 0>>})
  <2>1. CASE x.regions_in_use
    BY <1>4, <2>1, NoObjs DEF HeldSet, When
  <2>2. CASE ~x.regions_in_use
    BY <1>4, <2>2, NoObjs DEF HeldSet, When
  <2> QED
    BY <2>1, <2>2
<1>7. h \ {<<"xpdev", 0>>} = HeldSet(p, y, pm)
  BY <1>5, <1>6 DEF When
<1> QED
  BY <1>1, <1>2, <1>3, <1>7 DEF y

LEMMA CardEnginesEnd ==
  ASSUME NEW x, NEW h, NEW r, NEW c, NEW pm
  PROVE  /\ CardInv("h2c", x, h, r, c, pm) => CardInv("c2h", x, h, r, c, pm)
         /\ CardInv("c2h", x, h, r, c, pm) => CardInv("msi", x, h, r, c, pm)
<1> USE DEF CardInv, FilesAt, IrqsAt, VectorsAt, EnginesAt, BarsAt, RegionsAt, EnabledAt,
            ListedAt, XdevAt, XpdevAt, Idle, Removing, Directions
<1>1. CardInv("h2c", x, h, r, c, pm) => CardInv("c2h", x, h, r, c, pm)
  BY DEF FieldInv, RegSet, HeldSet, When
<1>2. CardInv("c2h", x, h, r, c, pm) => CardInv("msi", x, h, r, c, pm)
  BY DEF FieldInv, RegSet, HeldSet, When
<1> QED
  BY <1>1, <1>2

LEMMA CardEngine ==
  ASSUME NEW p \in Directions, NEW x, NEW h, NEW r, NEW c, NEW pm, CardInv(p, x, h, r, c, pm),
         NEW e \in Engines, e = <<p, Cardinality(InDirection(x, p))>>
  PROVE  /\ e \notin x.engines
         /\ CardInv(p, [x EXCEPT !.engines = x.engines \cup {e}],
                    h \cup EngineMem(e, pm), r \cup {<<"engine", e>>}, c, pm)
<1> DEFINE y == [x EXCEPT !.engines = x.engines \cup {e}]
<1> USE DEF CardInv, FilesAt, IrqsAt, VectorsAt, EnginesAt, BarsAt, RegionsAt, EnabledAt,
            ListedAt, XdevAt, XpdevAt, Idle, Removing, Directions
<1>1. y \in XdevType
  BY DEF XdevType
<1>2. /\ y.engines = x.engines \cup {e} /\ y.bar = x.bar /\ y.msix = x.msix /\ y.msi = x.msi
      /\ y.major = x.major /\ y.flags = x.flags /\ y.regions_in_use = x.regions_in_use
      /\ y.got_regions = x.got_regions /\ y.shutdown = x.shutdown
  BY DEF XdevType
<1> HIDE DEF y
<1>3. x.engines \in SUBSET Engines
  BY DEF XdevType
<1>4. \A f \in x.engines : f[2] < Cardinality(InDirection(x, f[1])) /\ f[2] \in Nat
  BY <1>3, DeviceAssumption DEF FieldInv, Engines
<1>5. e[1] = p /\ e[2] = Cardinality(InDirection(x, p)) /\ e[2] \in Nat
  BY DeviceAssumption DEF Engines
<1>6. e \notin x.engines
  BY <1>4, <1>5
<1>7. ASSUME NEW f \in y.engines PROVE f[2] < Cardinality(InDirection(y, f[1]))
  <2>1. IsFiniteSet(InDirection(x, p))
    BY <1>3, EnginesFinite, FS_Subset DEF InDirection
  <2>2. Cardinality(InDirection(x, p) \cup {e}) = Cardinality(InDirection(x, p)) + 1
    BY <1>6, <2>1, FS_AddElement DEF InDirection
  <2>3. InDirection(y, p) = InDirection(x, p) \cup {e}
    BY <1>2, <1>5 DEF InDirection
  <2>4. CASE f[1] # p
    <3>1. InDirection(y, f[1]) = InDirection(x, f[1]) /\ f \in x.engines
      BY <1>2, <1>5, <2>4 DEF InDirection
    <3> QED
      BY <1>4, <3>1
  <2>5. CASE f[1] = p
    <3>1. Cardinality(InDirection(y, f[1])) = e[2] + 1
      BY <1>5, <2>2, <2>3, <2>5
    <3>2. CASE f = e
      BY <1>5, <3>1, <3>2
    <3>3. CASE f \in x.engines
      <4>1. f[2] \in Nat /\ f[2] < e[2]
        BY <1>4, <1>5, <2>5, <3>3
      <4> QED
        BY <1>5, <3>1, <4>1
    <3> QED
      BY <1>2, <3>2, <3>3
  <2> QED
    BY <2>4, <2>5
<1>8. FieldInv(p, y, c, pm)
  BY <1>2, <1>7 DEF FieldInv
<1>9. r \cup {<<"engine", e>>} = RegSet(p, y, pm)
  BY <1>2 DEF RegSet, When, EngineRegs
<1>10. EngineObjs(y, pm) = EngineObjs(x, pm) \cup EngineMem(e, pm)
  BY <1>2 DEF EngineObjs
<1>11. h \cup EngineMem(e, pm) = HeldSet(p, y, pm)
  BY <1>2, <1>10, SameObjs, NoObjs DEF HeldSet, When, FieldInv
<1> QED
  BY <1>1, <1>6, <1>8, <1>9, <1>11 DEF y

LEMMA CardEngineGone ==
  ASSUME NEW x, NEW h, NEW r, NEW c, NEW pm, CardInv("err_engines", x, h, r, c, pm),
         NEW e \in x.engines
  PROVE  /\ EngineMem(e, pm) \subseteq h
         /\ CardInv("err_engines",
                    [x EXCEPT !.engines = x.engines \ {e}, !.msix_irq_line = x.msix_irq_line \ {e}],
                    h \ EngineMem(e, pm), r \ {<<"engine", e>>}, c, pm)
<1> DEFINE y == [x EXCEPT !.engines = x.engines \ {e}, !.msix_irq_line = x.msix_irq_line \ {e}]
<1> USE DEF CardInv, FilesAt, IrqsAt, VectorsAt, EnginesAt, BarsAt, RegionsAt, EnabledAt,
            ListedAt, XdevAt, XpdevAt, Idle, Removing, Directions
<1>1. y \in XdevType
  BY DEF XdevType
<1>2. /\ y.engines = x.engines \ {e} /\ y.bar = x.bar /\ y.msix = x.msix /\ y.msi = x.msi
      /\ y.major = x.major /\ y.flags = x.flags /\ y.regions_in_use = x.regions_in_use
      /\ y.got_regions = x.got_regions
  BY DEF XdevType
<1> HIDE DEF y
<1>3. FieldInv("err_engines", y, c, pm)
  BY <1>2 DEF FieldInv
<1>4. r \ {<<"engine", e>>} = RegSet("err_engines", y, pm)
  BY <1>2 DEF RegSet, When, EngineRegs
<1>5. EngineObjs(y, pm) = EngineObjs(x, pm) \ EngineMem(e, pm) /\ EngineMem(e, pm) \subseteq EngineObjs(x, pm)
  BY <1>2 DEF EngineObjs, EngineMem, When
<1>6. EngineMem(e, pm) \subseteq h
  BY <1>5 DEF HeldSet, When
<1>7. h \ EngineMem(e, pm) = HeldSet("err_engines", y, pm)
  BY <1>2, <1>5, SameObjs, Kinds DEF HeldSet, When, FieldInv
<1> QED
  BY <1>1, <1>3, <1>4, <1>6, <1>7 DEF y


LEMMA CardMsi ==
  ASSUME NEW x, NEW h, NEW r, NEW c, NEW pm, CardInv("msi", x, h, r, c, pm),
         c.irq \in {"msix", "msi", "legacy"},
         NEW y, y = [x EXCEPT !.msix = (c.irq = "msix"), !.msi = (c.irq = "msi")]
  PROVE  /\ c.irq # "legacy" => CardInv("irq", y, h \cup {<<"vectors", 0>>}, r, c, pm)
         /\ c.irq = "legacy" => CardInv("irq", y, h, r, c, pm)
         /\ CardInv("err_engines", y, h, r, c, pm)
<1> USE DEF CardInv, FilesAt, IrqsAt, VectorsAt, EnginesAt, BarsAt, RegionsAt, EnabledAt,
            ListedAt, XdevAt, XpdevAt, Idle, Removing, Directions
<1>1. y \in XdevType
  BY ZenonT(60) DEF XdevType
<1>2. /\ y.msix = (c.irq = "msix") /\ y.msi = (c.irq = "msi")
      /\ y.engines = x.engines /\ y.bar = x.bar /\ y.regions_in_use = x.regions_in_use
      /\ y.got_regions = x.got_regions /\ y.shutdown = x.shutdown
      /\ y.major = x.major /\ y.flags = x.flags
  BY DEF XdevType
<1>3. FieldInv("irq", y, c, pm) /\ FieldInv("err_engines", y, c, pm)
  BY <1>2 DEF FieldInv
<1>4. r = RegSet("irq", y, pm) /\ r = RegSet("err_engines", y, pm)
  BY <1>2 DEF RegSet, When, EngineRegs
<1>5. h = HeldSet("err_engines", y, pm)
  <2>3. y.bar = x.bar /\ y.engines = x.engines
    BY <1>2
  <2>1. BarObjs(y) = BarObjs(x) /\ EngineObjs(y, pm) = EngineObjs(x, pm)
    BY <2>3, SMT DEF BarObjs, EngineObjs
  <2> HIDE DEF CardInv
  <2>2. h = HeldSet("msi", x, pm)
    BY DEF CardInv
  <2> QED
    BY <2>1, <2>2 DEF HeldSet, When
<1>6. HeldSet("irq", y, pm) = HeldSet("err_engines", y, pm)
                              \cup When(y.msix \/ y.msi, {<<"vectors", 0>>})
  BY DEF HeldSet, When
<1>7. CASE c.irq = "legacy"
  <2>1. ~y.msix /\ ~y.msi
    BY <1>2, <1>7
  <2>2. h = HeldSet("irq", y, pm)
    BY <1>5, <1>6, <2>1 DEF When
  <2> QED
    BY <1>1, <1>3, <1>4, <1>5, <1>7, <2>2
<1>8. CASE c.irq # "legacy"
  <2>1. y.msix \/ y.msi
    BY <1>2, <1>8
  <2>2. h \cup {<<"vectors", 0>>} = HeldSet("irq", y, pm)
    BY <1>5, <1>6, <2>1 DEF When
  <2> QED
    BY <1>1, <1>3, <1>4, <1>5, <1>8, <2>2
<1> QED
  BY <1>7, <1>8

\* The channels irq_setup has registered are those it has handlers for.
LEMMA ChannelLines ==
  ASSUME NEW x \in XdevType
  PROVE  {e \in x.engines : <<"channel_irq", e>> \in SetupIrqs(x)} = When(x.msix, x.engines)
BY DEF SetupIrqs, ChannelIrqs, UserIrqs, When, XdevType

LEMMA CardIrq ==
  ASSUME NEW x, NEW h, NEW r, NEW c, NEW pm \in BOOLEAN, CardInv("irq", x, h, r, c, pm)
  PROVE  /\ CardInv("isr_enable", [WithIrqs(x, SetupIrqs(x)) EXCEPT !.offline = FALSE],
                    h \cup SetupIrqs(x),
                    r \cup When(x.msix, {<<"irq_vectors", 0>>})
                      \cup When(~pm, {<<"channel_int", 0>>}), c, pm)
         /\ ~x.msix => CardInv("err_msix", [WithIrqs(x, {}) EXCEPT !.offline = TRUE], h, r, c, pm)
<1> DEFINE y == [WithIrqs(x, SetupIrqs(x)) EXCEPT !.offline = FALSE]
           z == [WithIrqs(x, {}) EXCEPT !.offline = TRUE]
<1> USE DEF CardInv, FilesAt, IrqsAt, VectorsAt, EnginesAt, BarsAt, RegionsAt, EnabledAt,
            ListedAt, XdevAt, XpdevAt, Idle, Removing, Directions
<1>1. x \in XdevType
  OBVIOUS
<1>2. y = [x EXCEPT !.irq_line = ~x.msix, !.msix_irq_line = When(x.msix, x.engines),
                    !.offline = FALSE]
  BY <1>1, ChannelLines DEF WithIrqs
<1>3. z = [x EXCEPT !.irq_line = ~x.msix, !.msix_irq_line = {}, !.offline = TRUE]
  BY DEF WithIrqs
<1> HIDE DEF y, z
<1>4. /\ When(x.msix, x.engines) \in SUBSET Engines
      /\ (~x.msix) \in BOOLEAN
  BY DEF XdevType, When
<1>5. y \in XdevType /\ z \in XdevType
  BY <1>2, <1>3, <1>4, ZenonT(60) DEF XdevType
<1>6. /\ y.msix = x.msix /\ y.msi = x.msi /\ y.irq_line = ~x.msix
      /\ y.msix_irq_line = When(x.msix, x.engines)
      /\ y.engines = x.engines /\ y.bar = x.bar /\ y.regions_in_use = x.regions_in_use
      /\ y.got_regions = x.got_regions /\ y.shutdown = x.shutdown
      /\ y.major = x.major /\ y.flags = x.flags
  BY <1>2 DEF XdevType
<1>7. /\ z.msix = x.msix /\ z.msi = x.msi
      /\ z.engines = x.engines /\ z.bar = x.bar /\ z.regions_in_use = x.regions_in_use
      /\ z.got_regions = x.got_regions /\ z.shutdown = x.shutdown
      /\ z.major = x.major /\ z.flags = x.flags
  BY <1>3 DEF XdevType
<1>8. FieldInv("isr_enable", y, c, pm)
  BY <1>6 DEF FieldInv
<1>9. FieldInv("err_msix", z, c, pm)
  BY <1>7 DEF FieldInv
<1>10. r \cup When(x.msix, {<<"irq_vectors", 0>>}) \cup When(~pm, {<<"channel_int", 0>>})
         = RegSet("isr_enable", y, pm)
  BY <1>6 DEF RegSet, When, EngineRegs
<1>11. r = RegSet("err_msix", z, pm)
  BY <1>7 DEF RegSet, When, EngineRegs
<1>12. h \cup SetupIrqs(x) = HeldSet("isr_enable", y, pm)
  BY <1>6, SameObjs DEF HeldSet, When
<1>13. h = HeldSet("err_msix", z, pm)
  BY <1>7, SameObjs DEF HeldSet, When
<1> QED
  BY <1>5, <1>8, <1>9, <1>10, <1>11, <1>12, <1>13 DEF y, z

LEMMA CardFiles ==
  ASSUME NEW x, NEW h, NEW r, NEW c, NEW pm, CardInv("files", x, h, r, c, pm),
         NEW g \in GroupNames
  PROVE  CardInv("files", [x EXCEPT !.major = TRUE, !.flags = x.flags \cup {g}],
                 h \cup AsFiles(FilesOf(x, g)) \cup {<<"chrdev", 0>>}, r, c, pm)
<1> DEFINE y == [x EXCEPT !.major = TRUE, !.flags = x.flags \cup {g}]
<1> USE DEF CardInv, FilesAt, IrqsAt, VectorsAt, EnginesAt, BarsAt, RegionsAt, EnabledAt,
            ListedAt, XdevAt, XpdevAt, Idle, Removing, Directions
<1>1. y \in XdevType
  BY DEF XdevType
<1>2. /\ y.msix = x.msix /\ y.msi = x.msi /\ y.irq_line = x.irq_line
      /\ y.msix_irq_line = x.msix_irq_line /\ y.mask_irq_user = x.mask_irq_user
      /\ y.engines = x.engines /\ y.bar = x.bar /\ y.regions_in_use = x.regions_in_use
      /\ y.got_regions = x.got_regions /\ y.shutdown = x.shutdown
      /\ y.major = TRUE /\ y.flags = x.flags \cup {g}
  BY DEF XdevType
<1> HIDE DEF y
<1>3. FieldInv("files", y, c, pm)
  BY <1>2 DEF FieldInv
<1>4. r = RegSet("files", y, pm)
  BY <1>2 DEF RegSet, When, EngineRegs
<1>5. \A k : FilesOf(y, k) = FilesOf(x, k)
  BY <1>2 DEF FilesOf
<1>6. FileObjs(y) = FileObjs(x) \cup AsFiles(FilesOf(x, g))
  BY <1>2, <1>5 DEF FileObjs
<1>7. h \cup AsFiles(FilesOf(x, g)) \cup {<<"chrdev", 0>>} = HeldSet("files", y, pm)
  BY <1>2, <1>6, SameObjs DEF HeldSet, When
<1> QED
  BY <1>1, <1>3, <1>4, <1>7 DEF y

LEMMA CardFilesFailed ==
  ASSUME NEW x, NEW h, NEW r, NEW c, NEW pm, CardInv("files", x, h, r, c, pm), ~x.major
  PROVE  CardInv("files_failed", [x EXCEPT !.major = FALSE], h, r, c, pm)
<1> USE DEF CardInv, FilesAt, IrqsAt, VectorsAt, EnginesAt, BarsAt, RegionsAt, EnabledAt,
            ListedAt, XdevAt, XpdevAt, Idle, Removing, Directions
<1>1. [x EXCEPT !.major = FALSE] = x
  BY DEF XdevType
<1>2. CardInv("files_failed", x, h, r, c, pm)
  BY DEF FieldInv, RegSet, HeldSet, When
<1> QED
  BY <1>1, <1>2

\* What xpdev_destroy_interfaces returns.
FilesMade(x) == FileObjs(x) \cup (IF x.major THEN {<<"chrdev", 0>>} ELSE {})

LEMMA CardDestroy ==
  ASSUME NEW p \in {"files_failed", "destroy"}, NEW x, NEW h, NEW r, NEW c, NEW pm,
         CardInv(p, x, h, r, c, pm)
  PROVE  /\ FilesMade(x) \subseteq h
         /\ CardInv(IF p = "files_failed" THEN "destroy" ELSE "close", x,
                    h \ FilesMade(x), r, c, pm)
<1> USE DEF CardInv, FilesAt, IrqsAt, VectorsAt, EnginesAt, BarsAt, RegionsAt, EnabledAt,
            ListedAt, XdevAt, XpdevAt, Idle, Removing, Directions
<1>1. FilesMade(x) \subseteq h
  BY DEF HeldSet, When, FilesMade
<1>2. CASE p = "files_failed"
  <2>1. FilesMade(x) = {}
    BY <1>2, NoObjs DEF FieldInv, FilesMade
  <2>2. CardInv("destroy", x, h, r, c, pm)
    BY <1>2 DEF FieldInv, RegSet, HeldSet, When
  <2>3. h \ FilesMade(x) = h
    BY <2>1
  <2> QED
    BY <1>1, <1>2, <2>2, <2>3
<1>3. CASE p = "destroy"
  <2>1. FieldInv("close", x, c, pm) /\ r = RegSet("close", x, pm)
    BY <1>3 DEF FieldInv, RegSet, When
  <2>2. h = HeldSet("close", x, pm) \cup FilesMade(x)
    BY <1>3 DEF HeldSet, When, FilesMade
  <2>3. ASSUME NEW o \in FilesMade(x) PROVE o[1] \in {"file", "chrdev"}
    <3>1. o \in FileObjs(x) \/ o = <<"chrdev", 0>>
      BY DEF FilesMade
    <3>2. o \in FileObjs(x) => o[1] = "file"
      BY Kinds, Zenon
    <3> QED
      BY <3>1, <3>2
  <2>4. \A o \in HeldSet("close", x, pm) : o[1] \notin {"file", "chrdev"}
    BY Kinds DEF HeldSet, When
  <2>5. h \ FilesMade(x) = HeldSet("close", x, pm)
    BY <2>2, <2>3, <2>4
  <2> QED
    BY <1>1, <1>3, <2>1, <2>5
<1> QED
  BY <1>2, <1>3


\* irq_teardown frees what irq_setup registered.
LEMMA TeardownIsSetup ==
  ASSUME NEW p \in IrqsAt, NEW x, NEW c, NEW pm, x \in XdevType, FieldInv(p, x, c, pm)
  PROVE  TeardownIrqs(x) = SetupIrqs(x)
<1>1. x.irq_line = ~x.msix /\ x.msix_irq_line = When(x.msix, x.engines) /\ x.msix \in BOOLEAN
  BY DEF FieldInv, XdevType
<1>2. CASE x.msix
  BY <1>1, <1>2 DEF TeardownIrqs, SetupIrqs, When
<1>3. CASE ~x.msix
  BY <1>1, <1>3 DEF TeardownIrqs, SetupIrqs, When
<1> QED
  BY <1>2, <1>3

LEMMA RegsWithoutIrqs ==
  ASSUME NEW p, NEW q, q \notin IrqsAt, NEW x, NEW y, NEW pm, y.engines = x.engines
  PROVE  RegSet(p, x, pm) \ IrqRegs = RegSet(q, y, pm)
<1>1. EngineRegs(y) = EngineRegs(x) /\ \A o \in EngineRegs(x) : o[1] = "engine"
  BY DEF EngineRegs
<1>2. RegSet(q, y, pm) = EngineRegs(x)
  BY <1>1 DEF RegSet, When
<1>3. \A o \in RegSet(p, x, pm) : o \in EngineRegs(x) \/ o \in IrqRegs
  BY DEF RegSet, When, IrqRegs
<1>4. EngineRegs(x) \subseteq RegSet(p, x, pm)
  BY DEF RegSet
<1>5. \A o \in IrqRegs : o[1] # "engine"
  BY DEF IrqRegs
<1> QED
  BY <1>1, <1>2, <1>3, <1>4, <1>5

LEMMA CardClose ==
  ASSUME NEW x, NEW h, NEW r, NEW c, NEW pm, CardInv("close", x, h, r, c, pm)
  PROVE  /\ TeardownIrqs(x) \subseteq h
         /\ CardInv("err_msix", x, h \ TeardownIrqs(x), r \ IrqRegs, c, pm)
<1> USE DEF CardInv, FilesAt, IrqsAt, VectorsAt, EnginesAt, BarsAt, RegionsAt, EnabledAt,
            ListedAt, XdevAt, XpdevAt, Idle, Removing, Directions
<1>1. TeardownIrqs(x) = SetupIrqs(x)
  BY TeardownIsSetup
<1>2. FieldInv("err_msix", x, c, pm)
  BY DEF FieldInv
<1>3. r \ IrqRegs = RegSet("err_msix", x, pm)
  BY RegsWithoutIrqs
<1>4. h = HeldSet("err_msix", x, pm) \cup SetupIrqs(x)
  BY DEF HeldSet, When
<1>5. \A o \in HeldSet("err_msix", x, pm) : o[1] \notin {"channel_irq", "user_irq", "line_irq"}
  BY Kinds DEF HeldSet, When
<1>6. h \ SetupIrqs(x) = HeldSet("err_msix", x, pm)
  BY <1>4, <1>5, Kinds
<1> QED
  BY <1>1, <1>2, <1>3, <1>4, <1>6

LEMMA CardOffline ==
  ASSUME NEW x, NEW h, NEW r, NEW c, NEW pm, pm = FALSE,
         CardInv("bound", x, h, r, c, pm)
  PROVE  /\ (TeardownIrqs(x) \cup {<<"enabled", 0>>}) \subseteq h
         /\ CardInv("frozen", [x EXCEPT !.offline = TRUE, !.shutdown = x.engines],
                    h \ (TeardownIrqs(x) \cup {<<"enabled", 0>>}), r \ IrqRegs, c, pm)
         /\ CardInv("resetting", [x EXCEPT !.offline = TRUE, !.shutdown = x.engines],
                    h \ TeardownIrqs(x), r \ IrqRegs, c, pm)
<1> DEFINE y == [x EXCEPT !.offline = TRUE, !.shutdown = x.engines]
<1> USE DEF CardInv, FilesAt, IrqsAt, VectorsAt, EnginesAt, BarsAt, RegionsAt, EnabledAt,
            ListedAt, XdevAt, XpdevAt, Idle, Removing, Directions
<1>1. TeardownIrqs(x) = SetupIrqs(x)
  BY TeardownIsSetup
<1>2. y \in XdevType
  BY DEF XdevType
<1>3. /\ y.msix = x.msix /\ y.msi = x.msi /\ y.mask_irq_user = x.mask_irq_user
      /\ y.engines = x.engines /\ y.bar = x.bar /\ y.regions_in_use = x.regions_in_use
      /\ y.got_regions = x.got_regions /\ y.offline /\ y.major = x.major /\ y.flags = x.flags
  BY DEF XdevType
<1> HIDE DEF y
<1>4. FieldInv("frozen", y, c, pm) /\ FieldInv("resetting", y, c, pm)
  BY <1>3 DEF FieldInv
<1>5. r \ IrqRegs = RegSet("frozen", y, pm) /\ r \ IrqRegs = RegSet("resetting", y, pm)
  <2>1. y.engines = x.engines /\ r = RegSet("bound", x, pm)
    BY <1>3
  <2>2. "frozen" \notin IrqsAt /\ "resetting" \notin IrqsAt
    OBVIOUS
  <2>3. RegSet("bound", x, pm) \ IrqRegs = RegSet("frozen", x, pm)
    BY <2>2, RegsWithoutIrqs
  <2>4. RegSet("frozen", x, pm) = EngineRegs(x) /\ EngineRegs(y) = EngineRegs(x)
    BY <2>1 DEF RegSet, When, EngineRegs
  <2>5. RegSet("frozen", y, pm) = EngineRegs(y) /\ RegSet("resetting", y, pm) = EngineRegs(y)
    BY DEF RegSet, When
  <2> QED
    BY <2>1, <2>3, <2>4, <2>5, Zenon
<1>6. HeldSet("bound", x, pm) = HeldSet("resetting", y, pm) \cup SetupIrqs(x)
  <2>1. /\ BarObjs(y) = BarObjs(x) /\ EngineObjs(y, pm) = EngineObjs(x, pm)
        /\ FileObjs(y) = FileObjs(x)
    BY <1>3, SameObjs
  <2> QED
    BY <1>3, <2>1 DEF HeldSet, When
<1>7. /\ HeldSet("resetting", y, pm) = HeldSet("frozen", y, pm) \cup {<<"enabled", 0>>}
      /\ <<"enabled", 0>> \notin HeldSet("frozen", y, pm)
  BY Kinds DEF HeldSet, When
<1>8. \A o \in HeldSet("resetting", y, pm) : o[1] \notin {"channel_irq", "user_irq", "line_irq"}
  BY Kinds DEF HeldSet, When
<1>9. \A o \in SetupIrqs(x) : o[1] \in {"channel_irq", "user_irq", "line_irq"}
  BY Kinds
<1>10. h \ SetupIrqs(x) = HeldSet("resetting", y, pm)
  BY <1>6, <1>8, <1>9
<1>11. h \ (SetupIrqs(x) \cup {<<"enabled", 0>>}) = HeldSet("frozen", y, pm)
  BY <1>7, <1>10
<1>12. SetupIrqs(x) \cup {<<"enabled", 0>>} \subseteq h
  BY <1>6, <1>7
<1> QED
  BY <1>1, <1>2, <1>4, <1>5, <1>10, <1>11, <1>12 DEF y

LEMMA CardOnline ==
  ASSUME NEW p \in {"frozen", "resetting"}, NEW x, NEW h, NEW r, NEW c, NEW pm,
         CardInv(p, x, h, r, c, pm),
         NEW k, k = IF p = "frozen" THEN {<<"enabled", 0>>} ELSE {}
  PROVE  CardInv("bound",
                 [WithIrqs(x, SetupIrqs(x)) EXCEPT !.offline = FALSE, !.shutdown = {}],
                 h \cup (SetupIrqs(x) \cup k),
                 EngineRegs(x) \cup ({<<"channel_int", 0>>} \cup {<<"user_int", 0>>}
                                      \cup When(x.msix, {<<"irq_vectors", 0>>})), c, pm)
<1> DEFINE y == [WithIrqs(x, SetupIrqs(x)) EXCEPT !.offline = FALSE, !.shutdown = {}]
<1> USE DEF CardInv, FilesAt, IrqsAt, VectorsAt, EnginesAt, BarsAt, RegionsAt, EnabledAt,
            ListedAt, XdevAt, XpdevAt, Idle, Removing, Directions
<1>1. x \in XdevType
  OBVIOUS
<1>2. y = [x EXCEPT !.irq_line = ~x.msix, !.msix_irq_line = When(x.msix, x.engines),
                    !.offline = FALSE, !.shutdown = {}]
  BY <1>1, ChannelLines DEF WithIrqs
<1> HIDE DEF y
<1>3. When(x.msix, x.engines) \in SUBSET Engines /\ (~x.msix) \in BOOLEAN
  BY DEF XdevType, When
<1>4. y \in XdevType
  BY <1>2, <1>3 DEF XdevType
<1>5. /\ y.msix = x.msix /\ y.msi = x.msi /\ y.irq_line = ~x.msix
      /\ y.msix_irq_line = When(x.msix, x.engines) /\ y.mask_irq_user = x.mask_irq_user
      /\ y.engines = x.engines /\ y.bar = x.bar /\ y.regions_in_use = x.regions_in_use
      /\ y.got_regions = x.got_regions /\ y.shutdown = {}
      /\ y.major = x.major /\ y.flags = x.flags
  BY <1>2 DEF XdevType
<1>6. FieldInv("bound", y, c, pm)
  BY <1>5 DEF FieldInv
<1>7. EngineRegs(x) \cup ({<<"channel_int", 0>>} \cup {<<"user_int", 0>>}
                           \cup When(x.msix, {<<"irq_vectors", 0>>})) = RegSet("bound", y, pm)
  BY <1>5 DEF RegSet, When, EngineRegs, FieldInv
<1>8. HeldSet("bound", y, pm) = HeldSet("resetting", x, pm) \cup SetupIrqs(x)
  <2>1. /\ BarObjs(y) = BarObjs(x) /\ EngineObjs(y, pm) = EngineObjs(x, pm)
        /\ FileObjs(y) = FileObjs(x) /\ SetupIrqs(y) = SetupIrqs(x)
    BY <1>5, SameObjs
  <2> QED
    BY <1>5, <2>1 DEF HeldSet, When
<1>9. HeldSet("resetting", x, pm) = h \cup k
  BY DEF HeldSet, When
<1>10. h \cup (SetupIrqs(x) \cup k) = HeldSet("bound", y, pm)
  BY <1>8, <1>9
<1> QED
  BY <1>4, <1>6, <1>7, <1>10 DEF y
-----------------------------------------------------------------------------
(***************************************************************************)
(* Every action keeps the invariant. First the steps that change only the  *)
(* books of one card.                                                      *)
(***************************************************************************)
LEMMA CardAt ==
  ASSUME DeviceInv, NEW d \in Devices
  PROVE  /\ CardInv(pc[d], xdev[d], held[d], regs[d], hw[d], poll_mode)
         /\ pc = [pc EXCEPT ![d] = pc[d]] /\ xdev = [xdev EXCEPT ![d] = xdev[d]]
         /\ held = [held EXCEPT ![d] = held[d]] /\ regs = [regs EXCEPT ![d] = regs[d]]
         /\ opened[d] # {} => pc[d] \in OpenAt
<1>1. CardInv(pc[d], xdev[d], held[d], regs[d], hw[d], poll_mode)
  BY DEF DeviceInv, CardsInv
<1>2. /\ pc = [pc EXCEPT ![d] = pc[d]] /\ xdev = [xdev EXCEPT ![d] = xdev[d]]
      /\ held = [held EXCEPT ![d] = held[d]] /\ regs = [regs EXCEPT ![d] = regs[d]]
  BY DEF DeviceInv, FrameInv
<1>3. opened[d] # {} => pc[d] \in OpenAt
  BY DEF DeviceInv, OpenInv, OpenAt
<1> QED
  BY <1>1, <1>2, <1>3

Books(d, p, x, h, r) ==
  Moves(d, p, x, h, r) /\ UNCHANGED <<module, xdev_list, cs_threads, opened>> /\ misuse' = {}

\* Objects that are held are returned.
LEMMA Returned ==
  ASSUME DeviceInv, NEW d \in Devices, NEW objs, objs \subseteq held[d], Return(d, objs)
  PROVE  held' = [held EXCEPT ![d] = held[d] \ objs] /\ misuse' = {}
<1>1. objs \ held[d] = {}
  OBVIOUS
<1> QED
  BY <1>1 DEF Return, DeviceInv

LEMMA PlainStep ==
  ASSUME DeviceInv, NEW d \in Devices, NEW p, NEW x, NEW h, NEW r, Books(d, p, x, h, r),
         CardInv(p, x, h, r, hw[d], poll_mode),
         pc[d] \notin OpenAt \cup Idle, p \notin OpenAt,
         p \in ListedAt <=> pc[d] \in ListedAt,
         x.engines = xdev[d].engines, x.idx = xdev[d].idx
  PROVE  DeviceInv'
BY CardAt, QuietStep DEF Books

LEMMA StepAlloc ==
  ASSUME DeviceInv, NEW d \in Devices, AllocDevInstance(d)
  PROVE  DeviceInv'
<1>1. pc[d] = "alloc" /\ CardInv("alloc", xdev[d], held[d], regs[d], hw[d], poll_mode)
  BY CardAt DEF AllocDevInstance
<1>2. \/ Books(d, "list_add", xdev[d], held[d] \cup {<<"xdev", 0>>}, regs[d])
      \/ Books(d, "free_xpdev", xdev[d], held[d], regs[d])
  <2>1. OpenNext["alloc"] = "list_add" /\ OpenError["alloc"] = "free_xpdev"
    BY DEF OpenNext, OpenError
  <2>2. /\ UNCHANGED <<poll_mode, hw, module, xdev, xdev_list, cs_threads, misuse, regs, opened>>
        /\ misuse = {}
    BY DEF AllocDevInstance, DeviceInv
  <2>3. PICK ok \in BOOLEAN : /\ Continue(d, ok)
        /\ IF ok THEN Take(d, {<<"xdev", 0>>}) ELSE UNCHANGED held
    BY DEF AllocDevInstance, Result
  <2>4. CASE ok
    BY <1>1, <2>1, <2>2, <2>3, <2>4, CardAt DEF Continue, Goto, Take, Books, Moves
  <2>5. CASE ~ok
    BY <1>1, <2>1, <2>2, <2>3, <2>5, CardAt DEF Continue, Goto, Take, Books, Moves
  <2> QED
    BY <2>4, <2>5
<1> QED
  BY <1>1, <1>2, CardAlloc, PlainStep DEF OpenAt, Idle, ListedAt, RegionsAt, BarsAt, EnginesAt,
     VectorsAt, IrqsAt

LEMMA StepEnable ==
  ASSUME DeviceInv, NEW d \in Devices, EnableDevice(d)
  PROVE  DeviceInv'
<1>1. pc[d] = "enable" /\ CardInv("enable", xdev[d], held[d], regs[d], hw[d], poll_mode)
  BY CardAt DEF EnableDevice
<1>2. \/ Books(d, "regions", xdev[d], held[d] \cup {<<"enabled", 0>>}, regs[d])
      \/ Books(d, "err_enable", xdev[d], held[d], regs[d])
  <2>1. OpenNext["enable"] = "regions" /\ OpenError["enable"] = "err_enable"
    BY DEF OpenNext, OpenError
  <2>2. UNCHANGED <<poll_mode, hw, module, xdev, xdev_list, cs_threads, misuse, regs, opened>> /\ misuse = {}
    BY DEF EnableDevice, DeviceInv
  <2>3. PICK ok \in BOOLEAN : /\ Continue(d, ok)
        /\ IF ok THEN Take(d, {<<"enabled", 0>>}) ELSE UNCHANGED held
    BY DEF EnableDevice, Result
  <2>4. CASE ok
    BY <1>1, <2>1, <2>2, <2>3, <2>4, CardAt DEF Continue, Goto, Take, Books, Moves
  <2>5. CASE ~ok
    BY <1>1, <2>1, <2>2, <2>3, <2>5, CardAt DEF Continue, Goto, Take, Books, Moves
  <2> QED
    BY <2>4, <2>5
<1>3. xdev[d] \in XdevType
  BY <1>1 DEF CardInv
<1>4. /\ (xdev[d]).engines = xdev[d].engines /\ (xdev[d]).idx = xdev[d].idx
      /\ (xdev[d]).engines = xdev[d].engines /\ (xdev[d]).idx = xdev[d].idx
  BY <1>3 DEF XdevType
<1> QED
  BY <1>1, <1>2, <1>4, CardEnable, PlainStep DEF OpenAt, Idle, ListedAt, RegionsAt, BarsAt, EnginesAt,
     VectorsAt, IrqsAt

LEMMA StepRegions ==
  ASSUME DeviceInv, NEW d \in Devices, RequestRegions(d)
  PROVE  DeviceInv'
<1>1. pc[d] = "regions" /\ CardInv("regions", xdev[d], held[d], regs[d], hw[d], poll_mode)
  BY CardAt DEF RequestRegions
<1>2. \/ Books(d, "map_bars", [xdev[d] EXCEPT !.got_regions = TRUE, !.regions_in_use = FALSE], held[d] \cup {<<"regions", 0>>}, regs[d])
      \/ Books(d, "err_regions", [xdev[d] EXCEPT !.got_regions = FALSE, !.regions_in_use = TRUE], held[d], regs[d])
  <2>1. OpenNext["regions"] = "map_bars" /\ OpenError["regions"] = "err_regions"
    BY DEF OpenNext, OpenError
  <2>2. UNCHANGED <<poll_mode, hw, module, xdev_list, cs_threads, misuse, regs, opened>> /\ misuse = {}
    BY DEF RequestRegions, DeviceInv
  <2>3. ASSUME NEW ok \in BOOLEAN, Continue(d, ok),
               IF ok THEN Take(d, {<<"regions", 0>>}) ELSE UNCHANGED held,
               xdev' = [xdev EXCEPT ![d].got_regions = ok, ![d].regions_in_use = ~ok]
        PROVE  \/ Books(d, "map_bars",
                        [xdev[d] EXCEPT !.got_regions = TRUE, !.regions_in_use = FALSE],
                        held[d] \cup {<<"regions", 0>>}, regs[d])
               \/ Books(d, "err_regions",
                        [xdev[d] EXCEPT !.got_regions = FALSE, !.regions_in_use = TRUE],
                        held[d], regs[d])
    <3>1. DOMAIN xdev = Devices /\ xdev = [c \in Devices |-> xdev[c]]
      BY DEF DeviceInv, FrameInv
    <3>2. xdev' = [xdev EXCEPT ![d] = [xdev[d] EXCEPT !.got_regions = ok,
                                                      !.regions_in_use = ~ok]]
      BY <2>3, <3>1
    <3>3. CASE ok = TRUE
      <4>1. xdev' = [xdev EXCEPT ![d] = [xdev[d] EXCEPT !.got_regions = TRUE,
                                                        !.regions_in_use = FALSE]]
        BY <3>2, <3>3
      <4> QED
        BY <1>1, <2>1, <2>2, <2>3, <3>3, <4>1, CardAt DEF Continue, Goto, Take, Books, Moves
    <3>4. CASE ok = FALSE
      <4>1. xdev' = [xdev EXCEPT ![d] = [xdev[d] EXCEPT !.got_regions = FALSE,
                                                        !.regions_in_use = TRUE]]
        BY <3>2, <3>4
      <4> QED
        BY <1>1, <2>1, <2>2, <2>3, <3>4, <4>1, CardAt DEF Continue, Goto, Take, Books, Moves
    <3> QED
      BY <3>3, <3>4
  <2> QED
    BY <2>3 DEF RequestRegions, Result
<1>3. xdev[d] \in XdevType
  BY <1>1 DEF CardInv
<1>4. /\ ([xdev[d] EXCEPT !.got_regions = TRUE, !.regions_in_use = FALSE]).engines = xdev[d].engines /\ ([xdev[d] EXCEPT !.got_regions = TRUE, !.regions_in_use = FALSE]).idx = xdev[d].idx
      /\ ([xdev[d] EXCEPT !.got_regions = FALSE, !.regions_in_use = TRUE]).engines = xdev[d].engines /\ ([xdev[d] EXCEPT !.got_regions = FALSE, !.regions_in_use = TRUE]).idx = xdev[d].idx
  BY <1>3 DEF XdevType
<1> QED
  BY <1>1, <1>2, <1>4, CardRegions, PlainStep DEF OpenAt, Idle, ListedAt, RegionsAt, BarsAt, EnginesAt,
     VectorsAt, IrqsAt

LEMMA StepDmaMask ==
  ASSUME DeviceInv, NEW d \in Devices, SetDmaMask(d)
  PROVE  DeviceInv'
<1>1. pc[d] = "dma_mask" /\ CardInv("dma_mask", xdev[d], held[d], regs[d], hw[d], poll_mode)
  BY CardAt DEF SetDmaMask
<1>2. \/ Books(d, "h2c", xdev[d], held[d], regs[d])
      \/ Books(d, "err_mask", xdev[d], held[d], regs[d])
  <2>1. OpenNext["dma_mask"] = "h2c" /\ OpenError["dma_mask"] = "err_mask"
    BY DEF OpenNext, OpenError
  <2>2. UNCHANGED <<poll_mode, hw, module, xdev, xdev_list, cs_threads, misuse, regs, opened>> /\ misuse = {}
    BY DEF SetDmaMask, DeviceInv
  <2>3. PICK ok \in BOOLEAN : /\ Continue(d, ok)
        /\ UNCHANGED held
    BY DEF SetDmaMask, Result
  <2>4. CASE ok
    BY <1>1, <2>1, <2>2, <2>3, <2>4, CardAt DEF Continue, Goto, Take, Books, Moves
  <2>5. CASE ~ok
    BY <1>1, <2>1, <2>2, <2>3, <2>5, CardAt DEF Continue, Goto, Take, Books, Moves
  <2> QED
    BY <2>4, <2>5
<1>3. xdev[d] \in XdevType
  BY <1>1 DEF CardInv
<1>4. /\ (xdev[d]).engines = xdev[d].engines /\ (xdev[d]).idx = xdev[d].idx
      /\ (xdev[d]).engines = xdev[d].engines /\ (xdev[d]).idx = xdev[d].idx
  BY <1>3 DEF XdevType
<1> QED
  BY <1>1, <1>2, <1>4, CardDmaMask, PlainStep DEF OpenAt, Idle, ListedAt, RegionsAt, BarsAt, EnginesAt,
     VectorsAt, IrqsAt


LEMMA StepClose ==
  ASSUME DeviceInv, NEW d \in Devices, DeviceClose(d)
  PROVE  DeviceInv'
<1>1. pc[d] = "close" /\ CardInv("close", xdev[d], held[d], regs[d], hw[d], poll_mode)
  BY CardAt DEF DeviceClose
<1>2. /\ TeardownIrqs(xdev[d]) \subseteq held[d]
      /\ CardInv("err_msix", xdev[d], held[d] \ TeardownIrqs(xdev[d]), regs[d] \ IrqRegs, hw[d], poll_mode)
  BY <1>1, CardClose
<1>3. Return(d, TeardownIrqs(xdev[d])) /\ UNCHANGED <<poll_mode, hw, module, xdev_list, cs_threads, opened>>
  BY DEF DeviceClose
<1>4. held' = [held EXCEPT ![d] = held[d] \ TeardownIrqs(xdev[d])] /\ misuse' = {}
  BY <1>2, <1>3, Returned
<1>5. Books(d, "err_msix", xdev[d], held[d] \ TeardownIrqs(xdev[d]), regs[d] \ IrqRegs)
  BY <1>3, <1>4, CardAt DEF DeviceClose, Goto, Books, Moves
<1>6. xdev[d] \in XdevType
  BY <1>1 DEF CardInv
<1>7. (xdev[d]).engines = xdev[d].engines /\ (xdev[d]).idx = xdev[d].idx
  BY <1>6 DEF XdevType
<1> QED
  BY <1>1, <1>2, <1>5, <1>7, PlainStep DEF OpenAt, Idle, ListedAt, RegionsAt, BarsAt, EnginesAt,
     VectorsAt, IrqsAt

LEMMA StepUnmap ==
  ASSUME DeviceInv, NEW d \in Devices, UnmapBars(d)
  PROVE  DeviceInv'
<1>1. pc[d] = "err_mask" /\ CardInv("err_mask", xdev[d], held[d], regs[d], hw[d], poll_mode)
  BY CardAt DEF UnmapBars
<1>2. /\ BarObjs(xdev[d]) \subseteq held[d]
      /\ CardInv("err_map", [xdev[d] EXCEPT !.bar = {}], held[d] \ BarObjs(xdev[d]), regs[d], hw[d], poll_mode)
  <2>1. BarObjs(xdev[d]) \subseteq held[d]
    BY <1>1 DEF CardInv, HeldSet
  <2> QED
    BY <1>1, <2>1, CardUnmap
<1>3. Return(d, BarObjs(xdev[d])) /\ UNCHANGED <<poll_mode, hw, module, xdev_list, cs_threads, opened>>
  BY DEF UnmapBars, BarObjs
<1>4. held' = [held EXCEPT ![d] = held[d] \ BarObjs(xdev[d])] /\ misuse' = {}
  BY <1>2, <1>3, Returned
<1>5. Books(d, "err_map", [xdev[d] EXCEPT !.bar = {}], held[d] \ BarObjs(xdev[d]), regs[d])
  BY <1>3, <1>4, CardAt DEF UnmapBars, Goto, Books, Moves
<1>6. xdev[d] \in XdevType
  BY <1>1 DEF CardInv
<1>7. ([xdev[d] EXCEPT !.bar = {}]).engines = xdev[d].engines /\ ([xdev[d] EXCEPT !.bar = {}]).idx = xdev[d].idx
  BY <1>6 DEF XdevType
<1> QED
  BY <1>1, <1>2, <1>5, <1>7, PlainStep DEF OpenAt, Idle, ListedAt, RegionsAt, BarsAt, EnginesAt,
     VectorsAt, IrqsAt

LEMMA StepFreeXdev ==
  ASSUME DeviceInv, NEW d \in Devices, FreeXdev(d)
  PROVE  DeviceInv'
<1>1. pc[d] = "free_xdev" /\ CardInv("free_xdev", xdev[d], held[d], regs[d], hw[d], poll_mode)
  BY CardAt DEF FreeXdev
<1>2. /\ {<<"xdev", 0>>} \subseteq held[d]
      /\ CardInv("free_xpdev", xdev[d], held[d] \ {<<"xdev", 0>>}, regs[d], hw[d], poll_mode)
  BY <1>1, CardFreeXdev DEF CardInv, HeldSet, When, FilesAt, IrqsAt, VectorsAt, EnginesAt,
     BarsAt, RegionsAt, EnabledAt, ListedAt, XdevAt, XpdevAt
<1>3. Return(d, {<<"xdev", 0>>}) /\ UNCHANGED <<poll_mode, hw, module, xdev_list, cs_threads, opened>>
  BY DEF FreeXdev
<1>4. held' = [held EXCEPT ![d] = held[d] \ {<<"xdev", 0>>}] /\ misuse' = {}
  BY <1>2, <1>3, Returned
<1>5. Books(d, "free_xpdev", xdev[d], held[d] \ {<<"xdev", 0>>}, regs[d])
  BY <1>3, <1>4, CardAt DEF FreeXdev, Goto, Books, Moves
<1>6. xdev[d] \in XdevType
  BY <1>1 DEF CardInv
<1>7. (xdev[d]).engines = xdev[d].engines /\ (xdev[d]).idx = xdev[d].idx
  BY <1>6 DEF XdevType
<1> QED
  BY <1>1, <1>2, <1>5, <1>7, PlainStep DEF OpenAt, Idle, ListedAt, RegionsAt, BarsAt, EnginesAt,
     VectorsAt, IrqsAt

LEMMA StepRelease ==
  ASSUME DeviceInv, NEW d \in Devices, ReleaseRegions(d)
  PROVE  DeviceInv'
<1>1. pc[d] = "err_map" /\ CardInv("err_map", xdev[d], held[d], regs[d], hw[d], poll_mode)
  BY CardAt DEF ReleaseRegions
<1>2. /\ {<<"regions", 0>>} \subseteq held[d]
      /\ CardInv("err_regions", xdev[d], held[d] \ {<<"regions", 0>>}, regs[d], hw[d], poll_mode)
  BY <1>1, CardRelease DEF CardInv, HeldSet, When, FilesAt, IrqsAt, VectorsAt, EnginesAt,
     BarsAt, RegionsAt, EnabledAt, ListedAt, XdevAt, XpdevAt
<1>3. Return(d, {<<"regions", 0>>}) /\ UNCHANGED <<poll_mode, hw, module, xdev_list, cs_threads, opened>>
  BY <1>1 DEF ReleaseRegions, CardInv, FieldInv, RegionsAt
<1>4. held' = [held EXCEPT ![d] = held[d] \ {<<"regions", 0>>}] /\ misuse' = {}
  BY <1>2, <1>3, Returned
<1>5. Books(d, "err_regions", xdev[d], held[d] \ {<<"regions", 0>>}, regs[d])
  BY <1>3, <1>4, CardAt DEF ReleaseRegions, Goto, Books, Moves
<1>6. xdev[d] \in XdevType
  BY <1>1 DEF CardInv
<1>7. (xdev[d]).engines = xdev[d].engines /\ (xdev[d]).idx = xdev[d].idx
  BY <1>6 DEF XdevType
<1> QED
  BY <1>1, <1>2, <1>5, <1>7, PlainStep DEF OpenAt, Idle, ListedAt, RegionsAt, BarsAt, EnginesAt,
     VectorsAt, IrqsAt


LEMMA StepDisableMsi ==
  ASSUME DeviceInv, NEW d \in Devices, DisableMsi(d)
  PROVE  DeviceInv'
<1> DEFINE x == xdev[d]
           y == [xdev[d] EXCEPT !.msix = FALSE, !.msi = FALSE]
           h == IF x.msix \/ x.msi THEN held[d] \ {<<"vectors", 0>>} ELSE held[d]
<1>1. pc[d] = "err_msix" /\ CardInv("err_msix", xdev[d], held[d], regs[d], hw[d], poll_mode)
  BY CardAt DEF DisableMsi
<1>2. CardInv("err_engines", y, h, regs[d], hw[d], poll_mode)
  BY <1>1, CardDisableMsi
<1>3. held' = [held EXCEPT ![d] = h] /\ misuse' = {}
  <2>1. CASE x.msix \/ x.msi
    <3>1. {<<"vectors", 0>>} \subseteq held[d]
      BY <1>1, <2>1 DEF CardInv, HeldSet, When, VectorsAt
    <3> QED
      BY <2>1, <3>1, Returned DEF DisableMsi
  <2>2. CASE ~(x.msix \/ x.msi)
    BY <2>2, CardAt DEF DisableMsi, DeviceInv
  <2> QED
    BY <2>1, <2>2
<1>4. Books(d, "err_engines", y, h, regs[d])
  <2>1. /\ pc' = [pc EXCEPT ![d] = "err_engines"]
        /\ xdev' = [xdev EXCEPT ![d].msix = FALSE, ![d].msi = FALSE]
        /\ UNCHANGED <<poll_mode, hw, module, xdev_list, cs_threads, regs, opened>>
    BY DEF DisableMsi, Goto
  <2>2. DOMAIN xdev = Devices /\ xdev = [c \in Devices |-> xdev[c]]
    BY DEF DeviceInv, FrameInv
  <2>3. xdev' = [xdev EXCEPT ![d] = y]
    BY <2>1, <2>2
  <2> HIDE DEF h, y, x
  <2> QED
    BY <1>3, <2>1, <2>3, CardAt DEF Books, Moves
<1>5. xdev[d] \in XdevType
  BY <1>1 DEF CardInv
<1>6. y.engines = xdev[d].engines /\ y.idx = xdev[d].idx
  BY <1>5 DEF XdevType
<1> HIDE DEF h, y, x
<1> QED
  BY <1>1, <1>2, <1>4, <1>6, PlainStep DEF OpenAt, Idle, ListedAt, RegionsAt, BarsAt, EnginesAt,
     VectorsAt, IrqsAt

LEMMA StepDisable ==
  ASSUME DeviceInv, NEW d \in Devices, DisableDevice(d)
  PROVE  DeviceInv'
<1> DEFINE h == IF xdev[d].regions_in_use THEN held[d] ELSE held[d] \ {<<"enabled", 0>>}
<1>1. pc[d] = "err_regions" /\ CardInv("err_regions", xdev[d], held[d], regs[d], hw[d], poll_mode)
  BY CardAt DEF DisableDevice
<1>2. CardInv("err_enable", xdev[d], h, regs[d], hw[d], poll_mode)
  BY <1>1, CardDisable
<1>3. held' = [held EXCEPT ![d] = h] /\ misuse' = {}
  <2>1. CASE ~xdev[d].regions_in_use
    <3>1. {<<"enabled", 0>>} \subseteq held[d]
      BY <1>1 DEF CardInv, HeldSet, When, EnabledAt
    <3> QED
      BY <2>1, <3>1, Returned DEF DisableDevice
  <2>2. CASE xdev[d].regions_in_use
    BY <2>2, CardAt DEF DisableDevice, DeviceInv
  <2> QED
    BY <2>1, <2>2
<1> HIDE DEF h
<1>4. Books(d, "err_enable", xdev[d], h, regs[d])
  BY <1>3, CardAt DEF DisableDevice, Goto, Books, Moves
<1> QED
  BY <1>1, <1>2, <1>4, PlainStep DEF OpenAt, Idle, ListedAt, RegionsAt, BarsAt, EnginesAt,
     VectorsAt, IrqsAt

LEMMA StepDestroy ==
  ASSUME DeviceInv, NEW d \in Devices, DestroyInterfaces(d)
  PROVE  DeviceInv'
<1> DEFINE p == IF pc[d] = "files_failed" THEN "destroy" ELSE "close"
<1>1. /\ pc[d] \in {"files_failed", "destroy"}
      /\ CardInv(pc[d], xdev[d], held[d], regs[d], hw[d], poll_mode)
  BY CardAt DEF DestroyInterfaces
<1>2. /\ FilesMade(xdev[d]) \subseteq held[d]
      /\ CardInv(p, xdev[d], held[d] \ FilesMade(xdev[d]), regs[d], hw[d], poll_mode)
  BY <1>1, CardDestroy
<1>3. Return(d, FilesMade(xdev[d])) /\ UNCHANGED <<poll_mode, hw, module, xdev_list, cs_threads, opened>>
  BY DEF DestroyInterfaces, FilesMade, FileObjs
<1>4. held' = [held EXCEPT ![d] = held[d] \ FilesMade(xdev[d])] /\ misuse' = {}
  BY <1>2, <1>3, Returned
<1>5. Books(d, p, xdev[d], held[d] \ FilesMade(xdev[d]), regs[d])
  BY <1>3, <1>4, CardAt DEF DestroyInterfaces, Goto, Books, Moves
<1>6. pc[d] \notin OpenAt \cup Idle /\ p \notin OpenAt /\ pc[d] \in ListedAt /\ p \in ListedAt
  BY <1>1 DEF OpenAt, Idle, ListedAt, RegionsAt, BarsAt, EnginesAt, VectorsAt, IrqsAt
<1> HIDE DEF p
<1> QED
  BY <1>2, <1>5, <1>6, PlainStep

LEMMA StepFree ==
  ASSUME DeviceInv, NEW d \in Devices, FreeXpdev(d)
  PROVE  DeviceInv'
<1> DEFINE p == IF xdev[d].regions_in_use THEN "in_use" ELSE "unbound"
           h == held[d] \ {<<"xpdev", 0>>}
<1>1. pc[d] = "free_xpdev" /\ CardInv("free_xpdev", xdev[d], held[d], regs[d], hw[d], poll_mode)
  BY CardAt DEF FreeXpdev
<1>2. CardInv(p, FreshXdev, h, regs[d], hw[d], poll_mode)
  BY <1>1, CardFree
<1>3. {<<"xpdev", 0>>} \subseteq held[d]
  BY <1>1 DEF CardInv, HeldSet, When, XpdevAt
<1>4. held' = [held EXCEPT ![d] = h] /\ misuse' = {}
  BY <1>3, Returned DEF FreeXpdev
<1>5. Books(d, p, FreshXdev, h, regs[d])
  BY <1>4, CardAt DEF FreeXpdev, Goto, Books, Moves
<1>6. FreshXdev.engines = xdev[d].engines
  BY <1>1 DEF FreshXdev, CardInv, FieldInv, EnginesAt, VectorsAt, IrqsAt
<1>7. /\ pc[d] \notin OpenAt \cup Idle \cup ListedAt /\ p \notin OpenAt \cup ListedAt
  BY <1>1 DEF OpenAt, Idle, ListedAt, RegionsAt, BarsAt, EnginesAt, VectorsAt, IrqsAt
<1> HIDE DEF p, h
<1>8. opened[d] = {}
  BY <1>7, CardAt
<1> QED
  BY <1>2, <1>5, <1>6, <1>7, <1>8, QuietStep DEF Books

LEMMA StepUserIsr ==
  ASSUME DeviceInv, NEW d \in Devices, UserIsrEnable(d)
  PROVE  DeviceInv'
<1> DEFINE y == [xdev[d] EXCEPT !.mask_irq_user = TRUE]
           r == regs[d] \cup {<<"user_int", 0>>}
<1>1. pc[d] = "isr_enable" /\ CardInv("isr_enable", xdev[d], held[d], regs[d], hw[d], poll_mode)
  BY CardAt DEF UserIsrEnable
<1>2. CardInv("files", y, held[d], r, hw[d], poll_mode)
  BY <1>1, CardIsr
<1>3. Books(d, "files", y, held[d], r)
  BY CardAt DEF UserIsrEnable, Goto, Books, Moves, DeviceInv
<1>4. xdev[d] \in XdevType
  BY <1>1 DEF CardInv
<1>5. y.engines = xdev[d].engines /\ y.idx = xdev[d].idx
  BY <1>4 DEF XdevType
<1> HIDE DEF y, r
<1>6. "files" \in OpenAt /\ pc[d] \notin Idle /\ pc[d] \in ListedAt /\ "files" \in ListedAt
  BY <1>1 DEF OpenAt, Idle, ListedAt, RegionsAt, BarsAt, EnginesAt, VectorsAt, IrqsAt
<1> QED
  BY <1>2, <1>3, <1>5, <1>6, QuietStep DEF Books

LEMMA StepRemove ==
  ASSUME DeviceInv, Handled, NEW d \in Devices, RemoveOne(d)
  PROVE  DeviceInv'
<1>1. pc[d] = "bound" /\ CardInv("bound", xdev[d], held[d], regs[d], hw[d], poll_mode)
  <2>1. CardInv(pc[d], xdev[d], held[d], regs[d], hw[d], poll_mode)
    BY CardAt
  <2>2. pc[d] # "dead"
    BY <2>1 DEF CardInv, FieldInv, XpdevAt, XdevAt, ListedAt, RegionsAt, BarsAt, EnginesAt,
       VectorsAt, IrqsAt, Idle
  <2> QED
    BY <2>1, <2>2 DEF RemoveOne
<1>2. CardInv("destroy", xdev[d], held[d], regs[d], hw[d], poll_mode)
  BY <1>1, CardRemove
<1>3. Books(d, "destroy", xdev[d], held[d], regs[d])
  BY CardAt DEF RemoveOne, Goto, Books, Moves, DeviceInv
<1>4. opened[d] = {}
  <2>1. CASE module.state = "exiting"
    <3>1. IsFiniteSet(OpenPairs) /\ Cardinality(OpenPairs) = 0
      BY <2>1 DEF DeviceInv, OpenInv
    <3>2. OpenPairs = {}
      BY <3>1, FS_EmptySet
    <3>3. \A f \in opened[d] : <<d, f>> \in OpenPairs
      BY DEF OpenPairs
    <3> QED
      BY <3>2, <3>3
  <2>2. CASE module.state # "exiting"
    BY <2>2 DEF RemoveOne, Handled, Unhandled
  <2> QED
    BY <2>1, <2>2
<1>5. "destroy" \notin OpenAt /\ pc[d] \notin Idle /\ pc[d] \in ListedAt /\ "destroy" \in ListedAt
  BY <1>1 DEF OpenAt, Idle, ListedAt, RegionsAt, BarsAt, EnginesAt, VectorsAt, IrqsAt
<1> QED
  BY <1>2, <1>3, <1>4, <1>5, QuietStep DEF Books

LEMMA StepProbe ==
  ASSUME DeviceInv, NEW d \in Devices, ProbeOne(d)
  PROVE  DeviceInv'
<1>1. /\ pc[d] = "unbound" /\ CardInv("unbound", xdev[d], held[d], regs[d], hw[d], poll_mode)
      /\ module.state = "loaded"
  BY CardAt DEF ProbeOne
<1>2. \/ Books(d, "alloc", FreshXdev, held[d] \cup {<<"xpdev", 0>>}, regs[d])
      \/ Books(d, "unbound", FreshXdev, held[d], regs[d])
  <2>1. /\ UNCHANGED <<poll_mode, hw, module, xdev_list, cs_threads, misuse, regs, opened>>
        /\ misuse = {} /\ xdev' = [xdev EXCEPT ![d] = FreshXdev]
    BY DEF ProbeOne, DeviceInv
  <2>2. \/ Goto(d, "alloc") /\ Take(d, {<<"xpdev", 0>>})
        \/ UNCHANGED <<pc, held>>
    BY DEF ProbeOne
  <2> QED
    BY <1>1, <2>1, <2>2, CardAt DEF Goto, Take, Books, Moves
<1>3. FreshXdev.engines = xdev[d].engines
  BY <1>1 DEF FreshXdev, CardInv, FieldInv, EnginesAt, VectorsAt, IrqsAt
<1>4. {"alloc", "unbound"} \cap (OpenAt \cup ListedAt) = {}
  BY DEF OpenAt, Idle, ListedAt, RegionsAt, BarsAt, EnginesAt, VectorsAt, IrqsAt
<1>5. opened[d] = {}
  BY <1>1, <1>4, CardAt
<1>6. ASSUME NEW p \in {"alloc", "unbound"}, NEW h, Books(d, p, FreshXdev, h, regs[d]),
             CardInv(p, FreshXdev, h, regs[d], hw[d], poll_mode)
      PROVE  DeviceInv'
  BY <1>1, <1>3, <1>4, <1>5, <1>6, QuietStep DEF Books
<1> QED
  BY <1>1, <1>2, <1>6, CardProbe

LEMMA CardData ==
  ASSUME DeviceInv, NEW d \in Devices
  PROVE  /\ hw[d].irq \in {"msix", "msi", "legacy"}
         /\ \A dir \in Directions : hw[d].channels[dir] \in 0 .. XDMA_CHANNEL_NUM_MAX
<1>1. hw[d] \in UNION {Cards[c] : c \in Devices}
  BY DEF DeviceInv, FrameInv
<1> QED
  BY <1>1, DeviceAssumption DEF Directions

LEMMA StepMsi ==
  ASSUME DeviceInv, NEW d \in Devices, EnableMsi(d)
  PROVE  DeviceInv'
<1> DEFINE y == [xdev[d] EXCEPT !.msix = (hw[d].irq = "msix"), !.msi = (hw[d].irq = "msi")]
           legacy == hw[d].irq = "legacy"
<1>1. pc[d] = "msi" /\ CardInv("msi", xdev[d], held[d], regs[d], hw[d], poll_mode)
  BY CardAt DEF EnableMsi
<1>2. /\ ~legacy => CardInv("irq", y, held[d] \cup {<<"vectors", 0>>}, regs[d], hw[d], poll_mode)
      /\ legacy => CardInv("irq", y, held[d], regs[d], hw[d], poll_mode)
      /\ CardInv("err_engines", y, held[d], regs[d], hw[d], poll_mode)
  BY <1>1, CardData, CardMsi
<1>3. OpenNext["msi"] = "irq" /\ OpenError["msi"] = "err_engines"
  BY DEF OpenNext, OpenError
<1>4. /\ UNCHANGED <<poll_mode, hw, module, xdev_list, cs_threads, misuse, regs, opened>>
      /\ misuse = {}
  BY DEF EnableMsi, DeviceInv
<1>5. xdev' = [xdev EXCEPT ![d] = y]
  <2>1. xdev' = [xdev EXCEPT ![d].msix = (hw[d].irq = "msix"), ![d].msi = (hw[d].irq = "msi")]
    BY DEF EnableMsi
  <2>2. DOMAIN xdev = Devices /\ xdev = [c \in Devices |-> xdev[c]]
    BY DEF DeviceInv, FrameInv
  <2> QED
    BY <2>1, <2>2
<1>6. xdev[d] \in XdevType
  BY <1>1 DEF CardInv
<1>7. y.engines = xdev[d].engines /\ y.idx = xdev[d].idx
  BY <1>6 DEF XdevType
<1> HIDE DEF y, legacy
<1>8. \/ ~legacy /\ Books(d, "irq", y, held[d] \cup {<<"vectors", 0>>}, regs[d])
      \/ legacy /\ Books(d, "irq", y, held[d], regs[d])
      \/ Books(d, "err_engines", y, held[d], regs[d])
  <2>1. ASSUME NEW ok \in BOOLEAN, legacy => ok, Continue(d, ok),
               IF ok /\ ~legacy THEN Take(d, {<<"vectors", 0>>}) ELSE UNCHANGED held
        PROVE  \/ ~legacy /\ Books(d, "irq", y, held[d] \cup {<<"vectors", 0>>}, regs[d])
               \/ legacy /\ Books(d, "irq", y, held[d], regs[d])
               \/ Books(d, "err_engines", y, held[d], regs[d])
    <3>1. CASE ok
      BY <1>1, <1>3, <1>4, <1>5, <2>1, <3>1, CardAt DEF Continue, Goto, Take, Books, Moves
    <3>2. CASE ~ok
      BY <1>1, <1>3, <1>4, <1>5, <2>1, <3>2, CardAt DEF Continue, Goto, Take, Books, Moves
    <3> QED
      BY <3>1, <3>2
  <2> QED
    BY <2>1 DEF EnableMsi, Result, legacy
<1>9. /\ {"msi", "irq", "err_engines"} \cap (OpenAt \cup Idle) = {}
      /\ {"msi", "irq", "err_engines"} \subseteq ListedAt
  BY DEF OpenAt, Idle, ListedAt, RegionsAt, BarsAt, EnginesAt, VectorsAt, IrqsAt
<1> QED
  BY <1>1, <1>2, <1>7, <1>8, <1>9, PlainStep

LEMMA BarNumbers ==
  ASSUME NEW ids \in SUBSET (0 .. 5), NEW pos
  PROVE  IdentifyBars(ids, pos)[1] \in Int /\ IdentifyBars(ids, pos)[2] \in Int
<1>1. CASE ids = {}
  <2>1. Cardinality(ids) = 0
    BY <1>1, FS_EmptySet
  <2> QED
    BY <2>1 DEF IdentifyBars
<1>2. CASE ids # {}
  <2>1. \E m \in ids : \A y \in ids : m <= y
    BY <1>2, LeastNumber
  <2>2. \E m \in ids : \A y \in ids : m >= y
    BY <1>2, GreatestNumber
  <2>3. Min(ids) \in ids
    BY <2>1 DEF Min
  <2>4. Max(ids) \in ids
    BY <2>2 DEF Max
  <2> QED
    BY <2>3, <2>4 DEF IdentifyBars
<1> QED
  BY <1>1, <1>2

LEMMA StepMapBars ==
  ASSUME DeviceInv, NEW d \in Devices, MapBars(d)
  PROVE  DeviceInv'
<1> DEFINE bars == hw[d].bars
           ids == BarIds(bars)
           id  == IdentifyBars(ids, ConfigBarPos(bars))
           B   == {<<"bar", i>> : i \in ids}
           y   == [xdev[d] EXCEPT !.bar = ids, !.user_bar = id[1], !.bypass_bar = id[2]]
<1>1. pc[d] = "map_bars" /\ CardInv("map_bars", xdev[d], held[d], regs[d], hw[d], poll_mode)
  BY CardAt DEF MapBars
<1>2. OpenNext["map_bars"] = "dma_mask" /\ OpenError["map_bars"] = "err_map"
  BY DEF OpenNext, OpenError
<1>3. /\ UNCHANGED <<poll_mode, hw, module, xdev_list, cs_threads, misuse, regs, opened>>
      /\ misuse = {}
  BY DEF MapBars, DeviceInv
<1>4. xdev[d] \in XdevType
  BY <1>1 DEF CardInv
<1>5. y.engines = xdev[d].engines /\ y.idx = xdev[d].idx
  BY <1>4 DEF XdevType
<1>6. ids \in SUBSET (0 .. 5) /\ (ConfigBars(bars) # {} => ConfigBars(bars) \cap ids # {})
  BY DEF BarIds, ConfigBars
<1>7. id[1] \in Int /\ id[2] \in Int
  <2> HIDE DEF ids
  <2> QED
    BY <1>6, BarNumbers
<1>8. /\ ConfigBars(bars) # {} => CardInv("dma_mask", y, held[d] \cup B, regs[d], hw[d], poll_mode)
      /\ CardInv("err_map", xdev[d], held[d], regs[d], hw[d], poll_mode)
  <2>1. CardInv("err_map", xdev[d], held[d], regs[d], hw[d], poll_mode)
    BY <1>1 DEF CardInv, FieldInv, HeldSet, RegSet, When, FilesAt, IrqsAt, VectorsAt, EnginesAt,
       BarsAt, RegionsAt, EnabledAt, ListedAt, XdevAt, XpdevAt, Idle, Removing, Directions
  <2> HIDE DEF id, ids
  <2> QED
    BY <1>1, <1>6, <1>7, <2>1, CardMapBars
<1>9. \/ ConfigBars(bars) # {} /\ Books(d, "dma_mask", y, held[d] \cup B, regs[d])
      \/ Books(d, "err_map", xdev[d], held[d], regs[d])
  <2>1. ASSUME NEW ok \in BOOLEAN, ok => ConfigBars(bars) # {}, Continue(d, ok),
               IF ok THEN /\ Take(d, B)
                          /\ xdev' = [xdev EXCEPT ![d].bar = ids, ![d].user_bar = id[1],
                                                  ![d].bypass_bar = id[2]]
                     ELSE UNCHANGED <<held, xdev>>
        PROVE  \/ ConfigBars(bars) # {} /\ Books(d, "dma_mask", y, held[d] \cup B, regs[d])
               \/ Books(d, "err_map", xdev[d], held[d], regs[d])
    <3>1. CASE ok
      <4>1. DOMAIN xdev = Devices /\ xdev = [c \in Devices |-> xdev[c]]
        BY DEF DeviceInv, FrameInv
      <4>2. xdev' = [xdev EXCEPT ![d] = y]
        <5> HIDE DEF id, ids, B
        <5> QED
          BY <2>1, <3>1, <4>1
      <4> HIDE DEF y, B
      <4> QED
        BY <1>1, <1>2, <1>3, <2>1, <3>1, <4>2, CardAt DEF Continue, Goto, Take, Books, Moves
    <3>2. CASE ~ok
      <4> HIDE DEF y, B
      <4> QED
        BY <1>1, <1>2, <1>3, <2>1, <3>2, CardAt DEF Continue, Goto, Take, Books, Moves
    <3> QED
      BY <3>1, <3>2
  <2> QED
    BY <2>1 DEF MapBars, Result
<1>10. /\ {"map_bars", "dma_mask", "err_map"} \cap (OpenAt \cup Idle) = {}
       /\ {"map_bars", "dma_mask", "err_map"} \subseteq ListedAt
  BY DEF OpenAt, Idle, ListedAt, RegionsAt, BarsAt, EnginesAt, VectorsAt, IrqsAt
<1> HIDE DEF y, B
<1> QED
  BY <1>1, <1>5, <1>8, <1>9, <1>10, PlainStep

LEMMA StepIrq ==
  ASSUME DeviceInv, Handled, NEW d \in Devices, IrqSetup(d)
  PROVE  DeviceInv'
<1> DEFINE x == xdev[d]
           y == [WithIrqs(x, SetupIrqs(x)) EXCEPT !.offline = FALSE]
           z == [WithIrqs(x, {}) EXCEPT !.offline = TRUE]
           h == held[d] \cup SetupIrqs(x)
           r == regs[d] \cup When(x.msix, {<<"irq_vectors", 0>>})
                        \cup When(~poll_mode, {<<"channel_int", 0>>})
<1>1. pc[d] = "irq" /\ CardInv("irq", x, held[d], regs[d], hw[d], poll_mode)
  BY CardAt DEF IrqSetup
<1>2. OpenNext["irq"] = "isr_enable" /\ OpenError["irq"] = "err_msix"
  BY DEF OpenNext, OpenError
<1>3. /\ UNCHANGED <<poll_mode, hw, module, xdev_list, cs_threads, misuse, opened>>
      /\ misuse = {}
  BY DEF IrqSetup, DeviceInv
<1>4. /\ CardInv("isr_enable", y, h, r, hw[d], poll_mode)
      /\ ~x.msix => CardInv("err_msix", z, held[d], regs[d], hw[d], poll_mode)
  <2>1. poll_mode \in BOOLEAN
    BY DEF DeviceInv, FrameInv
  <2> QED
    BY <1>1, <2>1, CardIrq
<1>5. x \in XdevType
  BY <1>1 DEF CardInv
<1>6. y.engines = x.engines /\ y.idx = x.idx /\ z.engines = x.engines /\ z.idx = x.idx
  BY <1>5 DEF XdevType, WithIrqs
<1>7. \/ Books(d, "isr_enable", y, h, r)
      \/ ~x.msix /\ Books(d, "err_msix", z, held[d], regs[d])
  <2>1. ASSUME NEW ok \in BOOLEAN, x.msix => ok,
               NEW irqs \in IF ok THEN {SetupIrqs(x)} ELSE LeftIrqs(x),
               Continue(d, ok), Take(d, irqs),
               xdev' = [xdev EXCEPT ![d] = [WithIrqs(@, irqs) EXCEPT !.offline = ~ok]],
               regs' = [regs EXCEPT ![d] = IF ok
                 THEN @ \cup (IF xdev[d].msix THEN {<<"irq_vectors", 0>>} ELSE {})
                        \cup (IF poll_mode THEN {} ELSE {<<"channel_int", 0>>})
                 ELSE @]
        PROVE  \/ Books(d, "isr_enable", y, h, r)
               \/ ~x.msix /\ Books(d, "err_msix", z, held[d], regs[d])
    <3>1. CASE ok = TRUE
      <4>1. irqs = SetupIrqs(x)
        BY <2>1, <3>1
      <4>2. xdev' = [xdev EXCEPT ![d] = y]
        BY <2>1, <3>1, <4>1
      <4>3. regs' = [regs EXCEPT ![d] = r]
        BY <2>1, <3>1 DEF When
      <4>4. held' = [held EXCEPT ![d] = h]
        BY <2>1, <4>1 DEF Take
      <4>5. pc' = [pc EXCEPT ![d] = "isr_enable"]
        BY <1>1, <1>2, <2>1, <3>1 DEF Continue, Goto
      <4> HIDE DEF y, h, r
      <4> QED
        BY <1>3, <4>2, <4>3, <4>4, <4>5 DEF Books, Moves
    <3>2. CASE ok = FALSE
      <4>1. ~x.msix /\ irqs = {}
        BY <2>1, <3>2 DEF LeftIrqs
      <4>2. xdev' = [xdev EXCEPT ![d] = z]
        BY <2>1, <3>2, <4>1
      <4>3. regs' = [regs EXCEPT ![d] = regs[d]]
        BY <2>1, <3>2
      <4>4. held' = [held EXCEPT ![d] = held[d]]
        BY <2>1, <4>1 DEF Take
      <4>5. pc' = [pc EXCEPT ![d] = "err_msix"]
        BY <1>1, <1>2, <2>1, <3>2 DEF Continue, Goto
      <4> HIDE DEF z
      <4> QED
        BY <1>3, <4>1, <4>2, <4>3, <4>4, <4>5 DEF Books, Moves
    <3> QED
      BY <3>1, <3>2
  <2>2. Result(IrqFault(x)) \subseteq BOOLEAN /\ \A ok \in Result(IrqFault(x)) : x.msix => ok
    BY DEF Result, IrqFault, Handled, Unhandled
  <2> HIDE DEF y, z, h, r
  <2> QED
    BY <2>1, <2>2 DEF IrqSetup
<1>8. /\ {"irq", "isr_enable", "err_msix"} \cap (OpenAt \cup Idle) = {}
      /\ {"irq", "isr_enable", "err_msix"} \subseteq ListedAt
  BY DEF OpenAt, Idle, ListedAt, RegionsAt, BarsAt, EnginesAt, VectorsAt, IrqsAt
<1> HIDE DEF y, z, h, r
<1> QED
  BY <1>1, <1>4, <1>6, <1>7, <1>8, PlainStep

LEMMA GroupNamesFinite == IsFiniteSet(GroupNames)
<1>1. /\ IsFiniteSet({"CTRL"}) /\ IsFiniteSet({"EVENT"}) /\ IsFiniteSet({"SG"})
      /\ IsFiniteSet({"BYPASS"}) /\ IsFiniteSet({"USER"}) /\ IsFiniteSet({"XVC"})
  BY FS_Singleton
<1>2. IsFiniteSet(({"CTRL"} \cup {"EVENT"}) \cup {"SG"})
  BY <1>1, FS_Union
<1>3. IsFiniteSet(({"BYPASS"} \cup {"USER"}) \cup {"XVC"})
  BY <1>1, FS_Union
<1>4. IsFiniteSet((({"CTRL"} \cup {"EVENT"}) \cup {"SG"})
                  \cup (({"BYPASS"} \cup {"USER"}) \cup {"XVC"}))
  BY <1>2, <1>3, FS_Union
<1>5. GroupNames = (({"CTRL"} \cup {"EVENT"}) \cup {"SG"})
                   \cup (({"BYPASS"} \cup {"USER"}) \cup {"XVC"})
  BY DEF GroupNames
<1> QED
  BY <1>4, <1>5

\* The next group of files is one of the six.
LEMMA GroupIsNamed ==
  ASSUME NEW x \in XdevType, NEW n, n = Cardinality(x.flags) + 1, ~(n > Len(Groups(x)))
  PROVE  Groups(x)[n] \in GroupNames
<1>1. x.flags \in SUBSET GroupNames
  BY DEF XdevType
<1>2. IsFiniteSet(GroupNames)
  BY GroupNamesFinite
<1>3. IsFiniteSet(x.flags)
  BY <1>1, <1>2, FS_Subset
<1>4. Cardinality(x.flags) \in Nat
  BY <1>3, FS_CardinalityType
<1>5. Groups(x) \in Seq(GroupNames)
  <2> DEFINE A == <<"CTRL", "EVENT", "SG">>
             B == IF x.bypass_bar > 0 THEN <<"BYPASS">> ELSE <<>>
             C == IF x.user_bar >= 0 THEN <<"USER", "XVC">> ELSE <<>>
  <2>1. A \in Seq(GroupNames)
    BY DEF GroupNames
  <2>5. <<"BYPASS">> \in Seq(GroupNames) /\ <<"USER", "XVC">> \in Seq(GroupNames)
    BY DEF GroupNames
  <2>6. <<>> \in Seq(GroupNames)
    OBVIOUS
  <2>2. B \in Seq(GroupNames)
    BY <2>5, <2>6, Zenon
  <2>3. C \in Seq(GroupNames)
    BY <2>5, <2>6, Zenon
  <2>4. Groups(x) = A \o B \o C
    BY DEF Groups
  <2> HIDE DEF A, B, C
  <2> QED
    BY <2>1, <2>2, <2>3, <2>4
<1> QED
  BY <1>4, <1>5

LEMMA NoFiles ==
  ASSUME NEW x, NEW h, NEW r, NEW c, NEW pm, CardInv("files", x, h, r, c, pm), ~x.major
  PROVE  \A o \in h : o[1] # "file"
<1>1. FileObjs(x) = {}
  BY NoObjs DEF CardInv, FieldInv
<1> QED
  BY <1>1, Kinds DEF CardInv, HeldSet, When

LEMMA StepFiles ==
  ASSUME DeviceInv, Handled, NEW d \in Devices, CreateInterfaces(d)
  PROVE  DeviceInv'
<1> DEFINE x == xdev[d]
           n == Cardinality(x.flags) + 1
           g == Groups(x)[n]
           y == [x EXCEPT !.major = TRUE, !.flags = x.flags \cup {g}]
           z == [x EXCEPT !.major = FALSE]
           h == held[d] \cup AsFiles(FilesOf(x, g)) \cup {<<"chrdev", 0>>}
<1>1. pc[d] = "files" /\ CardInv("files", x, held[d], regs[d], hw[d], poll_mode)
  BY CardAt DEF CreateInterfaces
<1>2. /\ UNCHANGED <<poll_mode, hw, module, xdev_list, cs_threads, misuse, regs, opened>>
      /\ misuse = {}
  BY DEF CreateInterfaces, DeviceInv
<1>3. x \in XdevType
  BY <1>1 DEF CardInv
<1>4. y.engines = x.engines /\ y.idx = x.idx /\ z.engines = x.engines /\ z.idx = x.idx
  BY <1>3 DEF XdevType
<1>5. \/ Books(d, "bound", x, held[d], regs[d])
      \/ g \in GroupNames /\ Books(d, "files", y, h, regs[d])
      \/ ~x.major /\ Books(d, "files_failed", z, held[d], regs[d])
  <2>1. CASE n > Len(Groups(x))
    <3>1. Goto(d, "bound") /\ UNCHANGED <<held, xdev>>
      BY <2>1 DEF CreateInterfaces
    <3> QED
      BY <1>2, <3>1, CardAt DEF Goto, Books, Moves
  <2>2. CASE ~(n > Len(Groups(x)))
    <3>1. g \in GroupNames
      BY <1>3, <2>2, GroupIsNamed
    <3>2. ASSUME NEW region \in BOOLEAN, x.major => region,
                 NEW made, made = IF region THEN FilesOf(x, g) ELSE {},
                 Take(d, AsFiles(made) \cup (IF region THEN {<<"chrdev", 0>>} ELSE {})),
                 xdev' = [xdev EXCEPT ![d].major = region,
                            ![d].flags = IF region /\ made = FilesOf(x, g) THEN @ \cup {g} ELSE @],
                 Goto(d, IF region /\ made = FilesOf(x, g) THEN "files" ELSE "files_failed")
          PROVE  \/ Books(d, "files", y, h, regs[d])
                 \/ ~x.major /\ Books(d, "files_failed", z, held[d], regs[d])
      <4>1. DOMAIN xdev = Devices /\ xdev = [c \in Devices |-> xdev[c]]
        BY DEF DeviceInv, FrameInv
      <4> HIDE DEF n, g
      <4>2. CASE region = TRUE
        <5>1. xdev' = [xdev EXCEPT ![d] = y]
          BY <3>2, <4>1, <4>2
        <5>2. held' = [held EXCEPT ![d] = h]
          BY <3>2, <4>2 DEF Take
        <5>3. pc' = [pc EXCEPT ![d] = "files"]
          BY <3>2, <4>2 DEF Goto
        <5> HIDE DEF y, h
        <5> QED
          BY <1>2, <5>1, <5>2, <5>3, CardAt DEF Books, Moves
      <4>3. CASE region = FALSE
        <5>1. xdev' = [xdev EXCEPT ![d] = z]
          BY <1>3, <3>2, <4>1, <4>3 DEF XdevType
        <5>2. held' = [held EXCEPT ![d] = held[d]]
          BY <3>2, <4>3 DEF Take, AsFiles
        <5>3. pc' = [pc EXCEPT ![d] = "files_failed"]
          BY <3>2, <4>3 DEF Goto
        <5>4. ~x.major
          BY <3>2, <4>3
        <5> HIDE DEF x, z
        <5> QED
          BY <1>2, <5>1, <5>2, <5>3, <5>4, CardAt DEF Books, Moves
      <4> QED
        BY <4>2, <4>3
    <3>3. "files" \notin Faults
      BY DEF Handled, Unhandled
    <3> HIDE DEF y, z, h
    <3> QED
      BY <2>2, <3>1, <3>2, <3>3 DEF CreateInterfaces, Result
  <2> QED
    BY <2>1, <2>2
<1>6. /\ "files" \in OpenAt /\ "bound" \in OpenAt /\ "files_failed" \notin OpenAt
      /\ "files" \notin Idle /\ {"files", "bound", "files_failed"} \subseteq ListedAt
  BY DEF OpenAt, Idle, ListedAt, RegionsAt, BarsAt, EnginesAt, VectorsAt, IrqsAt
<1>7. CASE Books(d, "bound", x, held[d], regs[d])
  BY <1>1, <1>6, <1>7, CardBound, QuietStep DEF Books
<1>8. CASE g \in GroupNames /\ Books(d, "files", y, h, regs[d])
  <2>1. CardInv("files", y, h, regs[d], hw[d], poll_mode)
    <3> HIDE DEF g
    <3> QED
      BY <1>1, <1>8, CardFiles
  <2>2. held[d] \subseteq h
    OBVIOUS
  <2> HIDE DEF y, h
  <2> QED
    BY <1>1, <1>4, <1>6, <1>8, <2>1, <2>2, QuietStep DEF Books
<1>9. CASE ~x.major /\ Books(d, "files_failed", z, held[d], regs[d])
  <2>1. CardInv("files_failed", z, held[d], regs[d], hw[d], poll_mode)
    BY <1>1, <1>9, CardFilesFailed
  <2>2. opened[d] = {}
    <3>1. \A o \in held[d] : o[1] # "file"
      BY <1>1, <1>9, NoFiles
    <3>2. \A f \in opened[d] : <<"file", f>> \in held[d]
      BY DEF DeviceInv, OpenInv
    <3> QED
      BY <3>1, <3>2
  <2> HIDE DEF z
  <2> QED
    BY <1>1, <1>4, <1>6, <1>9, <2>1, <2>2, QuietStep DEF Books
<1> QED
  BY <1>5, <1>7, <1>8, <1>9

LEMMA TeardownKinds ==
  ASSUME NEW x
  PROVE  \A o \in TeardownIrqs(x) : o[1] \in {"channel_irq", "user_irq", "line_irq"}
BY DEF TeardownIrqs, ChannelIrqs, UserIrqs

LEMMA StepOffline ==
  ASSUME DeviceInv, Handled, NEW d \in Devices, ErrorDetected(d) \/ ResetPrepare(d)
  PROVE  DeviceInv'
<1> DEFINE x == xdev[d]
           y == [x EXCEPT !.offline = TRUE, !.shutdown = x.engines]
           r == regs[d] \ IrqRegs
<1>1. /\ pc[d] = "bound" /\ CardInv("bound", x, held[d], regs[d], hw[d], poll_mode)
      /\ ~poll_mode
  BY CardAt DEF ErrorDetected, ResetPrepare, MayReset, Handled, Unhandled
<1>2. /\ TeardownIrqs(x) \cup {<<"enabled", 0>>} \subseteq held[d]
      /\ CardInv("frozen", y, held[d] \ (TeardownIrqs(x) \cup {<<"enabled", 0>>}), r, hw[d], poll_mode)
      /\ CardInv("resetting", y, held[d] \ TeardownIrqs(x), r, hw[d], poll_mode)
  <2>1. poll_mode = FALSE
    BY <1>1 DEF DeviceInv, FrameInv
  <2>2. CardInv("frozen", y, held[d] \ (TeardownIrqs(x) \cup {<<"enabled", 0>>}), r, hw[d], poll_mode)
    BY <1>1, <2>1, CardOffline
  <2>3. CardInv("resetting", y, held[d] \ TeardownIrqs(x), r, hw[d], poll_mode)
    BY <1>1, <2>1, CardOffline
  <2>4. (TeardownIrqs(x) \cup {<<"enabled", 0>>}) \subseteq held[d]
    BY <1>1, <2>1, CardOffline
  <2> QED
    BY <2>2, <2>3, <2>4
<1>3. x \in XdevType
  BY <1>1 DEF CardInv
<1>4. y.engines = x.engines /\ y.idx = x.idx
  BY <1>3 DEF XdevType
<1>5. ASSUME NEW p \in {"frozen", "resetting"}, NEW objs, DeviceOffline(d, objs), Goto(d, p),
             objs \subseteq {<<"enabled", 0>>},
             UNCHANGED <<poll_mode, hw, module, xdev_list, cs_threads, opened>>,
             CardInv(p, y, held[d] \ (TeardownIrqs(x) \cup objs), r, hw[d], poll_mode)
      PROVE  DeviceInv'
  <2> DEFINE h == held[d] \ (TeardownIrqs(x) \cup objs)
  <2>1. DOMAIN xdev = Devices /\ xdev = [c \in Devices |-> xdev[c]]
    BY DEF DeviceInv, FrameInv
  <2>2. xdev' = [xdev EXCEPT ![d] = y]
    BY <1>5, <2>1 DEF DeviceOffline
  <2>3. TeardownIrqs(x) \cup objs \subseteq held[d]
    BY <1>2, <1>5
  <2>4. held' = [held EXCEPT ![d] = h] /\ misuse' = {}
    BY <1>5, <2>3, Returned DEF DeviceOffline
  <2>5. \A o \in held[d] : o[1] = "file" => o \in h
    BY <1>5, TeardownKinds
  <2> HIDE DEF y, h
  <2>6. Books(d, p, y, h, r)
    BY <1>5, <2>2, <2>4 DEF DeviceOffline, Goto, Books, Moves
  <2>7. p \in OpenAt /\ p \in ListedAt /\ pc[d] \in ListedAt /\ pc[d] \notin Idle
    BY <1>1, <1>5 DEF OpenAt, Idle, ListedAt, RegionsAt, BarsAt, EnginesAt, VectorsAt, IrqsAt
  <2>8. CardInv(p, y, h, r, hw[d], poll_mode)
    BY <1>5 DEF h
  <2> HIDE DEF r
  <2> QED
    BY <1>4, <2>5, <2>6, <2>7, <2>8, QuietStep DEF Books
<1>6. CASE ErrorDetected(d)
  <2> HIDE DEF y, r
  <2> QED
    BY <1>2, <1>5, <1>6 DEF ErrorDetected
<1>7. CASE ResetPrepare(d)
  <2>1. held[d] \ (TeardownIrqs(x) \cup {}) = held[d] \ TeardownIrqs(x)
    OBVIOUS
  <2> HIDE DEF y, r
  <2> QED
    BY <1>2, <1>5, <1>7, <2>1 DEF ResetPrepare
<1> QED
  BY <1>6, <1>7

LEMMA StepOnline ==
  ASSUME DeviceInv, Handled, NEW d \in Devices, SlotReset(d) \/ ResetDone(d)
  PROVE  DeviceInv'
<1> DEFINE x == xdev[d]
           k == IF pc[d] = "frozen" THEN {<<"enabled", 0>>} ELSE {}
           y == [WithIrqs(x, SetupIrqs(x)) EXCEPT !.offline = FALSE, !.shutdown = {}]
           h == held[d] \cup (SetupIrqs(x) \cup k)
           r == EngineRegs(x) \cup ({<<"channel_int", 0>>} \cup {<<"user_int", 0>>}
                                      \cup When(x.msix, {<<"irq_vectors", 0>>}))
<1>1. /\ pc[d] \in {"frozen", "resetting"}
      /\ CardInv(pc[d], x, held[d], regs[d], hw[d], poll_mode)
  BY CardAt DEF SlotReset, ResetDone
<1>2. ~poll_mode /\ x.mask_irq_user /\ x \in XdevType
  BY <1>1 DEF CardInv, FieldInv, FilesAt
<1>3. /\ UNCHANGED <<poll_mode, hw, module, xdev_list, cs_threads, misuse, opened>>
      /\ misuse = {} /\ Goto(d, "bound") /\ DeviceOnline(d, k)
  <2>1. Result("slot_reset") = {TRUE}
    BY DEF Result, Handled, Unhandled
  <2>2. CASE SlotReset(d)
    BY <2>1, <2>2 DEF SlotReset, DeviceInv
  <2>3. CASE ResetDone(d)
    BY <2>3 DEF ResetDone, DeviceInv
  <2> QED
    BY <2>2, <2>3
<1>4. CardInv("bound", y, h, r, hw[d], poll_mode)
  <2> HIDE DEF k
  <2>1. k = IF pc[d] = "frozen" THEN {<<"enabled", 0>>} ELSE {}
    BY DEF k
  <2> QED
    BY <1>1, <2>1, CardOnline
<1>5. y.engines = x.engines /\ y.idx = x.idx
  BY <1>2 DEF XdevType, WithIrqs
<1>6. /\ xdev' = [xdev EXCEPT ![d] = y] /\ held' = [held EXCEPT ![d] = h]
      /\ regs' = [regs EXCEPT ![d] = r]
  <2>1. Result("online_irq") = {TRUE}
    BY DEF Result, Handled, Unhandled
  <2> HIDE DEF k
  <2>2. ASSUME NEW ok \in Result("online_irq"),
               NEW irqs \in CASE poll_mode -> {{}}
                              [] ~poll_mode /\ ok -> {SetupIrqs(x)}
                              [] OTHER -> LeftIrqs(x),
               xdev' = [xdev EXCEPT ![d] = [(IF poll_mode THEN @ ELSE WithIrqs(@, irqs)) EXCEPT
                                          !.offline = FALSE, !.shutdown = {}]],
               Take(d, irqs \cup k),
               regs' = [regs EXCEPT ![d] = EngineRegs(x) \cup
                 (IF poll_mode THEN {}
                  ELSE {<<"channel_int", 0>>}
                       \cup (IF x.mask_irq_user THEN {<<"user_int", 0>>} ELSE {})
                       \cup (IF x.msix /\ ok THEN {<<"irq_vectors", 0>>} ELSE {}))]
        PROVE  /\ xdev' = [xdev EXCEPT ![d] = y] /\ held' = [held EXCEPT ![d] = h]
               /\ regs' = [regs EXCEPT ![d] = r]
    <3>1. ok = TRUE /\ irqs = SetupIrqs(x)
      BY <1>2, <2>1
    <3>2. xdev' = [xdev EXCEPT ![d] = y]
      BY <1>2, <2>2, <3>1
    <3>3. held' = [held EXCEPT ![d] = h]
      BY <2>2, <3>1 DEF Take
    <3>4. regs' = [regs EXCEPT ![d] = r]
      BY <1>2, <2>2, <3>1 DEF When
    <3> QED
      BY <3>2, <3>3, <3>4
  <2> HIDE DEF y, h, r
  <2> QED
    BY <1>3, <2>2 DEF DeviceOnline
<1>7. held[d] \subseteq h
  OBVIOUS
<1> HIDE DEF y, h, r
<1>8. Books(d, "bound", y, h, r)
  BY <1>3, <1>6 DEF Goto, Books, Moves
<1>9. /\ "bound" \in OpenAt /\ "bound" \in ListedAt /\ pc[d] \in ListedAt /\ pc[d] \notin Idle
  BY <1>1 DEF OpenAt, Idle, ListedAt, RegionsAt, BarsAt, EnginesAt, VectorsAt, IrqsAt
<1> QED
  BY <1>4, <1>5, <1>7, <1>8, <1>9, QuietStep DEF Books
-----------------------------------------------------------------------------
(***************************************************************************)
(* The list of cards.                                                      *)
(***************************************************************************)
LEMMA NextIsAbove ==
  ASSUME DeviceInv
  PROVE  /\ NextIdx \in Nat
         /\ \A i \in 1 .. Len(xdev_list) : xdev[xdev_list[i]].idx < NextIdx
<1>1. xdev_list \in Seq(Devices)
  BY DEF DeviceInv, ListInv
<1>2. \A c \in Devices : xdev[c].idx \in Nat
  BY DEF DeviceInv, CardsInv, CardInv, XdevType
<1>3. CASE xdev_list = <<>>
  BY <1>3 DEF NextIdx
<1>4. CASE xdev_list # <<>>
  <2> DEFINE n == Len(xdev_list)
  <2>1. n \in Nat /\ n \in 1 .. n
    BY <1>1, <1>4
  <2>2. NextIdx = xdev[xdev_list[n]].idx + 1
    BY <1>4 DEF NextIdx
  <2>3. \A i \in 1 .. n : xdev_list[i] \in Devices /\ xdev[xdev_list[i]].idx \in Nat
    BY <1>1, <1>2
  <2>4. ASSUME NEW i \in 1 .. n PROVE xdev[xdev_list[i]].idx < NextIdx
    <3>1. i = n \/ i < n
      BY <2>1
    <3>2. i < n => xdev[xdev_list[i]].idx < xdev[xdev_list[n]].idx
      BY <2>1 DEF DeviceInv, ListInv
    <3> HIDE DEF n
    <3> QED
      BY <2>1, <2>2, <2>3, <3>1, <3>2
  <2> QED
    BY <2>1, <2>2, <2>3, <2>4
<1> QED
  BY <1>3, <1>4

LEMMA StepListAdd ==
  ASSUME DeviceInv, NEW d \in Devices, ListAdd(d)
  PROVE  DeviceInv'
<1> DEFINE y == [xdev[d] EXCEPT !.idx = NextIdx]
           first == poll_mode /\ xdev_list = <<>>
<1>1. pc[d] = "list_add" /\ CardInv("list_add", xdev[d], held[d], regs[d], hw[d], poll_mode)
  BY CardAt DEF ListAdd
<1>2. /\ CardInv("enable", y, held[d], regs[d], hw[d], poll_mode)
      /\ CardInv("free_xdev", y, held[d], regs[d], hw[d], poll_mode)
  BY <1>1, NextIsAbove, CardListAdd
<1>3. OpenNext["list_add"] = "enable" /\ OpenError["list_add"] = "free_xdev"
  BY DEF OpenNext, OpenError
<1>4. /\ UNCHANGED <<poll_mode, hw, module, held, misuse, regs, opened>> /\ misuse = {}
  BY DEF ListAdd, DeviceInv
<1>5. xdev[d] \in XdevType
  BY <1>1 DEF CardInv
<1>6. y.engines = xdev[d].engines /\ y.idx = NextIdx
  BY <1>5 DEF XdevType
<1>7. /\ {"list_add", "enable", "free_xdev"} \cap (OpenAt \cup Idle) = {}
      /\ "enable" \in ListedAt /\ "list_add" \notin ListedAt /\ "free_xdev" \notin ListedAt
  BY DEF OpenAt, Idle, ListedAt, RegionsAt, BarsAt, EnginesAt, VectorsAt, IrqsAt
<1>8. opened[d] = {}
  BY <1>1, <1>7, CardAt
<1> HIDE DEF y, first
<1>9. \/ /\ Moves(d, "free_xdev", y, held[d], regs[d]) /\ UNCHANGED <<xdev_list, cs_threads>>
      \/ /\ Moves(d, "enable", y, held[d], regs[d]) /\ xdev_list' = Append(xdev_list, d)
         /\ IF first THEN StartThreads ELSE UNCHANGED cs_threads
  <2>1. ASSUME NEW ok \in BOOLEAN, Continue(d, ok),
               IF ok /\ first THEN StartThreads ELSE UNCHANGED cs_threads,
               xdev_list' = IF ok THEN Append(xdev_list, d) ELSE xdev_list,
               xdev' = [xdev EXCEPT ![d].idx = NextIdx]
        PROVE  \/ /\ Moves(d, "free_xdev", y, held[d], regs[d]) /\ UNCHANGED <<xdev_list, cs_threads>>
               \/ /\ Moves(d, "enable", y, held[d], regs[d]) /\ xdev_list' = Append(xdev_list, d)
                  /\ IF first THEN StartThreads ELSE UNCHANGED cs_threads
    <3>1. xdev' = [xdev EXCEPT ![d] = y]
      BY <2>1 DEF y
    <3>2. CASE ok
      BY <1>1, <1>3, <1>4, <2>1, <3>1, <3>2, CardAt DEF Continue, Goto, Moves
    <3>3. CASE ~ok
      BY <1>1, <1>3, <1>4, <2>1, <3>1, <3>3, CardAt DEF Continue, Goto, Moves
    <3> QED
      BY <3>2, <3>3
  <2> QED
    BY <2>1 DEF ListAdd, Result, first
<1>10. CASE Moves(d, "free_xdev", y, held[d], regs[d]) /\ UNCHANGED <<xdev_list, cs_threads>>
  BY <1>1, <1>2, <1>4, <1>6, <1>7, <1>8, <1>10, QuietStep
<1>11. CASE /\ Moves(d, "enable", y, held[d], regs[d]) /\ xdev_list' = Append(xdev_list, d)
            /\ IF first THEN StartThreads ELSE UNCHANGED cs_threads
  <2>1. FrameInv /\ CardsInv /\ ListInv /\ ThreadsInv /\ ModuleInv /\ OpenInv
    BY DEF DeviceInv
  <2>2. FrameInv'
    <3>1. opened' = [opened EXCEPT ![d] = opened'[d]] /\ DOMAIN module' = {"state", "refs", "held"}
      BY <1>4, <2>1 DEF FrameInv
    <3> QED
      BY <1>11, <2>1, <3>1, FrameStep
  <2>3. CardsInv'
    BY <1>2, <1>11, <2>1, CardsStep
  <2>4. OpenInv'
    BY <1>4, <1>7, <1>8, <1>11, <2>1, OpenStep
  <2>5. /\ pc'[d] = "enable" /\ xdev'[d] = y
        /\ \A c \in Devices \ {d} : pc'[c] = pc[c] /\ xdev'[c] = xdev[c]
    BY <1>11, <2>1, Moved
  <2>6. ModuleInv'
    BY <1>1, <1>4, <1>7, <2>1, <2>5 DEF ModuleInv
  <2>7. ListInv'
    <3> DEFINE n == Len(xdev_list)
    <3>1. xdev_list \in Seq(Devices) /\ n \in Nat
      BY <2>1 DEF ListInv
    <3>2. /\ xdev_list' \in Seq(Devices) /\ Len(xdev_list') = n + 1
          /\ \A i \in 1 .. n : xdev_list'[i] = xdev_list[i]
          /\ xdev_list'[n + 1] = d
      BY <1>11, <3>1
    <3>3. ASSUME NEW i \in 1 .. n
          PROVE  /\ xdev_list[i] \in Devices \ {d}
                 /\ xdev'[xdev_list[i]].idx = xdev[xdev_list[i]].idx
      <4>1. xdev_list[i] \in Devices /\ Listed(xdev_list[i])
        BY <3>1 DEF Listed
      <4>2. xdev_list[i] # d
        BY <1>1, <1>7, <2>1, <4>1 DEF ListInv
      <4> QED
        BY <2>5, <4>1, <4>2
    <3>4. ASSUME NEW i \in 1 .. Len(xdev_list'), NEW j \in 1 .. Len(xdev_list'), i < j
          PROVE  xdev'[xdev_list'[i]].idx < xdev'[xdev_list'[j]].idx
      <4>1. i \in 1 .. n /\ (j \in 1 .. n \/ j = n + 1)
        BY <3>1, <3>2, <3>4
      <4>2. CASE j \in 1 .. n
        BY <2>1, <3>2, <3>3, <3>4, <4>1, <4>2 DEF ListInv
      <4>3. CASE j = n + 1
        <5>1. xdev[xdev_list[i]].idx < NextIdx
          BY <4>1, NextIsAbove
        <5> QED
          BY <1>6, <2>5, <3>2, <3>3, <4>1, <4>3, <5>1
      <4> QED
        BY <4>1, <4>2, <4>3
    <3>5. ASSUME NEW c \in Devices PROVE Listed(c)' <=> pc'[c] \in ListedAt
      <4>1. Listed(c)' <=> Listed(c) \/ c = d
        <5>1. \A i \in 1 .. n : i \in 1 .. n + 1
          BY <3>1
        <5>2. n + 1 \in 1 .. n + 1 /\ \A i \in 1 .. n + 1 : i \in 1 .. n \/ i = n + 1
          BY <3>1
        <5> HIDE DEF n
        <5>3. Listed(c)' <=> \E i \in 1 .. n + 1 : xdev_list'[i] = c
          BY <3>2 DEF Listed
        <5>4. Listed(c) <=> \E i \in 1 .. n : xdev_list[i] = c
          BY DEF Listed, n
        <5> QED
          BY <3>2, <5>1, <5>2, <5>3, <5>4
      <4>2. Listed(c) <=> pc[c] \in ListedAt
        BY <2>1 DEF ListInv
      <4> QED
        BY <1>7, <2>5, <4>1, <4>2
    <3> QED
      BY <3>2, <3>4, <3>5 DEF ListInv
  <2>8. ThreadsInv'
    <3>1. \A c \in Devices : xdev'[c].engines = xdev[c].engines
      BY <1>6, <2>5
    <3>2. poll_mode' = poll_mode /\ xdev_list' # <<>> /\ poll_mode \in BOOLEAN
      BY <1>4, <1>11, <2>1 DEF FrameInv, ListInv
    <3>3. /\ cs_threads'.work = cs_threads.work
          /\ cs_threads' \in [running : BOOLEAN, work : Works]
          /\ cs_threads'.running <=> poll_mode
      <4>1. CASE first
        BY <1>11, <2>1, <4>1, ZenonT(60) DEF ThreadsInv, StartThreads, first
      <4>2. CASE ~first
        BY <1>11, <2>1, <3>2, <4>2 DEF ThreadsInv, first
      <4> QED
        BY <4>1, <4>2
    <3> QED
      BY <2>1, <3>1, <3>2, <3>3 DEF ThreadsInv, Works
  <2> QED
    BY <1>4, <2>2, <2>3, <2>4, <2>6, <2>7, <2>8 DEF DeviceInv
<1> QED
  BY <1>9, <1>10, <1>11

LEMMA RemoveAt ==
  ASSUME NEW S, NEW s \in Seq(S), NEW k \in 1 .. Len(s), NEW t,
         t = SubSeq(s, 1, k - 1) \o SubSeq(s, k + 1, Len(s))
  PROVE  /\ t \in Seq(S) /\ Len(t) = Len(s) - 1
         /\ \A i \in 1 .. Len(t) : t[i] = IF i < k THEN s[i] ELSE s[i + 1]
<1>1. Len(s) \in Nat /\ k \in Nat
  OBVIOUS
<1> DEFINE a == SubSeq(s, 1, k - 1)
           b == SubSeq(s, k + 1, Len(s))
<1>2. a \in Seq(S) /\ Len(a) = k - 1 /\ \A i \in 1 .. k - 1 : a[i] = s[i]
  <2>1. \A i \in 1 .. k - 1 : s[i] \in S
    BY <1>1
  <2> QED
    BY <1>1, <2>1
<1>3. b \in Seq(S) /\ Len(b) = Len(s) - k /\ \A i \in 1 .. Len(s) - k : b[i] = s[i + k]
  <2>1. \A i \in k + 1 .. Len(s) : s[i] \in S
    BY <1>1
  <2> QED
    BY <1>1, <2>1
<1> HIDE DEF a, b
<1>6. t = a \o b
  BY DEF a, b
<1>4. t \in Seq(S) /\ Len(t) = Len(s) - 1
  <2>1. t \in Seq(S) /\ Len(t) = Len(a) + Len(b)
    <3>1. a \o b \in Seq(S) /\ Len(a \o b) = Len(a) + Len(b)
      BY <1>2, <1>3, ConcatProperties, Zenon
    <3> QED
      BY <1>6, <3>1, Zenon
  <2>2. (k - 1) + (Len(s) - k) = Len(s) - 1
    BY <1>1
  <2> QED
    BY <1>2, <1>3, <2>1, <2>2, Zenon
<1>5. ASSUME NEW i \in 1 .. Len(t) PROVE t[i] = IF i < k THEN s[i] ELSE s[i + 1]
  <2>1. i \in Nat /\ 1 <= i /\ i <= Len(s) - 1
    <3>1. i \in 1 .. Len(s) - 1
      BY <1>4, Zenon
    <3> QED
      BY <1>1, <3>1
  <2>2. CASE i < k
    BY <1>1, <1>2, <1>3, <1>6, <2>1, <2>2
  <2>3. CASE ~(i < k)
    <3> DEFINE j == i - (k - 1)
    <3>1. j \in 1 .. Len(s) - k /\ j + k = i + 1
      BY <1>1, <2>1, <2>3
    <3>2. i > Len(a) /\ i <= Len(a) + Len(b) /\ j = i - Len(a)
      BY <1>1, <1>2, <1>3, <2>1, <2>3
    <3>3. t[i] = b[i - Len(a)]
      <4>1. Len(a) \in Nat /\ Len(b) \in Nat /\ i \in 1 .. Len(a) + Len(b) /\ ~(i <= Len(a))
        BY <1>2, <1>3, <2>1, <3>2
      <4>2. (a \o b)[i] = IF i <= Len(a) THEN a[i] ELSE b[i - Len(a)]
        BY <1>2, <1>3, <4>1, ConcatProperties, Zenon
      <4> QED
        BY <1>6, <4>1, <4>2, Zenon
    <3>4. b[j] = s[j + k]
      BY <1>3, <3>1
    <3> HIDE DEF j
    <3> QED
      BY <2>3, <3>1, <3>2, <3>3, <3>4
  <2> QED
    BY <2>2, <2>3
<1> QED
  BY <1>4, <1>5

LEMMA StepListRemove ==
  ASSUME DeviceInv, NEW d \in Devices, ListRemove(d)
  PROVE  DeviceInv'
<1>1. pc[d] = "err_enable" /\ CardInv("err_enable", xdev[d], held[d], regs[d], hw[d], poll_mode)
  BY CardAt DEF ListRemove
<1>2. CardInv("free_xdev", xdev[d], held[d], regs[d], hw[d], poll_mode)
  BY <1>1, CardUnlist
<1>3. /\ UNCHANGED <<poll_mode, hw, module, held, misuse, regs, opened>> /\ misuse = {}
      /\ Moves(d, "free_xdev", xdev[d], held[d], regs[d])
  BY CardAt DEF ListRemove, Goto, Moves, DeviceInv
<1>4. /\ {"err_enable", "free_xdev"} \cap (OpenAt \cup Idle) = {}
      /\ "err_enable" \in ListedAt /\ "free_xdev" \notin ListedAt
      /\ EnginesAt \subseteq ListedAt
  BY DEF OpenAt, Idle, ListedAt, RegionsAt, BarsAt, EnginesAt, VectorsAt, IrqsAt
<1>5. opened[d] = {}
  BY <1>1, <1>4, CardAt
<1>6. FrameInv /\ CardsInv /\ ListInv /\ ThreadsInv /\ ModuleInv /\ OpenInv
  BY DEF DeviceInv
<1>7. FrameInv'
  <2>1. opened' = [opened EXCEPT ![d] = opened'[d]] /\ DOMAIN module' = {"state", "refs", "held"}
    BY <1>3, <1>6 DEF FrameInv
  <2> QED
    BY <1>3, <1>6, <2>1, FrameStep
<1>8. CardsInv'
  BY <1>2, <1>3, <1>6, CardsStep
<1>9. OpenInv'
  BY <1>3, <1>4, <1>5, <1>6, OpenStep
<1>10. /\ pc'[d] = "free_xdev" /\ xdev' = xdev
       /\ \A c \in Devices \ {d} : pc'[c] = pc[c]
  BY <1>3, <1>6, Moved DEF ListRemove
<1>11. ModuleInv'
  BY <1>1, <1>3, <1>4, <1>6, <1>10 DEF ModuleInv
<1>12. ListInv' /\ xdev_list # <<>>
  <2>1. PICK k \in 1 .. Len(xdev_list) : /\ xdev_list[k] = d
          /\ xdev_list' = SubSeq(xdev_list, 1, k - 1) \o SubSeq(xdev_list, k + 1, Len(xdev_list))
    BY DEF ListRemove
  <2> DEFINE n == Len(xdev_list)
             At(i) == IF i < k THEN i ELSE i + 1
  <2>2. xdev_list \in Seq(Devices) /\ n \in Nat /\ k \in Nat
    BY <1>6 DEF ListInv
  <2>3. /\ xdev_list' \in Seq(Devices) /\ Len(xdev_list') = n - 1
        /\ \A i \in 1 .. n - 1 : xdev_list'[i] = xdev_list[At(i)]
    <3>1. /\ xdev_list' \in Seq(Devices) /\ Len(xdev_list') = n - 1
          /\ \A i \in 1 .. Len(xdev_list') :
               xdev_list'[i] = IF i < k THEN xdev_list[i] ELSE xdev_list[i + 1]
      BY <2>1, <2>2, RemoveAt, ZenonT(60)
    <3> QED
      BY <3>1
  <2>4. \A i \in 1 .. n - 1 : At(i) \in 1 .. n /\ At(i) # k
    BY <2>1, <2>2
  <2>5. \A i, j \in 1 .. n - 1 : i < j => At(i) < At(j)
    BY <2>2
  <2>6. \A j \in 1 .. n : j # k => \E i \in 1 .. n - 1 : At(i) = j
    <3>1. ASSUME NEW j \in 1 .. n, j # k PROVE \E i \in 1 .. n - 1 : At(i) = j
      <4>1. CASE j < k
        <5>1. j \in 1 .. n - 1 /\ At(j) = j
          BY <2>1, <2>2, <4>1
        <5> QED
          BY <5>1
      <4>2. CASE j > k
        <5>1. j - 1 \in 1 .. n - 1 /\ At(j - 1) = j
          BY <2>1, <2>2, <4>2
        <5> QED
          BY <5>1
      <4> QED
        BY <2>2, <3>1, <4>1, <4>2
    <3> QED
      BY <3>1
  <2> HIDE DEF At
  <2>7. ASSUME NEW i \in 1 .. Len(xdev_list'), NEW j \in 1 .. Len(xdev_list'), i < j
        PROVE  xdev'[xdev_list'[i]].idx < xdev'[xdev_list'[j]].idx
    BY <1>6, <1>10, <2>3, <2>4, <2>5, <2>7 DEF ListInv
  <2>8. ASSUME NEW j \in 1 .. n, j # k PROVE xdev_list[j] # d
    <3>1. j < k \/ k < j
      BY <2>2, <2>8
    <3>2. \A c \in Devices : xdev[c].idx \in Nat
      BY <1>6 DEF CardsInv, CardInv, XdevType
    <3>3. xdev[xdev_list[j]].idx < xdev[d].idx \/ xdev[d].idx < xdev[xdev_list[j]].idx
      BY <1>6, <2>1, <3>1 DEF ListInv
    <3> QED
      BY <3>2, <3>3
  <2>9. ASSUME NEW c \in Devices PROVE Listed(c)' <=> pc'[c] \in ListedAt
    <3>1. Listed(c)' <=> \E i \in 1 .. n - 1 : xdev_list[At(i)] = c
      BY <2>3 DEF Listed
    <3>2. Listed(c) <=> \E j \in 1 .. n : xdev_list[j] = c
      BY DEF Listed
    <3>3. Listed(c) <=> pc[c] \in ListedAt
      BY <1>6 DEF ListInv
    <3> HIDE DEF n
    <3>4. CASE c = d
      BY <1>4, <1>10, <2>4, <2>8, <3>1, <3>4
    <3>5. CASE c # d
      BY <1>10, <2>1, <2>4, <2>6, <3>1, <3>2, <3>3, <3>5
    <3> QED
      BY <3>4, <3>5
  <2>10. xdev_list # <<>>
    BY <2>1
  <2> QED
    BY <2>3, <2>7, <2>9, <2>10 DEF ListInv
<1>13. ThreadsInv'
  <2>1. poll_mode' = poll_mode /\ poll_mode \in BOOLEAN
    BY <1>3, <1>6 DEF FrameInv
  <2>2. CASE poll_mode /\ xdev_list' = <<>>
    <3>1. cs_threads' = [running |-> FALSE, work |-> [t \in 1 .. NThreads |-> {}]]
      BY <2>2 DEF ListRemove, StopThreads
    <3>2. cs_threads' \in [running : BOOLEAN, work : Works]
      BY <3>1 DEF Works
    <3>3. ASSUME NEW c \in Devices PROVE xdev'[c].engines = {}
      <4>1. ~Listed(c)'
        BY <2>2 DEF Listed
      <4>2. pc'[c] \notin EnginesAt
        BY <1>4, <1>12, <4>1 DEF ListInv
      <4>3. CASE c = d
        BY <1>2, <1>10, <4>2, <4>3 DEF CardInv, FieldInv
      <4>4. CASE c # d
        BY <1>6, <1>10, <4>2, <4>4 DEF CardsInv, CardInv, FieldInv
      <4> QED
        BY <4>3, <4>4
    <3>4. \A t \in 1 .. NThreads : cs_threads'.work[t] = {}
      BY <3>1
    <3>5. ~cs_threads'.running
      BY <3>1
    <3> QED
      BY <2>2, <3>2, <3>3, <3>4, <3>5 DEF ThreadsInv, Works
  <2>3. CASE ~(poll_mode /\ xdev_list' = <<>>)
    <3>1. cs_threads' = cs_threads
      BY <2>3 DEF ListRemove
    <3> QED
      BY <1>6, <1>10, <1>12, <2>1, <2>3, <3>1 DEF ThreadsInv, Works
  <2> QED
    BY <2>2, <2>3
<1> QED
  BY <1>3, <1>7, <1>8, <1>9, <1>11, <1>12, <1>13 DEF DeviceInv
-----------------------------------------------------------------------------
(***************************************************************************)
(* Engines and the threads that poll them.                                 *)
(***************************************************************************)
LEMMA EngineStep ==
  ASSUME DeviceInv, NEW d \in Devices, NEW p, NEW x, NEW h, NEW r, Moves(d, p, x, h, r),
         UNCHANGED <<module, xdev_list, opened>>, misuse' = {},
         CardInv(p, x, h, r, hw[d], poll_mode),
         pc[d] \notin OpenAt \cup Idle, p \notin OpenAt,
         p \in ListedAt <=> pc[d] \in ListedAt, x.idx = xdev[d].idx,
         ThreadsInv'
  PROVE  DeviceInv'
<1>1. FrameInv /\ CardsInv /\ ListInv /\ ThreadsInv /\ ModuleInv /\ OpenInv
  BY DEF DeviceInv
<1>2. FrameInv'
  <2>1. opened' = [opened EXCEPT ![d] = opened'[d]] /\ DOMAIN module' = {"state", "refs", "held"}
    BY <1>1 DEF FrameInv
  <2> QED
    BY <1>1, <2>1, FrameStep
<1>3. CardsInv'
  BY <1>1, CardsStep
<1>4. ListInv'
  BY <1>1, ListStep
<1>5. ModuleInv'
  BY <1>1, Moved DEF ModuleInv
<1>6. OpenInv'
  BY <1>1, CardAt, OpenStep
<1> QED
  BY <1>2, <1>3, <1>4, <1>5, <1>6 DEF DeviceInv

\* EngineObjects of the model is EngineMem with poll_mode.
LEMMA MemIsObjects ==
  ASSUME NEW e
  PROVE  EngineObjects(e) = EngineMem(e, poll_mode)
BY DEF EngineObjects, EngineMem, When

LEMMA WorkAdded ==
  ASSUME ThreadsInv, FrameInv, NEW d \in Devices, NEW e \in Engines, e \notin xdev[d].engines,
         AddWork(<<d, e>>), UNCHANGED <<poll_mode, xdev_list>>,
         xdev'[d].engines = xdev[d].engines \cup {e},
         \A c \in Devices \ {d} : xdev'[c].engines = xdev[c].engines
  PROVE  ThreadsInv'
<1>1. CASE ~poll_mode
  <2>1. cs_threads' = cs_threads
    BY <1>1 DEF AddWork
  <2> QED
    BY <1>1, <2>1 DEF ThreadsInv, Works
<1>2. CASE poll_mode
  <2> DEFINE l == LeastLoaded
             w == cs_threads.work
  <2>1. cs_threads' = [cs_threads EXCEPT !.work[l] = @ \cup {<<d, e>>}] /\ l \in 1 .. NThreads
    BY <1>2, LeastLoadedThread DEF AddWork
  <2> HIDE DEF l
  <2>2. cs_threads \in [running : BOOLEAN, work : Works]
    BY DEF ThreadsInv
  <2>3. w \in Works /\ <<d, e>> \in Devices \X Engines
    BY <2>2
  <2>4. /\ cs_threads'.running = cs_threads.running
        /\ cs_threads'.work = [w EXCEPT ![l] = w[l] \cup {<<d, e>>}]
        /\ cs_threads' \in [running : BOOLEAN, work : Works]
    <3>1. [w EXCEPT ![l] = w[l] \cup {<<d, e>>}] \in Works
      BY <2>1, <2>3 DEF Works
    <3>2. cs_threads' = [cs_threads EXCEPT !.work = [w EXCEPT ![l] = w[l] \cup {<<d, e>>}]]
      BY <2>1
    <3> QED
      BY <2>2, <3>1, <3>2
  <2>5. /\ cs_threads'.work[l] = w[l] \cup {<<d, e>>}
        /\ \A t \in 1 .. NThreads : t # l => cs_threads'.work[t] = w[t]
    BY <2>1, <2>3, <2>4 DEF Works
  <2>6. \A t \in 1 .. NThreads : <<d, e>> \notin w[t]
    BY DEF ThreadsInv
  <2>7. ASSUME NEW c \in Devices, NEW f \in Engines
        PROVE  (\E t \in 1 .. NThreads : <<c, f>> \in cs_threads'.work[t])
                 <=> poll_mode' /\ f \in xdev'[c].engines
    <3>1. (\E t \in 1 .. NThreads : <<c, f>> \in w[t]) <=> f \in xdev[c].engines
      BY <1>2 DEF ThreadsInv
    <3>2. (\E t \in 1 .. NThreads : <<c, f>> \in cs_threads'.work[t])
            <=> (\E t \in 1 .. NThreads : <<c, f>> \in w[t]) \/ <<c, f>> = <<d, e>>
      BY <2>1, <2>5
    <3>3. f \in xdev'[c].engines <=> f \in xdev[c].engines \/ (c = d /\ f = e)
      BY <2>7
    <3> QED
      BY <1>2, <3>1, <3>2, <3>3
  <2>8. ASSUME NEW t \in 1 .. NThreads, NEW u \in 1 .. NThreads, t # u
        PROVE  cs_threads'.work[t] \cap cs_threads'.work[u] = {}
    <3>1. w[t] \cap w[u] = {}
      BY <2>8 DEF ThreadsInv
    <3> QED
      BY <2>5, <2>6, <2>8, <3>1
  <2>9. cs_threads'.running <=> poll_mode' /\ xdev_list' # <<>>
    BY <2>4 DEF ThreadsInv
  <2> QED
    BY <2>4, <2>7, <2>8, <2>9 DEF ThreadsInv, Works
<1> QED
  BY <1>1, <1>2 DEF FrameInv

LEMMA WorkRemoved ==
  ASSUME ThreadsInv, FrameInv, NEW d \in Devices, NEW e \in Engines,
         RemoveWork(<<d, e>>), UNCHANGED <<poll_mode, xdev_list>>,
         xdev'[d].engines = xdev[d].engines \ {e},
         \A c \in Devices \ {d} : xdev'[c].engines = xdev[c].engines
  PROVE  ThreadsInv'
<1>1. CASE ~poll_mode
  <2>1. cs_threads' = cs_threads
    BY <1>1 DEF RemoveWork
  <2> QED
    BY <1>1, <2>1 DEF ThreadsInv, Works
<1>2. CASE poll_mode
  <2> DEFINE w == cs_threads.work
             v == [t \in 1 .. NThreads |-> w[t] \ {<<d, e>>}]
  <2>1. cs_threads' = [cs_threads EXCEPT !.work = v]
    BY <1>2 DEF RemoveWork
  <2>2. cs_threads \in [running : BOOLEAN, work : Works]
    BY DEF ThreadsInv
  <2>3. w \in Works
    BY <2>2
  <2>4. v \in Works
    BY <2>3 DEF Works
  <2>5. \A t \in 1 .. NThreads : v[t] = w[t] \ {<<d, e>>}
    OBVIOUS
  <2> HIDE DEF v
  <2>6. /\ cs_threads'.running = cs_threads.running /\ cs_threads'.work = v
        /\ cs_threads' \in [running : BOOLEAN, work : Works]
    BY <2>1, <2>2, <2>4
  <2>7. ASSUME NEW c \in Devices, NEW f \in Engines
        PROVE  (\E t \in 1 .. NThreads : <<c, f>> \in cs_threads'.work[t])
                 <=> poll_mode' /\ f \in xdev'[c].engines
    <3>1. (\E t \in 1 .. NThreads : <<c, f>> \in w[t]) <=> f \in xdev[c].engines
      BY <1>2 DEF ThreadsInv
    <3>2. (\E t \in 1 .. NThreads : <<c, f>> \in v[t])
            <=> (\E t \in 1 .. NThreads : <<c, f>> \in w[t]) /\ <<c, f>> # <<d, e>>
      BY <2>5
    <3>3. f \in xdev'[c].engines <=> f \in xdev[c].engines /\ ~(c = d /\ f = e)
      BY <2>7
    <3> QED
      BY <1>2, <2>6, <3>1, <3>2, <3>3
  <2>8. ASSUME NEW t \in 1 .. NThreads, NEW u \in 1 .. NThreads, t # u
        PROVE  cs_threads'.work[t] \cap cs_threads'.work[u] = {}
    <3>1. w[t] \cap w[u] = {}
      BY <2>8 DEF ThreadsInv
    <3> QED
      BY <2>5, <2>6, <2>8, <3>1
  <2>9. cs_threads'.running <=> poll_mode' /\ xdev_list' # <<>>
    BY <2>6 DEF ThreadsInv
  <2> QED
    BY <2>6, <2>7, <2>8, <2>9 DEF ThreadsInv, Works
<1> QED
  BY <1>1, <1>2 DEF FrameInv

LEMMA StepProbeEngine ==
  ASSUME DeviceInv, NEW d \in Devices, ProbeForEngine(d)
  PROVE  DeviceInv'
<1> DEFINE x == xdev[d]
           e == <<pc[d], Found(d, pc[d])>>
           y == [x EXCEPT !.engines = x.engines \cup {e}]
           h == held[d] \cup EngineMem(e, poll_mode)
           r == regs[d] \cup {<<"engine", e>>}
<1>1. /\ pc[d] \in Directions /\ CardInv(pc[d], x, held[d], regs[d], hw[d], poll_mode)
      /\ x \in XdevType
  BY CardAt DEF ProbeForEngine, CardInv
<1>2. /\ UNCHANGED <<poll_mode, hw, module, xdev_list, misuse, opened>> /\ misuse = {}
  BY DEF ProbeForEngine, DeviceInv
<1>3. FrameInv /\ ThreadsInv
  BY DEF DeviceInv
<1>4. \/ /\ e[2] < hw[d].channels[pc[d]]
         /\ Moves(d, pc[d], y, h, r) /\ AddWork(<<d, e>>)
      \/ Books(d, OpenNext[pc[d]], x, held[d], regs[d])
  <2>1. \/ /\ e[2] < hw[d].channels[pc[d]] /\ Take(d, EngineObjects(e))
           /\ xdev' = [xdev EXCEPT ![d].engines = @ \cup {e}]
           /\ regs' = [regs EXCEPT ![d] = @ \cup {<<"engine", e>>}]
           /\ AddWork(<<d, e>>) /\ UNCHANGED pc
        \/ Continue(d, TRUE) /\ UNCHANGED <<held, xdev, regs, cs_threads>>
    BY DEF ProbeForEngine
  <2>2. CASE Continue(d, TRUE) /\ UNCHANGED <<held, xdev, regs, cs_threads>>
    BY <1>2, <2>2, CardAt DEF Continue, Goto, Books, Moves
  <2>3. CASE /\ e[2] < hw[d].channels[pc[d]] /\ Take(d, EngineObjects(e))
             /\ xdev' = [xdev EXCEPT ![d].engines = @ \cup {e}]
             /\ regs' = [regs EXCEPT ![d] = @ \cup {<<"engine", e>>}]
             /\ AddWork(<<d, e>>) /\ UNCHANGED pc
    <3>1. held' = [held EXCEPT ![d] = h]
      BY <2>3, MemIsObjects DEF Take
    <3>2. xdev' = [xdev EXCEPT ![d] = y]
      BY <2>3
    <3> HIDE DEF e, h, y
    <3>3. regs' = [regs EXCEPT ![d] = r]
      BY <2>3
    <3> HIDE DEF r
    <3> QED
      BY <1>2, <2>3, <3>1, <3>2, <3>3, CardAt DEF Moves
  <2> QED
    BY <2>1, <2>2, <2>3
<1>5. CASE Books(d, OpenNext[pc[d]], x, held[d], regs[d])
  <2>1. OpenNext["h2c"] = "c2h" /\ OpenNext["c2h"] = "msi"
    BY DEF OpenNext
  <2>2. /\ {"h2c", "c2h", "msi"} \cap (OpenAt \cup Idle) = {}
        /\ {"h2c", "c2h", "msi"} \subseteq ListedAt
    BY DEF OpenAt, Idle, ListedAt, RegionsAt, BarsAt, EnginesAt, VectorsAt, IrqsAt
  <2>3. CASE pc[d] = "h2c"
    BY <1>1, <1>5, <2>1, <2>2, <2>3, CardEnginesEnd, PlainStep
  <2>4. CASE pc[d] = "c2h"
    BY <1>1, <1>5, <2>1, <2>2, <2>4, CardEnginesEnd, PlainStep
  <2> QED
    BY <1>1, <2>3, <2>4 DEF Directions
<1>6. CASE /\ e[2] < hw[d].channels[pc[d]]
           /\ Moves(d, pc[d], y, h, r) /\ AddWork(<<d, e>>)
  <2>1. Found(d, pc[d]) = Cardinality(InDirection(x, pc[d]))
    BY DEF Found, InDirection
  <2>2. Found(d, pc[d]) \in Nat
    <3>1. IsFiniteSet(InDirection(x, pc[d]))
      BY <1>1, EnginesFinite, FS_Subset DEF InDirection, XdevType
    <3> QED
      BY <2>1, <3>1, FS_CardinalityType
  <2>3. e \in Engines
    <3>1. hw[d].channels[pc[d]] \in 0 .. XDMA_CHANNEL_NUM_MAX /\ XDMA_CHANNEL_NUM_MAX \in Nat
      BY <1>1, CardData, DeviceAssumption
    <3>2. Found(d, pc[d]) < hw[d].channels[pc[d]]
      BY <1>6
    <3>3. Found(d, pc[d]) \in 0 .. XDMA_CHANNEL_NUM_MAX - 1
      BY <2>2, <3>1, <3>2
    <3> QED
      BY <1>1, <3>3 DEF Engines
  <2>4. e = <<pc[d], Cardinality(InDirection(x, pc[d]))>>
    BY <2>1
  <2>5. y.engines = x.engines \cup {e} /\ y.idx = x.idx
    BY <1>1 DEF XdevType
  <2>6. e \notin x.engines /\ CardInv(pc[d], y, h, r, hw[d], poll_mode)
    <3> HIDE DEF e
    <3> QED
      BY <1>1, <2>3, <2>4, CardEngine
  <2> HIDE DEF e, y, h, r
  <2>7. ThreadsInv'
    <3>1. /\ xdev'[d] = y /\ \A c \in Devices \ {d} : xdev'[c] = xdev[c]
      BY <1>3, <1>6, Moved
    <3> QED
      BY <1>2, <1>3, <1>6, <2>3, <2>5, <2>6, <3>1, WorkAdded
  <2>8. pc[d] \notin OpenAt \cup Idle
    BY <1>1 DEF OpenAt, Idle, Directions
  <2> QED
    BY <1>2, <1>6, <2>5, <2>6, <2>7, <2>8, EngineStep
<1> QED
  BY <1>4, <1>5, <1>6

LEMMA StepRemoveEngines ==
  ASSUME DeviceInv, NEW d \in Devices, RemoveEngines(d)
  PROVE  DeviceInv'
<1> DEFINE x == xdev[d]
           e == FirstEngine(x.engines)
           y == [x EXCEPT !.engines = x.engines \ {e}, !.msix_irq_line = x.msix_irq_line \ {e}]
           h == held[d] \ EngineMem(e, poll_mode)
           r == regs[d] \ {<<"engine", e>>}
<1>1. /\ pc[d] = "err_engines" /\ CardInv("err_engines", x, held[d], regs[d], hw[d], poll_mode)
      /\ x \in XdevType
  BY CardAt DEF RemoveEngines, CardInv
<1>2. /\ UNCHANGED <<poll_mode, hw, module, xdev_list, opened>> /\ misuse = {}
  BY DEF RemoveEngines, DeviceInv
<1>3. FrameInv /\ ThreadsInv
  BY DEF DeviceInv
<1>4. /\ {"err_engines", "err_mask"} \cap (OpenAt \cup Idle) = {}
      /\ {"err_engines", "err_mask"} \subseteq ListedAt
  BY DEF OpenAt, Idle, ListedAt, RegionsAt, BarsAt, EnginesAt, VectorsAt, IrqsAt
<1>5. CASE x.engines = {}
  <2>1. Books(d, "err_mask", x, held[d], regs[d])
    BY <1>2, <1>5, CardAt DEF RemoveEngines, Goto, Books, Moves
  <2>2. CardInv("err_mask", x, held[d], regs[d], hw[d], poll_mode)
    BY <1>1, <1>5, CardEnginesGone
  <2> QED
    BY <1>1, <1>4, <2>1, <2>2, PlainStep
<1>6. CASE x.engines # {}
  <2>1. x.engines \in SUBSET Engines
    BY <1>1 DEF XdevType
  <2>2. e \in x.engines /\ e \in Engines
    <3>1. e \in x.engines
      BY <1>6, <2>1, FirstEngineFound
    <3> QED
      BY <2>1, <3>1
  <2>3. /\ xdev' = [xdev EXCEPT ![d].engines = @ \ {e}, ![d].msix_irq_line = @ \ {e}]
        /\ Return(d, EngineObjects(e))
        /\ regs' = [regs EXCEPT ![d] = @ \ {<<"engine", e>>}]
        /\ RemoveWork(<<d, e>>) /\ UNCHANGED pc
    BY <1>6 DEF RemoveEngines, FirstEngine
  <2> HIDE DEF e
  <2>4. EngineMem(e, poll_mode) \subseteq held[d] /\ CardInv("err_engines", y, h, r, hw[d], poll_mode)
    BY <1>1, <2>2, CardEngineGone
  <2>5. Return(d, EngineMem(e, poll_mode))
    BY <2>3, MemIsObjects
  <2>6. held' = [held EXCEPT ![d] = h] /\ misuse' = {}
    BY <2>4, <2>5, Returned
  <2>7. y.engines = x.engines \ {e} /\ y.idx = x.idx
    BY <1>1 DEF XdevType
  <2>8. xdev' = [xdev EXCEPT ![d] = y]
    BY <1>3, <2>3 DEF FrameInv
  <2> HIDE DEF y, h
  <2>9. regs' = [regs EXCEPT ![d] = r]
    BY <2>3
  <2> HIDE DEF r
  <2>10. Moves(d, "err_engines", y, h, r)
    BY <1>1, <1>2, <2>3, <2>6, <2>8, <2>9, CardAt DEF Moves
  <2>11. ThreadsInv'
    <3>1. /\ xdev'[d] = y /\ \A c \in Devices \ {d} : xdev'[c] = xdev[c]
      BY <1>3, <2>10, Moved
    <3> QED
      BY <1>2, <1>3, <2>2, <2>3, <2>7, <3>1, WorkRemoved
  <2> QED
    BY <1>1, <1>2, <1>4, <2>4, <2>6, <2>7, <2>10, <2>11, EngineStep
<1> QED
  BY <1>5, <1>6
-----------------------------------------------------------------------------
(***************************************************************************)
(* Open files and the module.                                              *)
(***************************************************************************)
LEMMA CardsKept ==
  ASSUME CardsInv, UNCHANGED <<poll_mode, hw, pc, xdev, held, regs>>
  PROVE  CardsInv'
<1> SUFFICES ASSUME NEW c \in Devices
             PROVE  CardInv(pc'[c], xdev'[c], held'[c], regs'[c], hw'[c], poll_mode')
  BY Zenon DEF CardsInv, CardInv, FieldInv, HeldSet, RegSet, EngineMem, InDirection,
         SetupIrqs, FilesOf, AsFiles, EngineRegs, When, XdevType,
         BarObjs, EngineObjs, FileObjs
<1> QED
  BY DEF CardsInv

LEMMA FileStep ==
  ASSUME DeviceInv, NEW d \in Devices, NEW S, NEW n \in Int,
         module' = [module EXCEPT !.refs = n], opened' = [opened EXCEPT ![d] = S],
         UNCHANGED <<poll_mode, hw, pc, xdev, xdev_list, cs_threads, held, misuse, regs>>,
         OpenInv'
  PROVE  DeviceInv'
<1>1. FrameInv /\ CardsInv /\ ListInv /\ ThreadsInv /\ ModuleInv /\ misuse = {}
  BY DEF DeviceInv
<1>2. FrameInv'
  BY <1>1 DEF FrameInv
<1>3. CardsInv'
  BY <1>1, CardsKept
<1>4. ListInv'
  BY <1>1 DEF ListInv, Listed
<1>5. ThreadsInv'
  BY <1>1 DEF ThreadsInv, Works
<1>6. ModuleInv'
  <2>1. module'.state = module.state /\ module'.held = module.held
    BY <1>1 DEF FrameInv
  <2> QED
    BY <1>1, <2>1 DEF ModuleInv
<1> QED
  BY <1>1, <1>2, <1>3, <1>4, <1>5, <1>6 DEF DeviceInv

LEMMA FileHeld ==
  ASSUME NEW p, NEW x, NEW h, NEW r, NEW c, NEW pm, CardInv(p, x, h, r, c, pm),
         NEW f, <<"file", f>> \in h, p \notin Removing
  PROVE  p \in OpenAt
<1>1. p \in FilesAt /\ <<"file", f>> \in FileObjs(x)
  BY Kinds DEF CardInv, HeldSet, When
<1>2. x.flags # {}
  BY <1>1, NoObjs
<1>3. p # "files_failed"
  BY <1>2 DEF CardInv, FieldInv, FilesAt, Removing
<1> QED
  BY <1>1, <1>3 DEF FilesAt, OpenAt, Removing

LEMMA StepOpen ==
  ASSUME DeviceInv, Handled, NEW d \in Devices, NEW f, Open(d, f)
  PROVE  DeviceInv'
<1>1. /\ <<"file", f>> \in held[d] /\ f \notin opened[d] /\ module.state = "loaded"
      /\ pc[d] \notin Removing
      /\ module' = [module EXCEPT !.refs = module.refs + 1]
      /\ opened' = [opened EXCEPT ![d] = opened[d] \cup {f}]
      /\ UNCHANGED <<poll_mode, hw, pc, xdev, xdev_list, cs_threads, held, misuse, regs>>
  BY DEF Open, Handled, Unhandled
<1>2. OpenInv /\ FrameInv
  BY DEF DeviceInv
<1>3. pc[d] \in OpenAt
  BY <1>1, CardAt, FileHeld
<1>4. /\ opened'[d] = opened[d] \cup {f} /\ \A c \in Devices \ {d} : opened'[c] = opened[c]
  BY <1>1, <1>2 DEF FrameInv
<1>5. OpenPairs' = OpenPairs \cup {<<d, f>>} /\ <<d, f>> \notin OpenPairs
  BY <1>1, <1>4 DEF OpenPairs
<1>6. IsFiniteSet(OpenPairs) /\ module.refs = Cardinality(OpenPairs)
  BY <1>2 DEF OpenInv
<1>7. IsFiniteSet(OpenPairs') /\ Cardinality(OpenPairs') = module.refs + 1
  BY <1>5, <1>6, FS_AddElement
<1>8. module'.refs = module.refs + 1 /\ module'.state = "loaded"
  BY <1>1, <1>2 DEF FrameInv
<1>9. module.refs + 1 \in Int
  BY <1>6, FS_CardinalityType
<1>10. OpenInv'
  <2>1. ASSUME NEW c \in Devices, NEW g \in opened'[c]
        PROVE  pc'[c] \in OpenAt /\ <<"file", g>> \in held'[c]
    <3>1. (c = d /\ g = f) \/ g \in opened[c]
      BY <1>4
    <3>2. g \in opened[c] => pc[c] \in OpenAt /\ <<"file", g>> \in held[c]
      BY <1>2 DEF OpenInv, OpenAt
    <3> QED
      BY <1>1, <1>3, <3>1, <3>2
  <2> QED
    BY <1>7, <1>8, <2>1 DEF OpenInv, OpenAt
<1> QED
  BY <1>1, <1>9, <1>10, FileStep

LEMMA StepCloseFile ==
  ASSUME DeviceInv, NEW d \in Devices, NEW f, Close(d, f)
  PROVE  DeviceInv'
<1>1. /\ f \in opened[d]
      /\ module' = [module EXCEPT !.refs = module.refs - 1]
      /\ opened' = [opened EXCEPT ![d] = opened[d] \ {f}]
      /\ UNCHANGED <<poll_mode, hw, pc, xdev, xdev_list, cs_threads, held, misuse, regs>>
  BY DEF Close
<1>2. OpenInv /\ FrameInv
  BY DEF DeviceInv
<1>4. /\ opened'[d] = opened[d] \ {f} /\ \A c \in Devices \ {d} : opened'[c] = opened[c]
  BY <1>1, <1>2 DEF FrameInv
<1>5. OpenPairs' = OpenPairs \ {<<d, f>>} /\ <<d, f>> \in OpenPairs
  <2>1. <<d, f>> \in OpenPairs
    BY <1>1 DEF OpenPairs
  <2>2. OpenPairs' = OpenPairs \ {<<d, f>>}
    BY <1>1, <1>4 DEF OpenPairs
  <2> QED
    BY <2>1, <2>2
<1>6. IsFiniteSet(OpenPairs) /\ module.refs = Cardinality(OpenPairs) /\ module.refs \in Nat
  BY <1>2, FS_CardinalityType DEF OpenInv
<1>7. IsFiniteSet(OpenPairs') /\ Cardinality(OpenPairs') = module.refs - 1
  BY <1>5, <1>6, FS_RemoveElement
<1>8. module'.refs = module.refs - 1 /\ module'.state = module.state
  BY <1>1, <1>2 DEF FrameInv
<1>9. module.state = "loaded"
  <2>1. CASE module.state # "loaded"
    <3>1. Cardinality(OpenPairs) = 0
      BY <1>2, <2>1 DEF OpenInv
    <3>2. OpenPairs = {}
      BY <1>6, <3>1, FS_EmptySet
    <3> QED
      BY <1>5, <3>2
  <2> QED
    BY <2>1
<1>10. OpenInv'
  <2>1. ASSUME NEW c \in Devices, NEW g \in opened'[c]
        PROVE  pc'[c] \in OpenAt /\ <<"file", g>> \in held'[c]
    <3>1. g \in opened[c]
      BY <1>4
    <3> QED
      BY <1>1, <1>2, <3>1 DEF OpenInv, OpenAt
  <2> QED
    BY <1>7, <1>8, <1>9, <2>1 DEF OpenInv, OpenAt
<1>11. module.refs - 1 \in Int
  BY <1>6
<1> QED
  BY <1>1, <1>10, <1>11, FileStep

LEMMA StepModule ==
  ASSUME DeviceInv, Handled, ModInit \/ ModExit \/ ModCleanup
  PROVE  DeviceInv'
<1>1. FrameInv /\ CardsInv /\ ListInv /\ ThreadsInv /\ ModuleInv /\ OpenInv /\ misuse = {}
  BY DEF DeviceInv
<1>2. UNCHANGED <<poll_mode, hw, pc, xdev, xdev_list, cs_threads, held, misuse, regs, opened>>
  BY DEF ModInit, ModExit, ModCleanup
<1>3. /\ DOMAIN module' = {"state", "refs", "held"} /\ module'.refs = module.refs
      /\ module'.state \in {"unloaded", "loaded", "exiting"}
      /\ module'.state = "unloaded" => module'.held = {} /\ \A d \in Devices : pc[d] \in Idle
      /\ module'.state # "loaded" => module.refs = 0
  <2>1. CASE ModInit
    <3>1. Result("mod_init") = {TRUE}
      BY DEF Result, Handled, Unhandled
    <3>2. \/ module' = [module EXCEPT !.state = "loaded", !.held = @ \cup {"class", "cache"}]
          \/ module' = [module EXCEPT !.state = "unloaded", !.held = @ \cup {}]
      BY <2>1, <3>1 DEF ModInit, Result
    <3>3. /\ module.state = "unloaded" /\ module.held = {} /\ module.refs = 0
          /\ \A d \in Devices : pc[d] \in Idle
      BY <1>1, <2>1 DEF ModInit, ModuleInv, OpenInv
    <3>4. DOMAIN module = {"state", "refs", "held"}
      BY <1>1 DEF FrameInv
    <3>5. CASE module' = [module EXCEPT !.state = "loaded", !.held = @ \cup {"class", "cache"}]
      <4>1. /\ DOMAIN module' = {"state", "refs", "held"} /\ module'.refs = module.refs
            /\ module'.state = "loaded"
        BY <3>4, <3>5
      <4> QED
        BY <4>1
    <3>6. CASE module' = [module EXCEPT !.state = "unloaded", !.held = @ \cup {}]
      <4>1. /\ DOMAIN module' = {"state", "refs", "held"} /\ module'.refs = module.refs
            /\ module'.state = "unloaded" /\ module'.held = {}
        BY <3>3, <3>4, <3>6
      <4> QED
        BY <3>3, <4>1
    <3> QED
      BY <3>2, <3>5, <3>6
  <2>2. CASE ModExit
    BY <1>1, <2>2 DEF ModExit, FrameInv
  <2>3. CASE ModCleanup
    BY <1>1, <2>3 DEF ModCleanup, FrameInv, OpenInv
  <2> QED
    BY <2>1, <2>2, <2>3
<1>4. FrameInv'
  BY <1>1, <1>2, <1>3 DEF FrameInv
<1>5. CardsInv'
  BY <1>1, <1>2, CardsKept
<1>6. ListInv'
  BY <1>1, <1>2 DEF ListInv, Listed
<1>7. ThreadsInv'
  BY <1>1, <1>2 DEF ThreadsInv, Works
<1>8. ModuleInv'
  BY <1>1, <1>2, <1>3 DEF ModuleInv
<1>9. OpenInv'
  <2>1. OpenPairs' = OpenPairs
    BY <1>2 DEF OpenPairs
  <2> QED
    BY <1>1, <1>2, <1>3, <2>1 DEF OpenInv
<1> QED
  BY <1>1, <1>2, <1>4, <1>5, <1>6, <1>7, <1>8, <1>9 DEF DeviceInv
-----------------------------------------------------------------------------
(***************************************************************************)
(* The invariant holds initially and every step keeps it.                  *)
(***************************************************************************)
LEMMA CardInit ==
  ASSUME NEW c, NEW pm
  PROVE  CardInv("unbound", FreshXdev, {}, {}, c, pm)
<1> DEFINE y == FreshXdev
<1> USE DEF FilesAt, IrqsAt, VectorsAt, EnginesAt, BarsAt, RegionsAt, EnabledAt,
            ListedAt, XdevAt, XpdevAt, Idle, Removing, Directions
<1>1. y \in XdevType
  BY DEF XdevType, FreshXdev
<1>2. FieldInv("unbound", y, c, pm)
  BY DEF FieldInv, FreshXdev
<1>3. {} = RegSet("unbound", y, pm)
  BY DEF RegSet, When, EngineRegs, FreshXdev
<1>4. y.bar = {} /\ y.engines = {}
  BY DEF FreshXdev
<1> HIDE DEF y
<1>5. HeldSet("unbound", y, pm) = {}
  BY <1>4, NoObjs DEF HeldSet, When
<1> QED
  BY <1>1, <1>2, <1>3, <1>5 DEF CardInv, y

LEMMA DeviceInit == Init => DeviceInv
<1> SUFFICES ASSUME Init PROVE DeviceInv
  OBVIOUS
<1>1. FrameInv
  BY DeviceAssumption DEF Init, FrameInv
<1>2. CardsInv
  BY CardInit DEF Init, CardsInv
<1>3. ListInv
  <2>1. xdev_list = <<>> /\ \A d \in Devices : pc[d] = "unbound"
    BY DEF Init
  <2>2. "unbound" \notin ListedAt
    BY DEF ListedAt, RegionsAt, BarsAt, EnginesAt, VectorsAt, IrqsAt
  <2> QED
    BY <2>1, <2>2 DEF ListInv, Listed
<1>4. ThreadsInv
  <2>1. /\ cs_threads = [running |-> FALSE, work |-> [t \in 1 .. NThreads |-> {}]]
        /\ xdev_list = <<>> /\ \A d \in Devices : xdev[d].engines = {}
    BY DEF Init, FreshXdev
  <2>2. cs_threads \in [running : BOOLEAN, work : Works]
    BY <2>1 DEF Works
  <2>3. ~cs_threads.running /\ \A t \in 1 .. NThreads : cs_threads.work[t] = {}
    BY <2>1
  <2> QED
    BY <2>1, <2>2, <2>3 DEF ThreadsInv
<1>5. ModuleInv
  BY DEF Init, ModuleInv, Idle
<1>6. OpenInv
  <2>1. OpenPairs = {}
    BY DEF Init, OpenPairs
  <2> QED
    BY <2>1, FS_EmptySet DEF Init, OpenInv
<1> QED
  BY <1>1, <1>2, <1>3, <1>4, <1>5, <1>6 DEF Init, DeviceInv

LEMMA DeviceStep ==
  ASSUME DeviceInv, Handled, [Next]_deviceVars
  PROVE  DeviceInv'
<1>1. ASSUME NEW d \in Devices, Probing(d) PROVE DeviceInv'
  BY <1>1, StepProbe, StepAlloc, StepListAdd, StepEnable, StepRegions, StepMapBars, StepDmaMask,
     StepProbeEngine, StepMsi, StepIrq, StepUserIsr, StepFiles DEF Probing
<1>2. ASSUME NEW d \in Devices, Unwinding(d) PROVE DeviceInv'
  BY <1>2, StepRemove, StepDestroy, StepClose, StepDisableMsi, StepRemoveEngines, StepUnmap,
     StepRelease, StepDisable, StepListRemove, StepFreeXdev, StepFree DEF Unwinding
<1>3. ASSUME NEW d \in Devices, Resets(d) PROVE DeviceInv'
  BY <1>3, StepOffline, StepOnline DEF Resets
<1>4. ASSUME NEW d \in Devices, NEW f, Open(d, f) PROVE DeviceInv'
  BY <1>4, StepOpen
<1>5. ASSUME NEW d \in Devices, NEW f, Close(d, f) PROVE DeviceInv'
  BY <1>5, StepCloseFile
<1>6. CASE ModInit \/ ModExit \/ ModCleanup
  BY <1>6, StepModule
<1>7. CASE UNCHANGED deviceVars
  <2>1. UNCHANGED <<poll_mode, hw, module, pc, xdev, xdev_list, cs_threads, held, misuse, regs,
                    opened>>
    BY <1>7 DEF deviceVars
  <2>2. FrameInv' /\ ListInv' /\ ThreadsInv' /\ ModuleInv' /\ misuse' = {}
    BY <2>1 DEF DeviceInv, FrameInv, ListInv, Listed, ThreadsInv, Works, ModuleInv
  <2>3. CardsInv'
    BY <2>1, CardsKept DEF DeviceInv
  <2>4. OpenInv'
    <3>1. OpenPairs' = OpenPairs
      BY <2>1 DEF OpenPairs
    <3> QED
      BY <2>1, <3>1 DEF DeviceInv, OpenInv
  <2> QED
    BY <2>2, <2>3, <2>4 DEF DeviceInv
<1> QED
  BY <1>1, <1>2, <1>3, <1>4, <1>5, <1>6, <1>7 DEF Next

(***************************************************************************)
(* The books of every card agree with where the driver is with it, the     *)
(* list with the cards, the threads with the engines and the count of the  *)
(* module with the open files, in every reachable state, as long as none   *)
(* of the failures the driver mishandles happens.                          *)
(***************************************************************************)
THEOREM DeviceInvariant ==
  ASSUME Handled
  PROVE  Spec => []DeviceInv
<1>1. DeviceInv /\ [Next]_deviceVars => DeviceInv'
  BY DeviceStep
<1> QED
  BY <1>1, DeviceInit, PTL DEF Spec
-----------------------------------------------------------------------------
(***************************************************************************)
(* What the invariant says about a card, label by label.                   *)
(***************************************************************************)
LEMMA IdleCard ==
  ASSUME NEW p, NEW x, NEW h, NEW r, NEW c, NEW pm, CardInv(p, x, h, r, c, pm)
  PROVE  /\ p = "unbound" => h = {}
         /\ p = "in_use" => h = {<<"enabled", 0>>}
         /\ p \in Idle => r = {} /\ p \notin ListedAt
<1> USE DEF CardInv, FilesAt, IrqsAt, VectorsAt, EnginesAt, BarsAt, RegionsAt, EnabledAt,
            ListedAt, XdevAt, XpdevAt, Idle, Removing, Directions
<1>1. p \in Idle => x.bar = {} /\ x.engines = {} /\ p \notin ListedAt
  BY DEF FieldInv
<1>2. p = "unbound" => h = {}
  BY <1>1, NoObjs DEF HeldSet, When
<1>3. p = "in_use" => h = {<<"enabled", 0>>}
  BY <1>1, NoObjs DEF HeldSet, When
<1>4. p \in Idle => r = {}
  BY <1>1 DEF RegSet, When, EngineRegs
<1> QED
  BY <1>1, <1>2, <1>3, <1>4

LEMMA EveryCard ==
  ASSUME DeviceInv, NEW d \in Devices
  PROVE  /\ CardInv(pc[d], xdev[d], held[d], regs[d], hw[d], poll_mode)
         /\ Listed(d) <=> pc[d] \in ListedAt
BY DEF DeviceInv, CardsInv, ListInv

LEMMA InvNothingLeft == DeviceInv => NothingLeft
<1> SUFFICES ASSUME DeviceInv PROVE NothingLeft
  OBVIOUS
<1>1. ASSUME NEW d \in Devices
      PROVE  /\ pc[d] = "unbound" => held[d] = {}
             /\ pc[d] = "in_use" => held[d] = {<<"enabled", 0>>}
             /\ pc[d] \in Idle => regs[d] = {} /\ ~Listed(d)
  BY EveryCard, IdleCard
<1>2. ASSUME module.state = "unloaded"
      PROVE  module.held = {} /\ xdev_list = <<>> /\ ~cs_threads.running
  <2>1. module.held = {} /\ \A d \in Devices : pc[d] \in Idle
    BY <1>2 DEF DeviceInv, ModuleInv
  <2>2. xdev_list = <<>>
    <3>1. xdev_list \in Seq(Devices) /\ \A d \in Devices : ~Listed(d)
      BY <1>1, <2>1 DEF DeviceInv, ListInv
    <3>2. xdev_list # <<>> => xdev_list[1] \in Devices /\ Listed(xdev_list[1])
      BY <3>1 DEF Listed
    <3> QED
      BY <3>1, <3>2
  <2> QED
    BY <2>1, <2>2 DEF DeviceInv, ThreadsInv
<1> QED
  BY <1>1, <1>2 DEF NothingLeft

LEMMA InvDistinctIdx == DeviceInv => DistinctIdx
<1> SUFFICES ASSUME DeviceInv, NEW c \in Devices, NEW d \in Devices, Listed(c), Listed(d),
                    xdev[c].idx = xdev[d].idx
             PROVE  c = d
  BY DEF DistinctIdx
<1>1. PICK i \in 1 .. Len(xdev_list) : xdev_list[i] = c
  BY DEF Listed
<1>2. PICK j \in 1 .. Len(xdev_list) : xdev_list[j] = d
  BY DEF Listed
<1>3. xdev[c].idx \in Nat
  BY EveryCard DEF CardInv, XdevType
<1>4. i < j => xdev[c].idx < xdev[d].idx
  BY <1>1, <1>2 DEF DeviceInv, ListInv
<1>5. j < i => xdev[d].idx < xdev[c].idx
  BY <1>1, <1>2 DEF DeviceInv, ListInv
<1>6. i = j
  BY <1>3, <1>4, <1>5
<1> QED
  BY <1>1, <1>2, <1>6

LEMMA InvEveryEnginePolled == DeviceInv => EveryEnginePolled
<1> SUFFICES ASSUME DeviceInv PROVE EveryEnginePolled
  OBVIOUS
<1> DEFINE alive == IF poll_mode THEN UNION {{<<d, e>> : e \in xdev[d].engines} : d \in Devices}
                                 ELSE {}
           served == UNION {cs_threads.work[t] : t \in 1 .. NThreads}
<1>1. \A d \in Devices : xdev[d].engines \in SUBSET Engines
  BY EveryCard DEF CardInv, XdevType
<1>2. \A t \in 1 .. NThreads : cs_threads.work[t] \in SUBSET (Devices \X Engines)
  <2>1. cs_threads.work \in Works
    BY DEF DeviceInv, ThreadsInv
  <2> QED
    BY <2>1 DEF Works
<1>3. served \subseteq alive
  <2>1. ASSUME NEW t \in 1 .. NThreads, NEW w \in cs_threads.work[t] PROVE w \in alive
    <3>1. PICK d \in Devices, e \in Engines : w = <<d, e>>
      BY <1>2
    <3>2. poll_mode /\ e \in xdev[d].engines
      BY <3>1 DEF DeviceInv, ThreadsInv
    <3> QED
      BY <3>1, <3>2
  <2> QED
    BY <2>1
<1>4. alive \subseteq served
  <2>1. ASSUME NEW d \in Devices, NEW e \in xdev[d].engines, poll_mode PROVE <<d, e>> \in served
    <3>1. e \in Engines
      BY <1>1
    <3>2. \E t \in 1 .. NThreads : <<d, e>> \in cs_threads.work[t]
      BY <2>1, <3>1 DEF DeviceInv, ThreadsInv
    <3> QED
      BY <3>2
  <2> QED
    BY <2>1
<1>5. /\ cs_threads.running <=> poll_mode /\ xdev_list # <<>>
      /\ \A t, u \in 1 .. NThreads : t # u => cs_threads.work[t] \cap cs_threads.work[u] = {}
  BY DEF DeviceInv, ThreadsInv
<1>6. served = alive
  BY <1>3, <1>4
<1> QED
  BY <1>5, <1>6 DEF EveryEnginePolled

LEMMA ReadyCard ==
  ASSUME NEW p, NEW x, NEW h, NEW r, NEW c, NEW pm, CardInv(p, x, h, r, c, pm)
  PROVE  /\ p \in {"files", "bound"} =>
              /\ SetupIrqs(x) \subseteq h
              /\ x.shutdown = {} /\ EngineRegs(x) \subseteq r
              /\ <<"user_int", 0>> \in r
              /\ pm \/ <<"channel_int", 0>> \in r
              /\ c.irq = "msix" => <<"irq_vectors", 0>> \in r
         /\ p \in {"frozen", "resetting"} =>
              /\ x.offline /\ r \cap IrqRegs = {}
              /\ h \cap (SetupIrqs(x) \cup UserIrqs) = {}
<1> USE DEF CardInv, FilesAt, IrqsAt, VectorsAt, EnginesAt, BarsAt, RegionsAt, EnabledAt,
            ListedAt, XdevAt, XpdevAt, Idle, Removing, Directions
<1>1. ASSUME p \in {"files", "bound"}
      PROVE  /\ SetupIrqs(x) \subseteq h
             /\ x.shutdown = {} /\ EngineRegs(x) \subseteq r
             /\ <<"user_int", 0>> \in r
             /\ pm \/ <<"channel_int", 0>> \in r
             /\ c.irq = "msix" => <<"irq_vectors", 0>> \in r
  <2>1. SetupIrqs(x) \subseteq h
    BY <1>1 DEF HeldSet, When
  <2>2. x.shutdown = {}
    BY <1>1 DEF FieldInv
  <2>3. /\ EngineRegs(x) \subseteq r /\ <<"user_int", 0>> \in r
        /\ pm \/ <<"channel_int", 0>> \in r
    BY <1>1 DEF RegSet, When
  <2>4. c.irq = "msix" => x.msix
    BY <1>1 DEF FieldInv
  <2>5. x.msix => <<"irq_vectors", 0>> \in r
    BY <1>1 DEF RegSet, When
  <2> QED
    BY <2>1, <2>2, <2>3, <2>4, <2>5
<1>2. ASSUME p \in {"frozen", "resetting"}
      PROVE  /\ x.offline /\ r \cap IrqRegs = {}
             /\ h \cap (SetupIrqs(x) \cup UserIrqs) = {}
  <2>1. x.offline
    BY <1>2 DEF FieldInv
  <2>2. r \cap IrqRegs = {}
    BY <1>2 DEF RegSet, When, EngineRegs, IrqRegs
  <2>3. \A o \in h : o[1] \notin {"channel_irq", "user_irq", "line_irq"}
    BY <1>2, Kinds DEF HeldSet, When
  <2>4. \A o \in SetupIrqs(x) \cup UserIrqs : o[1] \in {"channel_irq", "user_irq", "line_irq"}
    BY Kinds DEF UserIrqs
  <2> QED
    BY <2>1, <2>2, <2>3, <2>4
<1> QED
  BY <1>1, <1>2

LEMMA InvOnlineIsReady == DeviceInv => OnlineIsReady
BY EveryCard, ReadyCard DEF OnlineIsReady

\* The engine a file belongs to is one the driver has found.
LEMMA EngineOfFile ==
  ASSUME NEW x, x.engines \in SUBSET Engines, NEW g \in GroupNames, NEW f \in FilesOf(x, g)
  PROVE  EngineOf(f) \subseteq x.engines
<1>1. CASE g = "SG"
  <2>1. f \in x.engines
    BY <1>1 DEF FilesOf
  <2>2. f[1] \in Directions
    BY <2>1 DEF Engines
  <2>3. EngineOf(f) = {f}
    BY <2>2 DEF EngineOf, Directions
  <2> QED
    BY <2>1, <2>3
<1>2. CASE g = "BYPASS"
  <2>1. (\E e \in x.engines : f = <<Bypass[e[1]], e[2]>>) \/ f = <<"bypass", 0>>
    BY <1>2 DEF FilesOf
  <2>2. CASE f = <<"bypass", 0>>
    BY <2>2 DEF EngineOf, Directions
  <2>3. ASSUME NEW e \in x.engines, f = <<Bypass[e[1]], e[2]>>
        PROVE  EngineOf(f) \subseteq x.engines
    <3>1. e = <<e[1], e[2]>> /\ e[1] \in {"h2c", "c2h"}
      BY DEF Engines, Directions
    <3>2. CASE e[1] = "h2c"
      <4>1. f[1] = "bypass_h2c" /\ f[2] = e[2]
        BY <2>3, <3>2 DEF Bypass
      <4>2. EngineOf(f) = {<<"h2c", f[2]>>}
        BY <4>1 DEF EngineOf, Directions
      <4> QED
        BY <3>1, <3>2, <4>1, <4>2
    <3>3. CASE e[1] = "c2h"
      <4>1. f[1] = "bypass_c2h" /\ f[2] = e[2]
        BY <2>3, <3>3 DEF Bypass
      <4>2. EngineOf(f) = {<<"c2h", f[2]>>}
        BY <4>1 DEF EngineOf, Directions
      <4> QED
        BY <3>1, <3>3, <4>1, <4>2
    <3> QED
      BY <3>1, <3>2, <3>3
  <2> QED
    BY <2>1, <2>2, <2>3
<1>3. CASE g \in {"CTRL", "EVENT", "USER", "XVC"}
  <2>1. f[1] \in {"control", "events", "user", "xvc"}
    BY <1>3 DEF FilesOf
  <2>2. EngineOf(f) = {}
    BY <2>1 DEF EngineOf, Directions
  <2> QED
    BY <2>2
<1> QED
  BY <1>1, <1>2, <1>3 DEF GroupNames

LEMMA EngineHasDesc ==
  ASSUME NEW p, NEW x, NEW h, NEW r, NEW c, NEW pm, CardInv(p, x, h, r, c, pm),
         NEW e \in x.engines
  PROVE  <<"desc", e>> \in h
<1>1. EngineObjs(x, pm) \subseteq h
  BY DEF CardInv, HeldSet
<1>2. <<"desc", e>> \in EngineMem(e, pm)
  BY DEF EngineMem
<1>3. EngineMem(e, pm) \subseteq EngineObjs(x, pm)
  BY DEF EngineObjs
<1> QED
  BY <1>1, <1>2, <1>3

\* A device file that exists has its device number and its engine.
LEMMA FileRests ==
  ASSUME NEW p, NEW x, NEW h, NEW r, NEW c, NEW pm, CardInv(p, x, h, r, c, pm),
         NEW f, <<"file", f>> \in h
  PROVE  /\ p \in FilesAt /\ <<"chrdev", 0>> \in h
         /\ \A e \in EngineOf(f) : <<"desc", e>> \in h
<1>1. p \in FilesAt /\ <<"file", f>> \in FileObjs(x)
  BY Kinds DEF CardInv, HeldSet, When
<1>2. x.major
  BY <1>1, NoObjs DEF CardInv, FieldInv
<1>3. <<"chrdev", 0>> \in h
  BY <1>1, <1>2 DEF CardInv, HeldSet, When
<1>4. x.flags \in SUBSET GroupNames /\ x.engines \in SUBSET Engines
  BY DEF CardInv, XdevType
<1>5. PICK g \in x.flags : f \in FilesOf(x, g)
  BY <1>1 DEF FileObjs, AsFiles
<1>6. EngineOf(f) \subseteq x.engines
  BY <1>4, <1>5, EngineOfFile
<1>7. \A e \in x.engines : <<"desc", e>> \in h
  BY EngineHasDesc
<1> QED
  BY <1>1, <1>3, <1>6, <1>7

\* What the objects of a card rest on, kind by kind.
LEMMA ObjectRests ==
  ASSUME NEW p, NEW x, NEW h, NEW r, NEW c, NEW pm, CardInv(p, x, h, r, c, pm), NEW o \in h
  PROVE  /\ o[1] = "channel_irq" => <<"vectors", 0>> \in h /\ <<"desc", o[2]>> \in h
         /\ o[1] = "user_irq" => <<"vectors", 0>> \in h
         /\ o[1] = "desc" => \E i \in ConfigBars(c.bars) : <<"bar", i>> \in h
<1> USE DEF FilesAt, IrqsAt, VectorsAt, EnginesAt, BarsAt
<1>1. \A e \in x.engines : <<"desc", e>> \in h
  BY EngineHasDesc
<1>2. ASSUME o[1] \in {"channel_irq", "user_irq"}
      PROVE  p \in IrqsAt /\ o \in SetupIrqs(x)
  BY <1>2, Kinds DEF CardInv, HeldSet, When
<1>3. ASSUME o[1] \in {"channel_irq", "user_irq"}
      PROVE  <<"vectors", 0>> \in h
  <2>1. x.msix
    BY <1>2, <1>3 DEF SetupIrqs
  <2> QED
    BY <1>2, <1>3, <2>1 DEF CardInv, HeldSet, When
<1>4. ASSUME o[1] = "channel_irq"
      PROVE  <<"desc", o[2]>> \in h
  BY <1>1, <1>2, <1>4 DEF SetupIrqs, ChannelIrqs, UserIrqs
<1>5. ASSUME o[1] = "desc"
      PROVE  \E i \in ConfigBars(c.bars) : <<"bar", i>> \in h
  <2>1. o \in EngineObjs(x, pm)
    BY <1>5, Kinds DEF CardInv, HeldSet, When
  <2>2. x.engines # {}
    BY <2>1, NoObjs
  <2>3. ConfigBars(c.bars) \cap x.bar # {}
    BY <2>2 DEF CardInv, FieldInv
  <2>4. \A i \in x.bar : <<"bar", i>> \in h
    BY DEF CardInv, HeldSet, BarObjs
  <2> QED
    BY <2>3, <2>4
<1> QED
  BY <1>3, <1>4, <1>5

\* The labels at which a card has an object of a kind.
LEMMA KindsAt ==
  ASSUME NEW p, NEW x, NEW h, NEW r, NEW c, NEW pm, CardInv(p, x, h, r, c, pm)
  PROVE  /\ (\E o \in h : o[1] = "bar") => p \in RegionsAt
         /\ (\E o \in h : o[1] = "regions") <=> p \in RegionsAt
         /\ p \in EnabledAt => \E o \in h : o[1] = "enabled"
         /\ (\E o \in h : o[1] = "enabled") => p \in ListedAt \/ x.regions_in_use \/ p = "in_use"
         /\ (\E o \in h : o[1] = "line_irq") => p \in XdevAt
         /\ p \in XdevAt => \E o \in h : o[1] = "xdev"
<1> USE DEF FilesAt, IrqsAt, VectorsAt, EnginesAt, BarsAt, RegionsAt, EnabledAt, ListedAt, XdevAt
<1>1. ASSUME NEW o \in h, o[1] = "bar" PROVE p \in RegionsAt
  <2>1. o \in BarObjs(x)
    BY <1>1, Kinds DEF CardInv, HeldSet, When
  <2>2. x.bar # {}
    BY <2>1, NoObjs
  <2> QED
    BY <2>2 DEF CardInv, FieldInv
<1>2. ASSUME NEW o \in h, o[1] = "regions" PROVE p \in RegionsAt
  BY <1>2, Kinds DEF CardInv, HeldSet, When
<1>3. p \in RegionsAt => <<"regions", 0>> \in h
  BY DEF CardInv, HeldSet, When
<1>4. p \in EnabledAt => <<"enabled", 0>> \in h
  BY DEF CardInv, HeldSet, When
<1>5. ASSUME NEW o \in h, o[1] = "enabled"
      PROVE  p \in ListedAt \/ x.regions_in_use \/ p = "in_use"
  BY <1>5, Kinds DEF CardInv, HeldSet, When
<1>6. ASSUME NEW o \in h, o[1] = "line_irq" PROVE p \in XdevAt
  BY <1>6, Kinds DEF CardInv, HeldSet, When
<1>7. p \in XdevAt => <<"xdev", 0>> \in h
  BY DEF CardInv, HeldSet, When
<1> HIDE DEF FilesAt, IrqsAt, VectorsAt, EnginesAt, BarsAt, RegionsAt, EnabledAt, ListedAt, XdevAt
<1>8. \A k : <<k, 0>> \in h => \E o \in h : o[1] = k
  OBVIOUS
<1> QED
  BY <1>1, <1>2, <1>3, <1>4, <1>5, <1>6, <1>7, <1>8

LEMMA InvHeldInOrder == DeviceInv => HeldInOrder
<1> SUFFICES ASSUME DeviceInv PROVE HeldInOrder
  OBVIOUS
<1>1. ASSUME NEW d \in Devices, NEW o \in held[d]
      PROVE  /\ o[1] = "channel_irq" => <<"vectors", 0>> \in held[d] /\ <<"desc", o[2]>> \in held[d]
             /\ o[1] = "user_irq" => <<"vectors", 0>> \in held[d]
             /\ o[1] = "desc" => \E i \in ConfigBars(hw[d].bars) : <<"bar", i>> \in held[d]
  BY EveryCard, ObjectRests
<1>2. ASSUME NEW d \in Devices, NEW o \in held[d], o[1] = "file"
      PROVE  /\ <<"chrdev", 0>> \in held[d] /\ \A e \in EngineOf(o[2]) : <<"desc", e>> \in held[d]
             /\ pc[d] \in FilesAt
  <2>1. CardInv(pc[d], xdev[d], held[d], regs[d], hw[d], poll_mode)
    BY EveryCard
  <2>2. o \in FileObjs(xdev[d])
    BY <1>2, <2>1, Kinds DEF CardInv, HeldSet, When
  <2>3. o = <<"file", o[2]>>
    BY <2>2 DEF FileObjs, AsFiles
  <2> QED
    BY <2>1, <2>3, FileRests
<1>3. ASSUME NEW d \in Devices
      PROVE  /\ Holds(d, "file") => module.state # "unloaded"
             /\ Holds(d, "bar") => Holds(d, "regions")
             /\ Holds(d, "regions") => Holds(d, "enabled") \/ pc[d] \in {"frozen", "dead"}
             /\ Holds(d, "enabled") => Listed(d) \/ xdev[d].regions_in_use \/ pc[d] = "in_use"
             /\ Listed(d) \/ Holds(d, "line_irq") => Holds(d, "xdev")
  <2>1. CardInv(pc[d], xdev[d], held[d], regs[d], hw[d], poll_mode)
    BY EveryCard
  <2>2. Holds(d, "file") => module.state # "unloaded"
    BY <1>2 DEF Holds, DeviceInv, ModuleInv, FilesAt, Idle
  <2>3. pc[d] \in RegionsAt => pc[d] \in EnabledAt \/ pc[d] \in {"frozen", "dead"}
    BY DEF EnabledAt
  <2>4. pc[d] \in ListedAt => pc[d] \in XdevAt
    BY DEF XdevAt
  <2>5. Listed(d) <=> pc[d] \in ListedAt
    BY EveryCard
  <2> QED
    BY <2>1, <2>2, <2>3, <2>4, <2>5, KindsAt DEF Holds
<1> QED
  BY <1>1, <1>2, <1>3 DEF HeldInOrder

LEMMA InvOpenFileUsable == DeviceInv => OpenFileUsable
<1> SUFFICES ASSUME DeviceInv, NEW d \in Devices, NEW f \in opened[d]
             PROVE  /\ {<<"xpdev", 0>>, <<"xdev", 0>>} \subseteq held[d]
                    /\ \A e \in EngineOf(f) : <<"desc", e>> \in held[d]
  BY DEF OpenFileUsable
<1>1. CardInv(pc[d], xdev[d], held[d], regs[d], hw[d], poll_mode)
  BY EveryCard
<1>2. pc[d] \in {"files", "bound", "frozen", "resetting"} /\ <<"file", f>> \in held[d]
  BY DEF DeviceInv, OpenInv
<1>3. pc[d] \in XdevAt /\ pc[d] \in XpdevAt
  BY <1>2 DEF XpdevAt, XdevAt, ListedAt, RegionsAt, BarsAt, EnginesAt, VectorsAt, IrqsAt
<1>4. <<"xpdev", 0>> \in held[d] /\ <<"xdev", 0>> \in held[d]
  BY <1>1, <1>3 DEF CardInv, HeldSet, When
<1> QED
  BY <1>1, <1>2, <1>4, FileRests
-----------------------------------------------------------------------------
(***************************************************************************)
(* The layouts of the BARs the comment of identify_bars names: the config  *)
(* BAR alone, after the user BAR, before the bypass BAR, or between the    *)
(* two, with perhaps one more BAR between these (the fourth of "case 4").  *)
(* A card without a config BAR is refused by map_bars.                     *)
(***************************************************************************)
StandardBars(bars) ==
  \E c \in ConfigBars(bars) :
    \/ BarIds(bars) = {c}
    \/ \E u \in 0 .. 5 : u < c /\ bars[u] = "user" /\ BarIds(bars) = {u, c}
    \/ \E b \in 0 .. 5 : c < b /\ bars[b] = "bypass" /\ BarIds(bars) = {c, b}
    \/ \E u, o, b \in 0 .. 5 :
         /\ u < c /\ c < b /\ u < o /\ o < b /\ (o = c \/ bars[o] = "other")
         /\ bars[u] = "user" /\ bars[b] = "bypass" /\ BarIds(bars) = {u, c, o, b}

StandardCards ==
  \A d \in Devices : \A k \in Cards[d] : ConfigBars(k.bars) # {} => StandardBars(k.bars)

\* From map_bars on the driver goes by the BARs it identified; the groups of
\* files are made in order, all of them before the card is bound.
PlacedAt == {"dma_mask", "h2c", "c2h", "msi", "irq", "isr_enable", "files", "bound",
             "frozen", "resetting"}

FirstGroups(x, n) == {Groups(x)[i] : i \in 1 .. n}

PlaceInv(p, x, bars) ==
  /\ p \in PlacedAt => /\ ConfigBars(bars) # {}
                       /\ x.user_bar = IdentifyBars(BarIds(bars), ConfigBarPos(bars))[1]
                       /\ x.bypass_bar = IdentifyBars(BarIds(bars), ConfigBarPos(bars))[2]
  /\ p = "files" => /\ x.flags = FirstGroups(x, Cardinality(x.flags))
                    /\ Cardinality(x.flags) \in 0 .. Len(Groups(x))
  /\ p \in {"bound", "frozen", "resetting"} => x.flags = FirstGroups(x, Len(Groups(x)))

FilesInv ==
  /\ \A d \in Devices : hw[d] \in Cards[d]
  /\ \A d \in Devices : PlaceInv(pc[d], xdev[d], hw[d].bars)

\* The groups, which are different, and which of them there are.
LEMMA GroupList ==
  ASSUME NEW x
  PROVE  /\ Len(Groups(x)) \in Nat
         /\ \A i, j \in 1 .. Len(Groups(x)) : Groups(x)[i] = Groups(x)[j] => i = j
         /\ FirstGroups(x, Len(Groups(x))) =
              {"CTRL", "EVENT", "SG"} \cup When(x.bypass_bar > 0, {"BYPASS"})
                                      \cup When(x.user_bar >= 0, {"USER", "XVC"})
<1> DEFINE G == Groups(x)
<1>1. CASE x.bypass_bar > 0 /\ x.user_bar >= 0
  <2>1. /\ (IF x.bypass_bar > 0 THEN <<"BYPASS">> ELSE <<>>) = <<"BYPASS">>
        /\ (IF x.user_bar >= 0 THEN <<"USER", "XVC">> ELSE <<>>) = <<"USER", "XVC">>
    BY <1>1, Zenon
  <2>2. G = <<"CTRL", "EVENT", "SG">> \o <<"BYPASS">> \o <<"USER", "XVC">>
    BY <2>1, Zenon DEF Groups
  <2> HIDE DEF G
  <2>3. /\ Len(G) = 6
        /\ G[1] = "CTRL" /\ G[2] = "EVENT" /\ G[3] = "SG"
        /\ G[4] = "BYPASS" /\ G[5] = "USER" /\ G[6] = "XVC"
    BY <2>2
  <2>4. 1 .. Len(G) = {1, 2, 3, 4, 5, 6}
    BY <2>3
  <2>5. {G[i] : i \in 1 .. Len(G)} = {"CTRL", "EVENT", "SG", "BYPASS", "USER", "XVC"}
    BY <2>3, <2>4
  <2>6. \A i, j \in 1 .. Len(G) : G[i] = G[j] => i = j
    BY <2>3, <2>4
  <2> QED
    BY <1>1, <2>3, <2>5, <2>6 DEF FirstGroups, When, G
<1>2. CASE x.bypass_bar > 0 /\ ~(x.user_bar >= 0)
  <2>1. /\ (IF x.bypass_bar > 0 THEN <<"BYPASS">> ELSE <<>>) = <<"BYPASS">>
        /\ (IF x.user_bar >= 0 THEN <<"USER", "XVC">> ELSE <<>>) = <<>>
    BY <1>2, Zenon
  <2>2. G = <<"CTRL", "EVENT", "SG">> \o <<"BYPASS">> \o <<>>
    BY <2>1, Zenon DEF Groups
  <2> HIDE DEF G
  <2>3. /\ Len(G) = 4
        /\ G[1] = "CTRL" /\ G[2] = "EVENT" /\ G[3] = "SG"
        /\ G[4] = "BYPASS"
    BY <2>2
  <2>4. 1 .. Len(G) = {1, 2, 3, 4}
    BY <2>3
  <2>5. {G[i] : i \in 1 .. Len(G)} = {"CTRL", "EVENT", "SG", "BYPASS"}
    BY <2>3, <2>4
  <2>6. \A i, j \in 1 .. Len(G) : G[i] = G[j] => i = j
    BY <2>3, <2>4
  <2> QED
    BY <1>2, <2>3, <2>5, <2>6 DEF FirstGroups, When, G
<1>3. CASE ~(x.bypass_bar > 0) /\ x.user_bar >= 0
  <2>1. /\ (IF x.bypass_bar > 0 THEN <<"BYPASS">> ELSE <<>>) = <<>>
        /\ (IF x.user_bar >= 0 THEN <<"USER", "XVC">> ELSE <<>>) = <<"USER", "XVC">>
    BY <1>3, Zenon
  <2>2. G = <<"CTRL", "EVENT", "SG">> \o <<>> \o <<"USER", "XVC">>
    BY <2>1, Zenon DEF Groups
  <2> HIDE DEF G
  <2>3. /\ Len(G) = 5
        /\ G[1] = "CTRL" /\ G[2] = "EVENT" /\ G[3] = "SG"
        /\ G[4] = "USER" /\ G[5] = "XVC"
    BY <2>2
  <2>4. 1 .. Len(G) = {1, 2, 3, 4, 5}
    BY <2>3
  <2>5. {G[i] : i \in 1 .. Len(G)} = {"CTRL", "EVENT", "SG", "USER", "XVC"}
    BY <2>3, <2>4
  <2>6. \A i, j \in 1 .. Len(G) : G[i] = G[j] => i = j
    BY <2>3, <2>4
  <2> QED
    BY <1>3, <2>3, <2>5, <2>6 DEF FirstGroups, When, G
<1>4. CASE ~(x.bypass_bar > 0) /\ ~(x.user_bar >= 0)
  <2>1. /\ (IF x.bypass_bar > 0 THEN <<"BYPASS">> ELSE <<>>) = <<>>
        /\ (IF x.user_bar >= 0 THEN <<"USER", "XVC">> ELSE <<>>) = <<>>
    BY <1>4, Zenon
  <2>2. G = <<"CTRL", "EVENT", "SG">> \o <<>> \o <<>>
    BY <2>1, Zenon DEF Groups
  <2> HIDE DEF G
  <2>3. /\ Len(G) = 3
        /\ G[1] = "CTRL" /\ G[2] = "EVENT" /\ G[3] = "SG"
    BY <2>2
  <2>4. 1 .. Len(G) = {1, 2, 3}
    BY <2>3
  <2>5. {G[i] : i \in 1 .. Len(G)} = {"CTRL", "EVENT", "SG"}
    BY <2>3, <2>4
  <2>6. \A i, j \in 1 .. Len(G) : G[i] = G[j] => i = j
    BY <2>3, <2>4
  <2> QED
    BY <1>4, <2>3, <2>5, <2>6 DEF FirstGroups, When, G
<1> QED
  BY <1>1, <1>2, <1>3, <1>4

\* Sets of two and of more numbers.
LEMMA Pair ==
  ASSUME NEW a, NEW b, a # b
  PROVE  IsFiniteSet({a, b}) /\ Cardinality({a, b}) = 2
<1>1. IsFiniteSet({a}) /\ Cardinality({a}) = 1
  BY FS_Singleton
<1>2. {a, b} = {a} \cup {b} /\ b \notin {a}
  OBVIOUS
<1>3. IsFiniteSet({a} \cup {b}) /\ Cardinality({a} \cup {b}) = Cardinality({a}) + 1
  BY <1>1, <1>2, FS_AddElement
<1> QED
  BY <1>1, <1>2, <1>3

LEMMA Triple ==
  ASSUME NEW a, NEW b, NEW c, a # b, c \notin {a, b}
  PROVE  IsFiniteSet({a, b} \cup {c}) /\ Cardinality({a, b} \cup {c}) = 3
<1>1. IsFiniteSet({a, b}) /\ Cardinality({a, b}) = 2
  BY Pair
<1>2. IsFiniteSet({a, b} \cup {c}) /\ Cardinality({a, b} \cup {c}) = Cardinality({a, b}) + 1
  BY <1>1, FS_AddElement
<1> QED
  BY <1>1, <1>2

LEMMA Ends ==
  ASSUME NEW S \in SUBSET (0 .. 5), NEW a \in S, NEW b \in S, \A y \in S : a <= y /\ y <= b
  PROVE  Min(S) = a /\ Max(S) = b
<1>1. \A y \in S : y \in Int
  OBVIOUS
<1>2. Min(S) \in S /\ \A y \in S : Min(S) <= y
  <2>1. \E m \in S : \A y \in S : m <= y
    OBVIOUS
  <2> QED
    BY <2>1 DEF Min
<1>3. Max(S) \in S /\ \A y \in S : Max(S) >= y
  <2>1. \E m \in S : \A y \in S : m >= y
    BY <1>1
  <2> QED
    BY <2>1 DEF Max
<1>4. Min(S) <= a /\ a <= Min(S) /\ Min(S) \in Int /\ a \in Int
  BY <1>1, <1>2
<1>5. Max(S) >= b /\ Max(S) <= b /\ Max(S) \in Int /\ b \in Int
  BY <1>1, <1>3
<1> QED
  BY <1>4, <1>5

\* id, the indices of the user and the bypass BAR, agrees with the card.
Names(id, bars) ==
  /\ id[1] >= 0 <=> \E i \in 0 .. 5 : bars[i] = "user"
  /\ id[2] > 0 <=> \E i \in 0 .. 5 : bars[i] = "bypass"
  /\ (\E i \in 0 .. 5 : bars[i] = "user") => bars[id[1]] = "user"
  /\ (\E i \in 0 .. 5 : bars[i] = "bypass") => bars[id[2]] = "bypass"

LEMMA Identified ==
  ASSUME NEW bars, StandardBars(bars)
  PROVE  Names(IdentifyBars(BarIds(bars), ConfigBarPos(bars)), bars)
<1> DEFINE ids == BarIds(bars)
           pos == ConfigBarPos(bars)
<1>1. PICK c \in ConfigBars(bars) :
        \/ ids = {c}
        \/ \E u \in 0 .. 5 : u < c /\ bars[u] = "user" /\ ids = {u, c}
        \/ \E b \in 0 .. 5 : c < b /\ bars[b] = "bypass" /\ ids = {c, b}
        \/ \E u, o, b \in 0 .. 5 :
             /\ u < c /\ c < b /\ u < o /\ o < b /\ (o = c \/ bars[o] = "other")
             /\ bars[u] = "user" /\ bars[b] = "bypass" /\ ids = {u, c, o, b}
  BY DEF StandardBars
<1>2. /\ c \in 0 .. 5 /\ bars[c] = "config" /\ ids \in SUBSET (0 .. 5)
      /\ \A i \in 0 .. 5 : bars[i] # "none" => i \in ids
  BY DEF ConfigBars, BarIds
\* The position of the config BAR when it is the only one.
<1>3. ASSUME NEW before, before = {i \in ids : i < c},
             \A i \in ids : bars[i] = "config" => i = c
      PROVE  pos = Cardinality(before)
  <2>1. ConfigBars(bars) = {c}
    BY <1>2, <1>3 DEF ConfigBars
  <2>2. Min({c}) = c
    <3>1. {c} \in SUBSET (0 .. 5) /\ c \in {c} /\ \A y \in {c} : c <= y /\ y <= c
      BY <1>2
    <3> QED
      BY <3>1, Ends
  <2> QED
    BY <1>3, <2>1, <2>2 DEF ConfigBarPos
<1> HIDE DEF ids, pos
<1>4. CASE ids = {c}
  <2>1. Cardinality(ids) = 1
    BY <1>4, FS_Singleton
  <2>2. IdentifyBars(ids, pos) = <<-1, -1>>
    BY <2>1 DEF IdentifyBars
  <2>3. \A i \in 0 .. 5 : bars[i] \notin {"user", "bypass"}
    BY <1>2, <1>4
  <2> QED
    BY <2>2, <2>3 DEF Names, ids, pos
<1>5. ASSUME NEW u \in 0 .. 5, u < c, bars[u] = "user", ids = {u, c}
      PROVE  Names(IdentifyBars(BarIds(bars), ConfigBarPos(bars)), bars)
  <2>1. Cardinality(ids) = 2
    BY <1>2, <1>5, Pair
  <2>2. pos = 1
    <3>1. {i \in ids : i < c} = {u}
      BY <1>2, <1>5
    <3>2. Cardinality({u}) = 1
      BY FS_Singleton
    <3> QED
      BY <1>2, <1>3, <1>5, <3>1, <3>2
  <2>3. Min(ids) = u
    <3>1. u \in ids /\ c \in ids /\ \A y \in ids : u <= y /\ y <= c
      BY <1>2, <1>5
    <3> QED
      BY <1>2, <3>1, Ends
  <2>4. IdentifyBars(ids, pos) = <<u, -1>>
    BY <2>1, <2>2, <2>3 DEF IdentifyBars
  <2>5. \A i \in 0 .. 5 : bars[i] # "bypass"
    BY <1>2, <1>5
  <2> QED
    BY <1>5, <2>4, <2>5 DEF Names, ids, pos
<1>6. ASSUME NEW b \in 0 .. 5, c < b, bars[b] = "bypass", ids = {c, b}
      PROVE  Names(IdentifyBars(BarIds(bars), ConfigBarPos(bars)), bars)
  <2>1. Cardinality(ids) = 2
    BY <1>2, <1>6, Pair
  <2>2. pos = 0
    <3>1. {i \in ids : i < c} = {}
      BY <1>2, <1>6
    <3> QED
      BY <1>2, <1>3, <1>6, <3>1, FS_EmptySet
  <2>3. Max(ids) = b
    <3>1. c \in ids /\ b \in ids /\ \A y \in ids : c <= y /\ y <= b
      BY <1>2, <1>6
    <3> QED
      BY <1>2, <3>1, Ends
  <2>4. IdentifyBars(ids, pos) = <<-1, b>>
    BY <2>1, <2>2, <2>3 DEF IdentifyBars
  <2>5. \A i \in 0 .. 5 : bars[i] # "user"
    BY <1>2, <1>6
  <2> QED
    BY <1>2, <1>6, <2>4, <2>5 DEF Names, ids, pos
<1>7. ASSUME NEW u \in 0 .. 5, NEW o \in 0 .. 5, NEW b \in 0 .. 5,
             u < c, c < b, u < o, o < b, o = c \/ bars[o] = "other",
             bars[u] = "user", bars[b] = "bypass", ids = {u, c, o, b}
      PROVE  Names(IdentifyBars(BarIds(bars), ConfigBarPos(bars)), bars)
  <2>1. Cardinality(ids) \in {3, 4}
    <3>1. IsFiniteSet({u, c} \cup {b}) /\ Cardinality({u, c} \cup {b}) = 3
      <4>1. u # c /\ b \notin {u, c}
        BY <1>2, <1>7
      <4> QED
        BY <4>1, Triple
    <3>2. CASE o = c
      <4>1. ids = {u, c} \cup {b}
        BY <1>7, <3>2
      <4> QED
        BY <3>1, <4>1
    <3>3. CASE o # c
      <4>1. ids = ({u, c} \cup {b}) \cup {o} /\ o \notin {u, c} \cup {b}
        BY <1>2, <1>7, <3>3
      <4>2. Cardinality(({u, c} \cup {b}) \cup {o}) = 3 + 1
        BY <3>1, <4>1, FS_AddElement
      <4> QED
        BY <4>1, <4>2
    <3> QED
      BY <3>2, <3>3
  <2>2. pos \in {1, 2}
    <3>1. \A i \in ids : bars[i] = "config" => i = c
      BY <1>7
    <3>2. CASE o < c
      <4>1. {i \in ids : i < c} = {u, o}
        BY <1>2, <1>7, <3>2
      <4>2. Cardinality({u, o}) = 2
        <5>1. u # o
          BY <1>7
        <5> QED
          BY <5>1, Pair
      <4> QED
        BY <1>3, <3>1, <4>1, <4>2
    <3>3. CASE ~(o < c)
      <4>1. {i \in ids : i < c} = {u}
        BY <1>2, <1>7, <3>3
      <4>2. Cardinality({u}) = 1
        BY FS_Singleton
      <4> QED
        BY <1>3, <3>1, <4>1, <4>2
    <3> QED
      BY <3>2, <3>3
  <2>3. Min(ids) = u /\ Max(ids) = b
    <3>1. u \in ids /\ b \in ids /\ \A y \in ids : u <= y /\ y <= b
      BY <1>2, <1>7
    <3> QED
      BY <1>2, <3>1, Ends
  <2>4. IdentifyBars(ids, pos) = <<u, b>>
    BY <2>1, <2>2, <2>3 DEF IdentifyBars
  <2> QED
    BY <1>7, <2>4 DEF Names, ids, pos
<1> QED
  BY <1>1, <1>4, <1>5, <1>6, <1>7

(***************************************************************************)
(* A step that concerns one card keeps FilesInv.                           *)
(***************************************************************************)
BoundAt == {"bound", "frozen", "resetting"}

\* The card is moved on with what map_bars and create_interfaces decided.
SamePlace(p, x, q, y) ==
  /\ q \in PlacedAt => /\ p \in PlacedAt
                       /\ y.user_bar = x.user_bar /\ y.bypass_bar = x.bypass_bar
                       /\ y.flags = x.flags
  /\ q = "files" => p = "files" \/ x.flags = {}
  /\ q \in BoundAt => p \in BoundAt

LEMMA PlaceKept ==
  ASSUME NEW p, NEW x, NEW q, NEW y, NEW bars, PlaceInv(p, x, bars), SamePlace(p, x, q, y)
  PROVE  PlaceInv(q, y, bars)
<1>1. "files" \in PlacedAt /\ BoundAt \subseteq PlacedAt
  BY DEF PlacedAt, BoundAt
<1>2. q \in PlacedAt => Groups(y) = Groups(x)
  BY DEF SamePlace, Groups
<1>3. q \in PlacedAt => \A n : FirstGroups(y, n) = FirstGroups(x, n)
  BY <1>2 DEF FirstGroups
<1>4. ASSUME q = "files"
      PROVE  /\ y.flags = FirstGroups(y, Cardinality(y.flags))
             /\ Cardinality(y.flags) \in 0 .. Len(Groups(y))
  <2>1. CASE p = "files"
    BY <1>1, <1>2, <1>3, <1>4, <2>1 DEF SamePlace, PlaceInv
  <2>2. CASE x.flags = {}
    <3>1. y.flags = {} /\ Cardinality(y.flags) = 0
      BY <1>1, <1>4, <2>2, FS_EmptySet DEF SamePlace
    <3>2. FirstGroups(y, 0) = {}
      BY DEF FirstGroups
    <3>3. Len(Groups(y)) \in Nat
      BY GroupList
    <3> QED
      BY <3>1, <3>2, <3>3
  <2> QED
    BY <1>4, <2>1, <2>2 DEF SamePlace
<1>5. ASSUME q \in BoundAt
      PROVE  y.flags = FirstGroups(y, Len(Groups(y)))
  BY <1>1, <1>2, <1>3, <1>5 DEF SamePlace, PlaceInv, BoundAt
<1> QED
  BY <1>4, <1>5 DEF PlaceInv, SamePlace, BoundAt

LEMMA PlaceStep ==
  ASSUME FilesInv, NEW d \in Devices, hw' = hw,
         \A c \in Devices \ {d} : pc'[c] = pc[c] /\ xdev'[c] = xdev[c],
         PlaceInv(pc'[d], xdev'[d], hw[d].bars)
  PROVE  FilesInv'
<1> SUFFICES ASSUME NEW c \in Devices
             PROVE  hw'[c] \in Cards[c] /\ PlaceInv(pc'[c], xdev'[c], hw'[c].bars)
  BY Zenon DEF FilesInv, PlaceInv, FirstGroups, Groups
<1>1. CASE c = d
  BY <1>1 DEF FilesInv
<1>2. CASE c # d
  BY <1>2 DEF FilesInv
<1> QED
  BY <1>1, <1>2

LEMMA KeepStep ==
  ASSUME FilesInv, NEW d \in Devices, hw' = hw,
         \A c \in Devices \ {d} : pc'[c] = pc[c] /\ xdev'[c] = xdev[c],
         SamePlace(pc[d], xdev[d], pc'[d], xdev'[d])
  PROVE  FilesInv'
<1>1. PlaceInv(pc[d], xdev[d], hw[d].bars)
  BY DEF FilesInv
<1>2. PlaceInv(pc'[d], xdev'[d], hw[d].bars)
  BY <1>1, PlaceKept
<1> QED
  BY <1>2, PlaceStep

\* The steps before map_bars and the whole of the unwinding.
LEMMA FilesElsewhere ==
  ASSUME DeviceInv, FilesInv, NEW d \in Devices,
         \/ ProbeOne(d) \/ AllocDevInstance(d) \/ ListAdd(d) \/ EnableDevice(d)
         \/ RequestRegions(d) \/ Unwinding(d)
  PROVE  FilesInv'
<1>1. /\ DOMAIN pc = Devices /\ DOMAIN xdev = Devices
      /\ pc = [c \in Devices |-> pc[c]] /\ xdev = [c \in Devices |-> xdev[c]]
  BY DEF DeviceInv, FrameInv
<1>2. hw' = hw
  BY DEF ProbeOne, AllocDevInstance, ListAdd, EnableDevice, RequestRegions, Unwinding, RemoveOne,
     DestroyInterfaces, DeviceClose, DisableMsi, RemoveEngines, UnmapBars, ReleaseRegions,
     DisableDevice, ListRemove, FreeXdev, FreeXpdev
<1>3. \A c \in Devices \ {d} : xdev'[c] = xdev[c]
  BY <1>1 DEF ProbeOne, AllocDevInstance, ListAdd, EnableDevice, RequestRegions, Unwinding,
     RemoveOne, DestroyInterfaces, DeviceClose, DisableMsi, RemoveEngines, UnmapBars,
     ReleaseRegions, DisableDevice, ListRemove, FreeXdev, FreeXpdev
<1>4. /\ \A c \in Devices \ {d} : pc'[c] = pc[c]
      /\ pc'[d] \notin PlacedAt
  <2>1. CASE ProbeOne(d)
    BY <1>1, <2>1 DEF ProbeOne, Goto, PlacedAt
  <2>2. CASE AllocDevInstance(d) \/ ListAdd(d) \/ EnableDevice(d) \/ RequestRegions(d)
    <3>1. \E ok : Continue(d, ok)
      BY <2>2, Zenon DEF AllocDevInstance, ListAdd, EnableDevice, RequestRegions
    <3>2. /\ pc[d] \in {"alloc", "list_add", "enable", "regions"}
          /\ \A p \in {"alloc", "list_add", "enable", "regions"} :
               OpenNext[p] \notin PlacedAt /\ OpenError[p] \notin PlacedAt
      <4>1. pc[d] \in {"alloc", "list_add", "enable", "regions"}
        BY <2>2 DEF AllocDevInstance, ListAdd, EnableDevice, RequestRegions
      <4>2. /\ OpenNext["alloc"] = "list_add" /\ OpenError["alloc"] = "free_xpdev"
            /\ OpenNext["list_add"] = "enable" /\ OpenError["list_add"] = "free_xdev"
            /\ OpenNext["enable"] = "regions" /\ OpenError["enable"] = "err_enable"
            /\ OpenNext["regions"] = "map_bars" /\ OpenError["regions"] = "err_regions"
        BY DEF OpenNext, OpenError
      <4> QED
        BY <4>1, <4>2 DEF PlacedAt
    <3> QED
      BY <1>1, <3>1, <3>2 DEF Continue, Goto
  <2>3. CASE Unwinding(d)
    <3>1. \E q \in Removing \cup Idle : pc' = [pc EXCEPT ![d] = q]
      <4>1. CASE RemoveEngines(d)
        <5>1. pc[d] = "err_engines" /\ (pc' = pc \/ pc' = [pc EXCEPT ![d] = "err_mask"])
          BY <4>1 DEF RemoveEngines, Goto
        <5>2. pc = [pc EXCEPT ![d] = pc[d]]
          BY <1>1
        <5> QED
          BY <5>1, <5>2 DEF Removing
      <4>2. CASE ~RemoveEngines(d)
        BY <2>3, <4>2 DEF Unwinding, RemoveOne, DestroyInterfaces, DeviceClose, DisableMsi,
           UnmapBars, ReleaseRegions, DisableDevice, ListRemove, FreeXdev, FreeXpdev,
           Goto, Removing, Idle
      <4> QED
        BY <4>1, <4>2
    <3>2. (Removing \cup Idle) \cap PlacedAt = {}
      BY DEF Removing, Idle, PlacedAt
    <3> QED
      BY <1>1, <3>1, <3>2
  <2> QED
    BY <2>1, <2>2, <2>3
<1>5. SamePlace(pc[d], xdev[d], pc'[d], xdev'[d])
  BY <1>4 DEF SamePlace, PlacedAt, BoundAt
<1> QED
  BY <1>2, <1>3, <1>4, <1>5, KeepStep

LEMMA FilesMapBars ==
  ASSUME DeviceInv, FilesInv, NEW d \in Devices, MapBars(d)
  PROVE  FilesInv'
<1> DEFINE bars == hw[d].bars
           ids == BarIds(bars)
           id  == IdentifyBars(ids, ConfigBarPos(bars))
<1>1. /\ DOMAIN pc = Devices /\ DOMAIN xdev = Devices
      /\ pc = [c \in Devices |-> pc[c]] /\ xdev = [c \in Devices |-> xdev[c]]
  BY DEF DeviceInv, FrameInv
<1>2. hw' = hw /\ pc[d] = "map_bars" /\ xdev[d] \in XdevType
  BY CardAt DEF MapBars, CardInv
<1>3. OpenNext["map_bars"] = "dma_mask" /\ OpenError["map_bars"] = "err_map"
  BY DEF OpenNext, OpenError
<1>4. PICK ok \in IF ConfigBars(bars) = {} THEN {FALSE} ELSE Result("map_bars") :
           /\ Continue(d, ok)
           /\ IF ok
              THEN /\ Take(d, {<<"bar", i>> : i \in ids})
                   /\ xdev' = [xdev EXCEPT ![d].bar = ids, ![d].user_bar = id[1],
                                           ![d].bypass_bar = id[2]]
              ELSE UNCHANGED <<held, xdev>>
  BY DEF MapBars
<1> HIDE DEF ids, id
<1>5. \A c \in Devices \ {d} : pc'[c] = pc[c] /\ xdev'[c] = xdev[c]
  BY <1>1, <1>4 DEF Continue, Goto
<1>6. PlaceInv(pc'[d], xdev'[d], bars)
  <2>1. CASE ok
    <3>1. pc'[d] = "dma_mask" /\ ConfigBars(bars) # {}
      BY <1>1, <1>2, <1>3, <1>4, <2>1 DEF Continue, Goto
    <3>2. xdev'[d] = [xdev[d] EXCEPT !.bar = ids, !.user_bar = id[1], !.bypass_bar = id[2]]
      BY <1>1, <1>4, <2>1
    <3>3. xdev'[d].user_bar = id[1] /\ xdev'[d].bypass_bar = id[2]
      BY <1>2, <3>2 DEF XdevType
    <3> QED
      BY <3>1, <3>3 DEF PlaceInv, id, ids
  <2>2. CASE ~ok
    <3>1. pc'[d] = "err_map"
      BY <1>1, <1>2, <1>3, <1>4, <2>2 DEF Continue, Goto
    <3> QED
      BY <3>1 DEF PlaceInv, PlacedAt
  <2> QED
    BY <2>1, <2>2
<1> QED
  BY <1>2, <1>5, <1>6, PlaceStep

\* A probe past map_bars.
LEMMA FilesProbe ==
  ASSUME DeviceInv, FilesInv, NEW d \in Devices,
         SetDmaMask(d) \/ ProbeForEngine(d) \/ EnableMsi(d) \/ IrqSetup(d) \/ UserIsrEnable(d)
  PROVE  FilesInv'
<1>1. /\ DOMAIN pc = Devices /\ DOMAIN xdev = Devices
      /\ pc = [c \in Devices |-> pc[c]] /\ xdev = [c \in Devices |-> xdev[c]]
  BY DEF DeviceInv, FrameInv
<1>2. CardInv(pc[d], xdev[d], held[d], regs[d], hw[d], poll_mode) /\ xdev[d] \in XdevType
  BY CardAt DEF CardInv
<1>3. hw' = hw
  BY DEF SetDmaMask, ProbeForEngine, EnableMsi, IrqSetup, UserIsrEnable
<1>4. \A c \in Devices \ {d} : xdev'[c] = xdev[c]
  BY <1>1 DEF SetDmaMask, ProbeForEngine, EnableMsi, IrqSetup, UserIsrEnable
<1>5. /\ xdev'[d].user_bar = xdev[d].user_bar /\ xdev'[d].bypass_bar = xdev[d].bypass_bar
      /\ xdev'[d].flags = xdev[d].flags
  <2>1. CASE SetDmaMask(d)
    BY <2>1 DEF SetDmaMask
  <2>2. CASE ProbeForEngine(d)
    BY <1>1, <1>2, <2>2 DEF ProbeForEngine, XdevType
  <2>3. CASE EnableMsi(d)
    BY <1>1, <1>2, <2>3 DEF EnableMsi, XdevType
  <2>4. CASE IrqSetup(d)
    <3>1. PICK ok, irqs : xdev' = [xdev EXCEPT ![d] = [WithIrqs(@, irqs) EXCEPT !.offline = ~ok]]
      BY <2>4, Zenon DEF IrqSetup
    <3> DEFINE z == WithIrqs(xdev[d], irqs)
    <3>2. xdev'[d] = [z EXCEPT !.offline = ~ok]
      BY <1>1, <3>1
    <3>3. /\ z.user_bar = xdev[d].user_bar /\ z.bypass_bar = xdev[d].bypass_bar
          /\ z.flags = xdev[d].flags /\ {"user_bar", "bypass_bar", "flags"} \subseteq DOMAIN z
      BY <1>2 DEF WithIrqs, XdevType
    <3> HIDE DEF z
    <3> QED
      BY <3>2, <3>3
  <2>5. CASE UserIsrEnable(d)
    BY <1>1, <1>2, <2>5 DEF UserIsrEnable, XdevType
  <2> QED
    BY <2>1, <2>2, <2>3, <2>4, <2>5
<1>6. /\ \A c \in Devices \ {d} : pc'[c] = pc[c]
      /\ pc[d] \in PlacedAt /\ pc'[d] \notin BoundAt
      /\ pc'[d] = "files" => pc[d] = "isr_enable"
  <2>1. CASE UserIsrEnable(d)
    BY <1>1, <2>1 DEF UserIsrEnable, Goto, PlacedAt, BoundAt
  <2>2. CASE ~UserIsrEnable(d)
    <3>1. pc[d] \in {"dma_mask", "h2c", "c2h", "msi", "irq"}
      BY <2>2 DEF SetDmaMask, ProbeForEngine, EnableMsi, IrqSetup, Directions
    <3>2. pc' = pc \/ \E ok : (~ok => pc[d] \in {"dma_mask", "msi", "irq"}) /\ Continue(d, ok)
      <4>1. CASE ProbeForEngine(d)
        BY <4>1, Zenon DEF ProbeForEngine
      <4>2. CASE ~ProbeForEngine(d)
        <5>1. /\ pc[d] \in {"dma_mask", "msi", "irq"}
              /\ \E ok : Continue(d, ok)
          BY <2>2, <4>2 DEF SetDmaMask, EnableMsi, IrqSetup
        <5> QED
          BY <5>1
      <4> QED
        BY <4>1, <4>2
    <3>3. /\ OpenNext["dma_mask"] = "h2c" /\ OpenError["dma_mask"] = "err_mask"
          /\ OpenNext["h2c"] = "c2h" /\ OpenNext["c2h"] = "msi"
          /\ OpenNext["msi"] = "irq" /\ OpenError["msi"] = "err_engines"
          /\ OpenNext["irq"] = "isr_enable" /\ OpenError["irq"] = "err_msix"
      BY DEF OpenNext, OpenError
    <3>4. \E q \in {"dma_mask", "h2c", "c2h", "msi", "irq", "isr_enable", "err_mask",
                    "err_engines", "err_msix"} : pc' = [pc EXCEPT ![d] = q]
      <4>1. CASE pc' = pc
        BY <1>1, <3>1, <4>1
      <4>2. ASSUME NEW ok, ~ok => pc[d] \in {"dma_mask", "msi", "irq"}, Continue(d, ok)
            PROVE  \E q \in {"dma_mask", "h2c", "c2h", "msi", "irq", "isr_enable", "err_mask",
                             "err_engines", "err_msix"} : pc' = [pc EXCEPT ![d] = q]
        BY <3>1, <3>3, <4>2 DEF Continue, Goto
      <4> QED
        BY <3>2, <4>1, <4>2
    <3> QED
      BY <1>1, <3>1, <3>4 DEF PlacedAt, BoundAt
  <2> QED
    BY <2>1, <2>2
<1>7. pc[d] = "isr_enable" => xdev[d].flags = {}
  BY <1>2 DEF CardInv, FieldInv, FilesAt, Removing
<1>8. SamePlace(pc[d], xdev[d], pc'[d], xdev'[d])
  BY <1>5, <1>6, <1>7 DEF SamePlace
<1> QED
  BY <1>3, <1>4, <1>6, <1>8, KeepStep

\* A reset changes neither the BARs nor the files.
LEMMA FilesReset ==
  ASSUME DeviceInv, Handled, FilesInv, NEW d \in Devices, Resets(d)
  PROVE  FilesInv'
<1>1. /\ DOMAIN pc = Devices /\ DOMAIN xdev = Devices
      /\ pc = [c \in Devices |-> pc[c]] /\ xdev = [c \in Devices |-> xdev[c]]
  BY DEF DeviceInv, FrameInv
<1>2. xdev[d] \in XdevType
  BY CardAt DEF CardInv
<1>3. hw' = hw
  BY DEF Resets, ErrorDetected, SlotReset, ResetPrepare, ResetDone
<1>4. /\ pc[d] \in BoundAt /\ pc'[d] \in BoundAt \cup {"dead"}
      /\ \A c \in Devices \ {d} : pc'[c] = pc[c]
  BY <1>1 DEF Resets, ErrorDetected, SlotReset, ResetPrepare, ResetDone, Goto, BoundAt
<1>5. \/ \E objs : DeviceOffline(d, objs)
      \/ \E objs : DeviceOnline(d, objs)
      \/ xdev' = xdev
  BY Zenon DEF Resets, ErrorDetected, SlotReset, ResetPrepare, ResetDone
<1>6. /\ xdev'[d].user_bar = xdev[d].user_bar /\ xdev'[d].bypass_bar = xdev[d].bypass_bar
      /\ xdev'[d].flags = xdev[d].flags
      /\ \A c \in Devices \ {d} : xdev'[c] = xdev[c]
  <2>1. ASSUME NEW objs, DeviceOffline(d, objs)
        PROVE  \E y : /\ xdev' = [xdev EXCEPT ![d] = y]
                      /\ y.user_bar = xdev[d].user_bar /\ y.bypass_bar = xdev[d].bypass_bar
                      /\ y.flags = xdev[d].flags
    <3> DEFINE y == [xdev[d] EXCEPT !.offline = TRUE, !.shutdown = xdev[d].engines]
    <3>1. xdev' = [xdev EXCEPT ![d] = y]
      BY <1>1, <2>1 DEF DeviceOffline
    <3>2. /\ y.user_bar = xdev[d].user_bar /\ y.bypass_bar = xdev[d].bypass_bar
          /\ y.flags = xdev[d].flags
      BY <1>2 DEF XdevType
    <3> HIDE DEF y
    <3> QED
      BY <3>1, <3>2
  <2>2. ASSUME NEW objs, DeviceOnline(d, objs)
        PROVE  \E y : /\ xdev' = [xdev EXCEPT ![d] = y]
                      /\ y.user_bar = xdev[d].user_bar /\ y.bypass_bar = xdev[d].bypass_bar
                      /\ y.flags = xdev[d].flags
    <3>1. PICK irqs : xdev' = [xdev EXCEPT ![d] =
                                 [(IF poll_mode THEN @ ELSE WithIrqs(@, irqs)) EXCEPT
                                   !.offline = FALSE, !.shutdown = {}]]
      BY <2>2, Zenon DEF DeviceOnline
    <3> DEFINE z == IF poll_mode THEN xdev[d] ELSE WithIrqs(xdev[d], irqs)
               y == [z EXCEPT !.offline = FALSE, !.shutdown = {}]
    <3>2. xdev' = [xdev EXCEPT ![d] = y]
      BY <1>1, <3>1
    <3>3. /\ z.user_bar = xdev[d].user_bar /\ z.bypass_bar = xdev[d].bypass_bar
          /\ z.flags = xdev[d].flags /\ DOMAIN z = DOMAIN xdev[d]
      BY <1>2 DEF WithIrqs, XdevType
    <3>4. /\ y.user_bar = xdev[d].user_bar /\ y.bypass_bar = xdev[d].bypass_bar
          /\ y.flags = xdev[d].flags
      <4> HIDE DEF z
      <4>1. {"user_bar", "bypass_bar", "flags"} \subseteq DOMAIN xdev[d]
        BY <1>2 DEF XdevType
      <4> QED
        BY <3>3, <4>1
    <3> HIDE DEF y
    <3> QED
      BY <3>2, <3>4
  <2>3. ASSUME NEW y, xdev' = [xdev EXCEPT ![d] = y],
               y.user_bar = xdev[d].user_bar, y.bypass_bar = xdev[d].bypass_bar,
               y.flags = xdev[d].flags
        PROVE  /\ xdev'[d].user_bar = xdev[d].user_bar
               /\ xdev'[d].bypass_bar = xdev[d].bypass_bar
               /\ xdev'[d].flags = xdev[d].flags
               /\ \A c \in Devices \ {d} : xdev'[c] = xdev[c]
    BY <1>1, <2>3
  <2> QED
    BY <1>5, <2>1, <2>2, <2>3
<1>7. SamePlace(pc[d], xdev[d], pc'[d], xdev'[d])
  BY <1>4, <1>6 DEF SamePlace, BoundAt, PlacedAt
<1> QED
  BY <1>3, <1>4, <1>6, <1>7, KeepStep

\* create_interfaces goes through the groups one after the other.
LEMMA FilesCreate ==
  ASSUME DeviceInv, FilesInv, NEW d \in Devices, CreateInterfaces(d)
  PROVE  FilesInv'
<1> DEFINE x == xdev[d]
           n == Cardinality(x.flags) + 1
           g == Groups(x)[n]
<1>1. /\ DOMAIN pc = Devices /\ DOMAIN xdev = Devices
      /\ pc = [c \in Devices |-> pc[c]] /\ xdev = [c \in Devices |-> xdev[c]]
  BY DEF DeviceInv, FrameInv
<1>2. hw' = hw /\ pc[d] = "files" /\ x \in XdevType
  BY CardAt DEF CreateInterfaces, CardInv
<1>3. PlaceInv("files", x, hw[d].bars)
  BY <1>2 DEF FilesInv
<1>4. /\ x.flags = FirstGroups(x, Cardinality(x.flags))
      /\ Cardinality(x.flags) \in 0 .. Len(Groups(x))
      /\ Len(Groups(x)) \in Nat
  BY <1>3, GroupList DEF PlaceInv
<1>5. CASE n > Len(Groups(x))
  <2>1. pc' = [pc EXCEPT ![d] = "bound"] /\ xdev' = xdev
    BY <1>5 DEF CreateInterfaces, Goto
  <2>2. Cardinality(x.flags) = Len(Groups(x))
    BY <1>4, <1>5
  <2>3. pc'[d] = "bound" /\ \A c \in Devices \ {d} : pc'[c] = pc[c] /\ xdev'[c] = xdev[c]
    BY <1>1, <2>1
  <2>4. PlaceInv("bound", x, hw[d].bars)
    BY <1>3, <1>4, <2>2 DEF PlaceInv, PlacedAt
  <2> QED
    BY <1>2, <2>1, <2>3, <2>4, PlaceStep
<1>6. CASE ~(n > Len(Groups(x)))
  <2>1. PICK region \in IF x.major THEN {TRUE} ELSE Result("chrdev") :
        \E made \in CASE ~region -> {{}}
                     [] region /\ "files" \in Faults -> SUBSET FilesOf(x, g)
                     [] OTHER -> {FilesOf(x, g)} :
          /\ Take(d, AsFiles(made) \cup (IF region THEN {<<"chrdev", 0>>} ELSE {}))
          /\ xdev' = [xdev EXCEPT ![d].major = region,
                       ![d].flags = IF region /\ made = FilesOf(x, g) THEN @ \cup {g} ELSE @]
          /\ Goto(d, IF region /\ made = FilesOf(x, g) THEN "files" ELSE "files_failed")
    BY <1>6 DEF CreateInterfaces
  <2>2. PICK made :
          /\ xdev' = [xdev EXCEPT ![d].major = region,
                       ![d].flags = IF region /\ made = FilesOf(x, g) THEN @ \cup {g} ELSE @]
          /\ Goto(d, IF region /\ made = FilesOf(x, g) THEN "files" ELSE "files_failed")
    BY <2>1
  <2>3. n \in 1 .. Len(Groups(x))
    BY <1>4, <1>6
  <2>4. Cardinality(x.flags) = n - 1 /\ n - 1 \in Nat
    BY <1>4
  <2> HIDE DEF n
  <2>5. g \notin x.flags
    <3>1. \A i, j \in 1 .. Len(Groups(x)) : Groups(x)[i] = Groups(x)[j] => i = j
      BY GroupList
    <3>2. x.flags = {Groups(x)[i] : i \in 1 .. n - 1}
      BY <1>4, <2>4 DEF FirstGroups
    <3>3. ASSUME NEW i \in 1 .. n - 1 PROVE Groups(x)[i] # g
      <4>1. i \in 1 .. Len(Groups(x)) /\ i # n
        BY <1>4, <2>3
      <4> QED
        BY <2>3, <3>1, <4>1
    <3> QED
      BY <3>2, <3>3
  <2>6. x.flags \cup {g} = FirstGroups(x, n)
    <3>1. 1 .. n = (1 .. n - 1) \cup {n}
      BY <1>4, <2>3
    <3>2. x.flags = {Groups(x)[i] : i \in 1 .. n - 1}
      BY <1>4, <2>4 DEF FirstGroups
    <3> QED
      BY <3>1, <3>2 DEF FirstGroups
  <2>7. Cardinality(x.flags \cup {g}) = n
    <3>1. IsFiniteSet(x.flags)
      BY <1>2, GroupNamesFinite, FS_Subset DEF XdevType
    <3>2. Cardinality(x.flags \cup {g}) = Cardinality(x.flags) + 1
      BY <2>5, <3>1, FS_AddElement
    <3> QED
      BY <2>3, <2>4, <3>2
  <2> HIDE DEF g
  <2>8. \A c \in Devices \ {d} : pc'[c] = pc[c] /\ xdev'[c] = xdev[c]
    BY <1>1, <2>2 DEF Goto
  <2>9. CASE region /\ made = FilesOf(x, g)
    <3>1. pc'[d] = "files"
      BY <1>1, <2>2, <2>9 DEF Goto
    <3>2. /\ xdev'[d].user_bar = x.user_bar /\ xdev'[d].bypass_bar = x.bypass_bar
          /\ xdev'[d].flags = x.flags \cup {g}
      BY <1>1, <1>2, <2>2, <2>9 DEF XdevType
    <3>3. Groups(xdev'[d]) = Groups(x)
      BY <3>2 DEF Groups
    <3>4. FirstGroups(xdev'[d], n) = FirstGroups(x, n)
      BY <3>3 DEF FirstGroups
    <3>5. PlaceInv("files", xdev'[d], hw[d].bars)
      BY <1>3, <2>3, <2>6, <2>7, <3>2, <3>3, <3>4 DEF PlaceInv, PlacedAt
    <3> QED
      BY <1>2, <2>8, <3>1, <3>5, PlaceStep
  <2>10. CASE ~(region /\ made = FilesOf(x, g))
    <3>1. pc'[d] = "files_failed"
      BY <1>1, <2>2, <2>10 DEF Goto
    <3>2. PlaceInv(pc'[d], xdev'[d], hw[d].bars)
      BY <3>1 DEF PlaceInv, PlacedAt
    <3> QED
      BY <1>2, <2>8, <3>2, PlaceStep
  <2> QED
    BY <2>9, <2>10
<1> QED
  BY <1>5, <1>6

LEMMA FilesStep ==
  ASSUME DeviceInv, Handled, FilesInv, [Next]_deviceVars
  PROVE  FilesInv'
<1>1. ASSUME NEW d \in Devices, Probing(d) \/ Unwinding(d) PROVE FilesInv'
  BY <1>1, FilesElsewhere, FilesMapBars, FilesProbe, FilesCreate DEF Probing
<1>2. ASSUME NEW d \in Devices, Resets(d) PROVE FilesInv'
  BY <1>2, FilesReset
<1>3. ASSUME UNCHANGED <<hw, pc, xdev>> PROVE FilesInv'
  <2> SUFFICES ASSUME NEW c \in Devices
               PROVE  hw'[c] \in Cards[c] /\ PlaceInv(pc'[c], xdev'[c], hw'[c].bars)
    BY Zenon DEF FilesInv, PlaceInv, FirstGroups, Groups
  <2> QED
    BY <1>3 DEF FilesInv
<1>4. \/ \E d \in Devices : Probing(d) \/ Unwinding(d) \/ Resets(d)
      \/ UNCHANGED <<hw, pc, xdev>>
  BY DEF Next, Open, Close, ModInit, ModExit, ModCleanup, deviceVars
<1> QED
  BY <1>1, <1>2, <1>3, <1>4

LEMMA FilesInit == Init => FilesInv
<1> SUFFICES ASSUME Init PROVE FilesInv
  OBVIOUS
<1>1. \A d \in Devices : hw[d] \in Cards[d] /\ pc[d] = "unbound"
  BY DEF Init
<1> QED
  BY <1>1 DEF FilesInv, PlaceInv, PlacedAt

\* The files a card has when its groups are made.
LEMMA FilesOfCard ==
  ASSUME NEW x, NEW h, NEW r, NEW c, NEW pm, CardInv("bound", x, h, r, c, pm),
         x.flags = FirstGroups(x, Len(Groups(x)))
  PROVE  /\ <<"file", <<"user", 0>>>> \in h <=> x.user_bar >= 0
         /\ <<"file", <<"xvc", 0>>>> \in h <=> x.user_bar >= 0
         /\ <<"file", <<"bypass", 0>>>> \in h <=> x.bypass_bar > 0
         /\ \A e \in Engines : <<"file", e>> \in h <=> <<"desc", e>> \in h
<1>1. /\ x.flags = {"CTRL", "EVENT", "SG"} \cup When(x.bypass_bar > 0, {"BYPASS"})
                                           \cup When(x.user_bar >= 0, {"USER", "XVC"})
      /\ x.engines \in SUBSET Engines /\ x.flags \in SUBSET GroupNames
  BY GroupList DEF CardInv, XdevType
<1>2. \A f : <<"file", f>> \in h <=> \E g \in x.flags : f \in FilesOf(x, g)
  <2>1. FileObjs(x) \subseteq h
    BY DEF CardInv, HeldSet, When, FilesAt
  <2>2. \A f : <<"file", f>> \in h => <<"file", f>> \in FileObjs(x)
    BY Kinds DEF CardInv, HeldSet, When
  <2>3. \A f : <<"file", f>> \in FileObjs(x) <=> \E g \in x.flags : f \in FilesOf(x, g)
    BY DEF FileObjs, AsFiles
  <2> QED
    BY <2>1, <2>2, <2>3
<1>3. /\ FilesOf(x, "USER") = {<<"user", 0>>} /\ FilesOf(x, "XVC") = {<<"xvc", 0>>}
      /\ <<"bypass", 0>> \in FilesOf(x, "BYPASS") /\ FilesOf(x, "SG") = x.engines
  BY DEF FilesOf
<1>4. ASSUME NEW g \in GroupNames, NEW f \in FilesOf(x, g)
      PROVE  /\ f[1] = "user" => g = "USER"
             /\ f[1] = "xvc" => g = "XVC"
             /\ f[1] = "bypass" => g = "BYPASS"
  <2>1. CASE g = "SG"
    BY <1>1, <1>4, <2>1 DEF FilesOf, Engines, Directions
  <2>2. CASE g = "BYPASS"
    <3>1. (\E e \in x.engines : f = <<Bypass[e[1]], e[2]>>) \/ f = <<"bypass", 0>>
      BY <1>4, <2>2 DEF FilesOf
    <3>2. \A e \in x.engines : Bypass[e[1]] \in {"bypass_h2c", "bypass_c2h"}
      BY <1>1 DEF Engines, Directions, Bypass
    <3> QED
      BY <2>2, <3>1, <3>2
  <2>3. CASE g \in {"CTRL", "EVENT", "USER", "XVC"}
    BY <1>4, <2>3 DEF FilesOf
  <2> QED
    BY <2>1, <2>2, <2>3 DEF GroupNames
<1>5. /\ "USER" \in x.flags <=> x.user_bar >= 0
      /\ "XVC" \in x.flags <=> x.user_bar >= 0
      /\ "BYPASS" \in x.flags <=> x.bypass_bar > 0
      /\ "SG" \in x.flags
  BY <1>1 DEF When
<1>6. /\ <<"file", <<"user", 0>>>> \in h <=> x.user_bar >= 0
      /\ <<"file", <<"xvc", 0>>>> \in h <=> x.user_bar >= 0
      /\ <<"file", <<"bypass", 0>>>> \in h <=> x.bypass_bar > 0
  <2>1. <<"user", 0>>[1] = "user" /\ <<"xvc", 0>>[1] = "xvc" /\ <<"bypass", 0>>[1] = "bypass"
    OBVIOUS
  <2>2. <<"file", <<"user", 0>>>> \in h <=> "USER" \in x.flags
    BY <1>1, <1>2, <1>3, <1>4, <2>1
  <2>3. <<"file", <<"xvc", 0>>>> \in h <=> "XVC" \in x.flags
    BY <1>1, <1>2, <1>3, <1>4, <2>1
  <2>4. <<"file", <<"bypass", 0>>>> \in h <=> "BYPASS" \in x.flags
    BY <1>1, <1>2, <1>3, <1>4, <2>1
  <2> QED
    BY <1>5, <2>2, <2>3, <2>4
<1>7. ASSUME NEW e \in Engines
      PROVE  <<"file", e>> \in h <=> <<"desc", e>> \in h
  <2>1. e \in x.engines => <<"file", e>> \in h /\ <<"desc", e>> \in h
    BY <1>2, <1>3, <1>5, EngineHasDesc
  <2>2. ASSUME <<"file", e>> \in h PROVE e \in x.engines
    <3>1. PICK g \in x.flags : e \in FilesOf(x, g)
      BY <1>2, <2>2
    <3>2. EngineOf(e) \subseteq x.engines
      BY <1>1, <3>1, EngineOfFile
    <3>3. EngineOf(e) = {e}
      BY DEF EngineOf, Engines, Directions
    <3> QED
      BY <3>2, <3>3
  <2>3. ASSUME <<"desc", e>> \in h PROVE e \in x.engines
    <3>1. <<"desc", e>> \in EngineObjs(x, pm)
      BY <2>3, Kinds DEF CardInv, HeldSet, When
    <3>2. e \in x.engines
      <4>1. PICK f \in x.engines : <<"desc", e>> \in EngineMem(f, pm)
        BY <3>1 DEF EngineObjs
      <4>2. <<"desc", e>> = <<"desc", f>> \/ <<"desc", e>> = <<"wb", f>>
        BY <4>1 DEF EngineMem, When
      <4> QED
        BY <4>2
    <3> QED
      BY <3>2
  <2> QED
    BY <2>1, <2>2, <2>3
<1> QED
  BY <1>6, <1>7

LEMMA InvFilesMatchCard ==
  ASSUME StandardCards, DeviceInv, FilesInv
  PROVE  FilesMatchCard
<1> SUFFICES ASSUME NEW d \in Devices, pc[d] = "bound"
             PROVE  LET HasBar(kind) == \E i \in 0 .. 5 : hw[d].bars[i] = kind
                        HasFile(f)   == <<"file", f>> \in held[d]
                    IN  /\ HasFile(<<"user", 0>>) <=> HasBar("user")
                        /\ HasFile(<<"xvc", 0>>) <=> HasBar("user")
                        /\ HasFile(<<"bypass", 0>>) <=> HasBar("bypass")
                        /\ HasBar("user") => hw[d].bars[xdev[d].user_bar] = "user"
                        /\ HasBar("bypass") => hw[d].bars[xdev[d].bypass_bar] = "bypass"
                        /\ \A e \in Engines : HasFile(e) <=> <<"desc", e>> \in held[d]
  BY DEF FilesMatchCard
<1> DEFINE bars == hw[d].bars
           id == IdentifyBars(BarIds(bars), ConfigBarPos(bars))
<1>1. CardInv("bound", xdev[d], held[d], regs[d], hw[d], poll_mode)
  BY EveryCard
<1>2. hw[d] \in Cards[d] /\ PlaceInv("bound", xdev[d], bars)
  BY DEF FilesInv
<1>3. /\ ConfigBars(bars) # {} /\ xdev[d].user_bar = id[1] /\ xdev[d].bypass_bar = id[2]
      /\ xdev[d].flags = FirstGroups(xdev[d], Len(Groups(xdev[d])))
  BY <1>2 DEF PlaceInv, PlacedAt
<1>4. StandardBars(bars)
  BY <1>2, <1>3 DEF StandardCards
<1>5. Names(id, bars)
  BY <1>4, Identified
<1>6. /\ <<"file", <<"user", 0>>>> \in held[d] <=> xdev[d].user_bar >= 0
      /\ <<"file", <<"xvc", 0>>>> \in held[d] <=> xdev[d].user_bar >= 0
      /\ <<"file", <<"bypass", 0>>>> \in held[d] <=> xdev[d].bypass_bar > 0
      /\ \A e \in Engines : <<"file", e>> \in held[d] <=> <<"desc", e>> \in held[d]
  BY <1>1, <1>3, FilesOfCard
<1> HIDE DEF id
<1> QED
  BY <1>3, <1>5, <1>6 DEF Names
-----------------------------------------------------------------------------
(***************************************************************************)
(* The properties of the life of the cards, after any failure and event    *)
(* the driver handles.                                                     *)
(***************************************************************************)

\* A failed probe and a remove give everything back (xdma_device_open's
\* labels, xdma_device_close, xpdev_free), and so does unloading the module.
THEOREM NothingIsLeft ==
  ASSUME Handled
  PROVE  Spec => []NothingLeft
BY DeviceInvariant, InvNothingLeft, PTL

\* No path (error label, remove, offline, remove after a reset) gives back
\* what is not held.
THEOREM NoneReturnedTwice ==
  ASSUME Handled
  PROVE  Spec => []NothingReturnedTwice
<1>1. DeviceInv => NothingReturnedTwice
  BY DEF DeviceInv, NothingReturnedTwice
<1> QED
  BY <1>1, DeviceInvariant, PTL

\* Every handler, engine, mapping and file rests on what it needs, in every
\* state of set-up and tear-down.
THEOREM HeldRestsOnNeeds ==
  ASSUME Handled
  PROVE  Spec => []HeldInOrder
BY DeviceInvariant, InvHeldInOrder, PTL

\* xdev_list_add never gives the index of a listed card again.
THEOREM IdxAreDistinct ==
  ASSUME Handled
  PROVE  Spec => []DistinctIdx
BY DeviceInvariant, InvDistinctIdx, PTL

\* In polled mode every engine is served by exactly one running thread and
\* no thread has an engine that is gone (xdma_thread_add_work,
\* xdma_thread_remove_work).
THEOREM EnginesArePolled ==
  ASSUME Handled
  PROVE  Spec => []EveryEnginePolled
BY DeviceInvariant, InvEveryEnginePolled, PTL

\* A card that is online is programmed and has its handlers, a card that is
\* offline has none, after any number of resets (xdma_device_offline,
\* xdma_device_online).
THEOREM OnlineCardsReady ==
  ASSUME Handled
  PROVE  Spec => []OnlineIsReady
BY DeviceInvariant, InvOnlineIsReady, PTL

\* An open device file has its card and its engine.
THEOREM OpenFilesUsable ==
  ASSUME Handled
  PROVE  Spec => []OpenFileUsable
BY DeviceInvariant, InvOpenFileUsable, PTL

\* The files of a bound card are those of its hardware, whatever the BAR
\* numbers, for every layout of BARs the comment of identify_bars names and
\* after any number of resets (identify_bars, xpdev_create_interfaces).
THEOREM FilesAreThoseOfTheCard ==
  ASSUME Handled, StandardCards
  PROVE  Spec => []FilesMatchCard
<1>1. DeviceInv /\ FilesInv /\ [Next]_deviceVars => DeviceInv' /\ FilesInv'
  BY DeviceStep, FilesStep
<1>2. DeviceInv /\ FilesInv => FilesMatchCard
  BY InvFilesMatchCard
<1> QED
  BY <1>1, <1>2, DeviceInit, FilesInit, PTL DEF Spec
=============================================================================
