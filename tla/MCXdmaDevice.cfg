\* Two cards, the first of five kinds, both modes, every failure the driver unwinds.
CONSTANTS
  First = First
  Second = Second
  Devices <- MCDevices
  Cards <- MCCards
  XDMA_CHANNEL_NUM_MAX = 1
  MAX_USER_IRQ = 1
  CPUs = 2
  PollModes = {TRUE, FALSE}
  MaxIdx = 1
  MaxOpen = 1
  Faults = {"oom", "class", "enable", "regions", "map_bars", "dma_mask", "engine",
            "msi", "line_irq", "chrdev", "unplug"}
SPECIFICATION Spec
INVARIANTS
  NothingLeft
  NothingReturnedTwice
  HeldInOrder
  DistinctIdx
  EveryEnginePolled
  OnlineIsReady
  FilesMatchCard
  OpenFileUsable
