SPECIFICATION FairSpec
CONSTANTS
  MaxIrqs = 2
  MaxOwed = 2
  MaxFaults = 2
  MaxEventCount = 3
  INITIAL_IRQ_COUNT = 2
  UINT16_RANGE = 65536
  OCXL = OCXL
INVARIANTS TypeOK InterruptsAccounted NeverBlocks LeftOutOnlyWhenFull
PROPERTY IrqsAreCollected
