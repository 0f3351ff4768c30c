SPECIFICATION FairSpec
CONSTANTS
  Handles = {h1}
  Pasids = {p1}
  Addrs = {a1, a2, a3}
  MaxFd = 6
  MaxIrqs = 3
  MaxMmios = 2
  INITIAL_IRQ_COUNT = 1
  INITIAL_MMIO_COUNT = 1
  UINT16_RANGE = 65536
  NULL = NULL
  MAP_FAILED = MAP_FAILED
  UINT32_MAX = UINT32_MAX
CHECK_DEADLOCK FALSE
INVARIANTS DescriptorLedger MappingLedger IrqLedger HeapLedger TablesHoldTheirEntries
PROPERTY CloseReturnsContext
