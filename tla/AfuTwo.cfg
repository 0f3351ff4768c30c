SPECIFICATION Spec
CONSTANTS
  Handles = {h1, h2}
  Pasids = {p1, p2}
  Addrs = {a1, a2}
  MaxFd = 6
  MaxIrqs = 0
  MaxMmios = 1
  INITIAL_IRQ_COUNT = 1
  INITIAL_MMIO_COUNT = 1
  UINT16_RANGE = 65536
  NULL = NULL
  MAP_FAILED = MAP_FAILED
  UINT32_MAX = UINT32_MAX
VIEW NoHeap
SYMMETRY Symmetry
CHECK_DEADLOCK FALSE
INVARIANTS DescriptorLedger ContextsAreHeld PerPasidIsAttached
PROPERTY ImplementsContextPool
