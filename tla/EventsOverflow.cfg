SPECIFICATION Spec
CONSTANTS
  MaxIrqs = 2
  MaxOwed = 2
  MaxFaults = 2
  MaxEventCount = 2
  INITIAL_IRQ_COUNT = 2
  UINT16_RANGE = 65536
  OCXL = OCXL
INVARIANT EventsFit
