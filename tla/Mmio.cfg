SPECIFICATION Spec
CONSTANTS
  HALF = 16
  PAGE_SIZE = 4
  Length <- AreaLengths
  MaxMmios = 2
  INITIAL_MMIO_COUNT = 2
  UINT16_RANGE = 65536
  Requests <- SomeSizes
  Values <- SomeValues
INVARIANTS TypeOK RegionsInArea AccessesEndInRegion ReadsAreFaithful HandlesStandForTheirArea
