SPECIFICATION Spec
CONSTANTS
  Threads = {t1, t2}
  NoThread = NoThread
  Environments <- ErrorsOnly
  Asked <- TracingOnly
  MaxEnables = 1
  NumDevs = 2
  Entry <- TwoCards
  Capacity <- OneEach
  Others = {o1}
  ANY = ANY
  Requests <- ByNameOrCard
INVARIANT NoDevAfterAll
