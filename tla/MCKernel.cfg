\* Safety of the kernel's parts.
CONSTANTS
  Nil = Nil
  NumCores = 2
  RxLen = 2
  TxLen = 2
  Threads = {"main", "tap"}
  Payloads = {1}
  MemThreads = {"main", "ux"}
  MemSize = 5
  Lengths = {1, 3}
  MaxHandles = 4
SPECIFICATION MCSpec
INVARIANTS
  FlowsFound MemoryPartitioned TimeoutsExact ResolutionsSound AppsRegistered RingsInOrder
PROPERTY RatesBounded
