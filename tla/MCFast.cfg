\* Safety of the fast path's parts; every input of the sequence arithmetic with
\* four-bit sequence numbers.
CONSTANTS
  SeqMod = 16
  LenMod = 5
  TxLen = 5
  RxLen = 4
  Nil = Nil
  q1 = q1
  q2 = q2
  r1 = r1
  r2 = r2
  r3 = r3
  Batch = 2
  CacheSize = 3
  KernelMax = 1
  Contexts = 1
  TxBufs = 4
  RxBufs = 1
  Ring = 2
  ObjContexts = {"c0", "c1"}
  ObjLen = 4
  ObjSizes = {1, 3}
  ObjFill = 3
  ObjApart = FALSE
  WinLen = 8
  WinMss = 3
  WinRoom = 2
  WinUnread = 6
  WinQueue = 2
  WinLossy = TRUE
SYMMETRY Symmetric
SPECIFICATION MCSpec
INVARIANTS ArithmeticExact FlowsSteered BuffersOwned ReceiveBuffersSound
PROPERTIES QueuesListed ObjectsSent
