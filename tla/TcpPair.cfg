SPECIFICATION Spec
CONSTANTS
  SeqMod = 32
  LenMod = 4
  TxLen = 4
  RxLen = 3
  MSS = 2
  ArxA = 0
  ArxB = 0
  AtxLen = 1
  TxChunks = {1, 3}
  RxChunks = {}
  IsnA = 31
  IsnB = 5
  SendA = 3
  SendB = 1
  NetCap = 2
  MaxCredit = 1
INVARIANTS
  StreamIntact
  AckedIsReceived
CHECK_DEADLOCK FALSE
