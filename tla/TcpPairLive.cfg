SPECIFICATION FairSpec
CONSTANTS
  SeqMod = 32
  LenMod = 5
  TxLen = 3
  RxLen = 3
  MSS = 1
  AtxLen = 1
  TxChunks = {2}
  RxChunks = {}
  ArxA = 2
  ArxB = 2
  IsnA = 31
  IsnB = 5
  SendA = 2
  SendB = 0
  NetCap = 2
  MaxCredit = 2
PROPERTIES
  SentIsDelivered
CHECK_DEADLOCK FALSE
