SPECIFICATION Spec
CONSTANTS
  SeqMod = 16
  LenMod = 3
  TxLen = 1
  RxLen = 5
  MSS = 2
  ArxLen = 2
  AtxLen = 1
  TxChunks = {1}
  RxChunks = {1, 2, 4}
  LocalIsn = 3
  RemoteIsn = 13
  Offsets <- RxOffsets
  Lens = {0, 1, 2}
  Acks = {0}
  Windows = {2}
  MaxRcvd = 7
  MaxSend = 0
  MaxCredit = 2
INVARIANTS
  RxNoOverrun
  TypeOK
  OooInWindow
  RxContent
PROPERTIES
  WindowNeverShrinks
