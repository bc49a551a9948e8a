SPECIFICATION Spec
CONSTANTS
  SeqMod = 16
  LenMod = 6
  TxLen = 4
  RxLen = 3
  MSS = 2
  ArxLen = 1
  AtxLen = 1
  TxChunks = {1, 2}
  RxChunks = {1}
  LocalIsn = 14
  RemoteIsn = 3
  Offsets = {0}
  Lens = {0}
  Acks <- AckOffsets
  Windows = {0, 1, 3}
  MaxRcvd = 0
  MaxSend = 5
  MaxCredit = 3
INVARIANTS
  NoEarlyTxBump
  TxNoReuse
  TxContent
  QmanCovers
