\* Liveness of the parts of the fast path, the library and the sockets; two
\* threads with more descriptors than the handle table has entries.
CONSTANTS
  Threads = {"t1", "t2"}
  NFds = 5
  MaxSock = 3
  Addrs = {"a1", "a2"}
  Nil = Nil
SPECIFICATION MCSpec
CHECK_DEADLOCK FALSE
INVARIANT DescriptorsSound
PROPERTIES FlowsServed CoresStartAndStop TransfersEnd SocketsServed
