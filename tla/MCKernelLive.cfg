\* Liveness of the kernel's parts.
CONSTANTS
  NoConn = NoConn
  Nil = Nil
SPECIFICATION Spec
CHECK_DEADLOCK FALSE
PROPERTIES HandshakesEnd WaitsEnd StallEnds KernelServed
