\* Safety of the socket layer's parts: two epolls, two sockets, every kind of
\* timeout.
CONSTANTS
  Threads = {"t1", "t2"}
  Epolls = {"e1", "e2"}
  Socks = {"s1", "s2"}
  Receivers <- MCReceivers
  Events = {"in", "out"}
  Err = "err"
  MaxEvents = 1
  Timeouts <- MCTimeouts
  Nil = Nil
SPECIFICATION MCSpec
INVARIANTS EventsKept DataExact ConnectionsKept
