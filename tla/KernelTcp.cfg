CONSTANTS
  Conns = {1, 2}
  Peers = {"p1"}
  Opens = {"o1"}
  Accepts = {"a1", "a2"}
  Listeners = {"l1"}
  ListenPort <- MCListenPort
  FirstEph = 2
  LastPort = 3
  BacklogLen = 2
  KoutLen = 2
  Retries = 1
  Kinds = {"SYN", "SYN_ACK"}
  PeerTs <- TsSome
  PeerHash <- MCPeerHash
  NicFails = TRUE
  NoConn = NoConn
SPECIFICATION Spec
CHECK_DEADLOCK FALSE
INVARIANTS ConnsSound TimeoutHitsHandshake
PROPERTIES AnswersRequests
