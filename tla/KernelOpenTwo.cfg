CONSTANTS
  Conns = {1, 2}
  Peers = {"p1"}
  Opens = {"o1", "o2"}
  Accepts = {}
  Listeners = {}
  ListenPort <- MCListenPort
  FirstEph = 2
  LastPort = 3
  BacklogLen = 2
  KoutLen = 4
  Retries = 1
  Kinds = {"SYN_ACK", "RST"}
  PeerTs <- TsAlways
  PeerHash <- MCPeerHash
  NicFails = FALSE
  NoConn = NoConn
SPECIFICATION LiveSpec
CHECK_DEADLOCK FALSE
PROPERTIES OpensAnswered
