CONSTANTS
  a = a
  b = b
  Peers = {a, b}
  Steps = {"step5b", "step6b"}
  KeepaliveInterval = 5
  PeerTimeout = 15
  Hosts = {b}
  Packets = {}
  Faults <- Crashes
  MaxLag = 0
  MaxLost = 1
  NetCap = 1
  TestCap = 0
  SocketCap = 1
SPECIFICATION Spec
PROPERTIES NoFalseTimeout DeadPeerNoticed PeersReconnect
