CONSTANTS
  a = a
  b = b
  Peers = {a, b}
  Steps = {"step5b", "step6b"}
  KeepaliveInterval = 1
  PeerTimeout = 1
  Hosts = {b}
  Packets = {d1}
  Faults <- Divided
  MaxLag = 0
  MaxLost = 0
  NetCap = 2
  TestCap = 1
  SocketCap = 1
SPECIFICATION SafeSpec
INVARIANTS DeadOnlyAfterSilence SilenceReportedInTime DeliveredWasSent VpnInv
CHECK_DEADLOCK FALSE
