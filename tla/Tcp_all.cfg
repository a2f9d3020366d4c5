\* Packets: a server and a remote; the buffer holds one packet and a byte.
\* Table: two remotes; three or four of everything.
CONSTANTS
  s = s  r = r  t = t
  Servers <- OneServer
  Remotes <- OneRemote
  NoConn = NoConn
  Lengths <- OneByte
  MinCmdPacketLength = 5
  MaxCacheBufferLength = 6
  MaxPackets = 3
  MaxCloses = 1
  Callers <- TwoRemotes
  Server = Server
  Listener = Listener
  Nobody = Nobody
  NumFds = 4
  NumSlots = 3
  InFront <- NoneOrTwo
  MaxFailures = 2
SPECIFICATION MCSpec
INVARIANTS PacketsHandledOnce SlotsAreOwned
PROPERTIES ClosedByPeer FollowsPeers
CHECK_DEADLOCK FALSE
