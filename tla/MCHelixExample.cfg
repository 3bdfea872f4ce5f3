SPECIFICATION MainSpec
CONSTANTS
  p1 = p1 p2 = p2 client = client server = server cb1 = cb1
  Packets = {p1, p2}
  Addrs = {client, server}
  Cbs = {cb1}
  NoAddr = NoAddr
  NullPacket = NullPacket
  NoCb = NoCb
  EmptyBuffer = EmptyBuffer
  RcvBuf = 1
  Disciplined = FALSE
  MaxSends = 1
  MaxAccepts = 1
  Other = server
  ReadCb = cb1
  RemoteOther = client
  RemoteCb = cb1
INVARIANTS OnTime Accounted
PROPERTY AllSettled
CHECK_DEADLOCK FALSE
