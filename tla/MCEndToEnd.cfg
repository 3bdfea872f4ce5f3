SPECIFICATION MainSpec
CONSTANTS
  a1 = a1 cb1 = cb1 cb2 = cb2
  Packets <- MCPackets
  Addrs = {a1}
  Cbs = {cb1, cb2}
  NoAddr = NoAddr
  NullPacket = NullPacket
  NoCb = NoCb
  EmptyBuffer = EmptyBuffer
  RcvBuf = 1
  Disciplined = FALSE
  MaxSends = 8
  MaxAccepts = 8
  TotalTx = 17
  WriteSize = 5
  TxAvailable = 3
  Server = a1
  WriteCb = cb1
  RemoteOther = a1
  RemoteCb = cb2
INVARIANTS InPattern Accounted
PROPERTIES NoOverflow Quiet
CHECK_DEADLOCK FALSE
