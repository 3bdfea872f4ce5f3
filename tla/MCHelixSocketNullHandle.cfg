SPECIFICATION Spec
CONSTANTS
  p1 = p1 p2 = p2 a1 = a1 cb1 = cb1 cb2 = cb2
  Packets = {p1}
  Addrs = {a1}
  Cbs = {cb1}
  NoAddr = NoAddr
  NullPacket = NullPacket
  NoCb = NoCb
  EmptyBuffer = EmptyBuffer
  RcvBuf = 1
  Disciplined = FALSE
  MaxSends = 1
  MaxAccepts = 1
INVARIANT NoNullUpcall
