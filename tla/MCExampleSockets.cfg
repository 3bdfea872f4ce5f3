SPECIFICATION ExampleSpec
CONSTANTS
  p1 = p1 p2 = p2 a1 = a1 cb1 = cb1
  Packets = {p1, p2}
  Addrs = {a1}
  Cbs = {cb1}
  NoAddr = NoAddr
  NullPacket = NullPacket
  NoCb = NoCb
  EmptyBuffer = EmptyBuffer
  RcvBuf = 2
  Disciplined = FALSE
  MaxSends = 1
  MaxAccepts = 3
  Other = a1
  ReadCb = cb1
INVARIANTS NoNullUpcall ReadsAll
PROPERTIES QuietOnceClosed Finishes
CHECK_DEADLOCK FALSE
