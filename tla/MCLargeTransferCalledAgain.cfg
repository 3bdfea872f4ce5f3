SPECIFICATION TransferSpec
CONSTANTS
  a1 = a1 cb1 = cb1
  Packets <- MCPackets
  Addrs = {a1}
  Cbs = {cb1}
  NoAddr = NoAddr
  NullPacket = NullPacket
  NoCb = NoCb
  EmptyBuffer = EmptyBuffer
  RcvBuf = 2
  Disciplined = FALSE
  MaxSends = 7
  MaxAccepts = 2
  TotalTx = 7
  WriteSize = 3
  TxAvailable = 2
  Server = a1
  WriteCb = cb1
PROPERTY CalledAgain
CHECK_DEADLOCK FALSE
