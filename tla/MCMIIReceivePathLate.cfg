SPECIFICATION Spec
CONSTANTS
  PortWidth = 4
  CounterBits = 2
  NoThread = NoThread
  NoPort = NoPort
  Receiver = Receiver
  TransferWidth = 8
  MaxLate = 4
  MaxLag = 8
  Frames <- MCFrames
  MCBytes = {0, 90, 211}
  MinFrameSize = 3
  CrcSize = 1
  MaxFrameSize = 4
  InterframeGap = 3
  Crc <- MCCrc
  NoFrame = NoFrame
INVARIANT ReceivedIsGiven
