SPECIFICATION FairSpec
CONSTANTS
  MinFrameSize = 2
  CrcSize = 1
  Crc <- MCCrc
  Levels = {0, 5, 13}
  MaxFrame = 3
  NoFrame = NoFrame
INVARIANT TypeOK
INVARIANT QueuedWhileNeeded
PROPERTY TxImplementsMII
PROPERTY FrameIsEnded
