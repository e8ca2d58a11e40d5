SPECIFICATION FairSpec
CONSTANTS
  Frames <- MCFrames
  MCBytes = {0, 93, 213, 255}
  MCLongest = 3
  MinFrameSize = 3
  CrcSize = 1
  MaxFrameSize = 4
  InterframeGap = 3
  Crc <- MCCrc
  NoFrame = NoFrame
INVARIANT TypeOK
PROPERTY RxImplementsMII
PROPERTY LinkIsPolledAgain
