SPECIFICATION Spec
CONSTANTS
  SeqSpace = 16
  BufferFrames = 6
  MaxGap = 3
  FirstSeq = 12
  MaxPacket = 7
  Jump = 5
  Lag = 2
INVARIANTS
  AtLeastOneFrame
  FrameInPlace
PROPERTIES
  HeardInOrder
