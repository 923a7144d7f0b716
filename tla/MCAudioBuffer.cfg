SPECIFICATION Spec
CONSTANTS
  BUFFER_FRAMES = 4
  MaxFrames = 6
  MaxSessions = 3
INVARIANTS
  ReadyInWindow
PROPERTIES
  Implements
  FrameLeaves
\* The number of sessions is bounded: the sender stops.
CHECK_DEADLOCK FALSE
