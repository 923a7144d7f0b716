SPECIFICATION Spec
CONSTANTS
  Rtsp = Rtsp
  Output = Output
  Updater = Updater
  Callers = {Rtsp, Output, Updater}
  Players = {tone}
  None = None
  WriteMayStall = FALSE
  CodecMayFail = TRUE
  SetupMayFail = TRUE
  UpdateMayRun = TRUE
  ThreadMayHang = TRUE
  RaceCombines = FALSE
INVARIANTS
  OneSoundAtATime
  AmplifierRestsLow
  RestsWithoutSession
  QuiescedStaysQuiet
PROPERTIES
  AbandonedStreamEnds
  QuiesceEnds
