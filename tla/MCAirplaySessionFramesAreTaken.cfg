SPECIFICATION Spec
CONSTANTS
  Rtsp = Rtsp
  Output = Output
  Updater = Updater
  Callers = {Rtsp, Output, Updater}
  Players = {}
  None = None
  WriteMayStall = FALSE
  CodecMayFail = FALSE
  SetupMayFail = FALSE
  UpdateMayRun = FALSE
  ThreadMayHang = FALSE
  RaceCombines = FALSE
PROPERTIES
  FramesInSessionAreTaken
