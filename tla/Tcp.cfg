SPECIFICATION FairSpec
CONSTANTS
  ToWrite <- UploadAndReply
  Mss = 2
  Wnd = 5
  Mbox = 1
  MaxRtx = 1
  MaxTroubles = 2
CHECK_DEADLOCK FALSE
INVARIANTS QueuesCover WithinWindow
PROPERTIES PipeSpec AlwaysEnds
