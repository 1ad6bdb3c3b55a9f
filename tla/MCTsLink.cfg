SPECIFICATION Spec
CONSTANTS
  PacketSize = 188
  PesLengthMax = 400
  TimePart = 32
  TimeHigh = 8
  ClockStep = 16
  AudioCacheSize = 200
  AudioDelay = 60
  AacSizeMax = 100
  SpsSize = 10
  PpsSize = 4
  Frames <- MCFrames
  Others <- MCOthers
  Pid = {"AVC", "AAC", "MP3", "AC3", "MPEG4"}
  Steps = {0, 61}
  MaxFrames = 3
  MaxOpens = 2
  MaxFaults = 1
CHECK_DEADLOCK FALSE
INVARIANTS DeliveredEntire PacketsAreSound FramesInOrder OnlyHitAreLost
