SPECIFICATION MCSpec
CONSTANTS
  Gets = {g1, g2}
  Stops = {s1}
  Cameras = {"cam1", "cam2"}
  Matches <- MCExactly
  LogOf <- MCOwnLog
  Limits = {1, 2}
  Polls = 1
  Workers = 4
  MaxRequests = 2
INVARIANTS OneCameraEach OrphanNeedsStop YesIsCurrent
PROPERTIES PulledForALimit EveryGetServed EveryStreamEnds
