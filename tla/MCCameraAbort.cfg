SPECIFICATION Spec
CONSTANTS
  Sps = {"s1", "s2"}
  ShortSps = {"short"}
  Pps = {"p1", "p2"}
  Slices = {"idr", "slice"}
  Packets <- MCPackets
  MaxTime = 40
CHECK_DEADLOCK FALSE
INVARIANT NeverAborts
