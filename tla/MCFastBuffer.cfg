SPECIFICATION BufferSpec
CONSTANTS
  DefaultSize = 5
  MaxSize = 7
  HeaderSizes = {1, 3}
  ExtSize = 2
  PayloadSizes = {1, 4, 6}
  BufferSizes = {3, 6, 9}
  MaxReceived = 12
CHECK_DEADLOCK FALSE
INVARIANTS Contents ReadFits HalfFits
