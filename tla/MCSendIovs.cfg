SPECIFICATION Spec
CONSTANTS
  Cids = {2, 3, 4}
  ProtocolControl = 2
  Sids = {0, 1}
  MaxLength = 5
  Byte <- MCByte
  Value <- MCValue
  Extended = 2
  Mask = 4
  Raw = 8
  ExtWidth = 2
  DefaultChunkSize = 2
  Batches <- MCBatches
  Outgoing <- MCOutgoing
  StreamId = 1
  MaxMessages = 5
  HeadersMax = 9
  MaxFmt0 = 4
  IovsMax = 4
  IovLimit = 3
CHECK_DEADLOCK FALSE
INVARIANTS CacheHolds ReportedIsWritten
PROPERTY ImplementsWriter
