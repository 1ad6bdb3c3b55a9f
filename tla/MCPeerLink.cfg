SPECIFICATION Spec
CONSTANTS
  Cids = {2, 3, 4}
  ProtocolControl = 2
  Sids = {0, 1}
  MaxLength = 3
  Byte <- MCByte
  Value <- MCValue
  Extended = 3
  Mask = 16
  Raw = 32
  ExtWidth = 2
  DefaultChunkSize = 2
  ControlSize = 2
  AutoResponse = TRUE
  HandshakeBytes = 1
  Peers <- MCPeers
  MaxMessages = 3
  Capacity = 3
CHECK_DEADLOCK FALSE
INVARIANT StreamsInOrder
PROPERTY ArrivesIfRepeated
