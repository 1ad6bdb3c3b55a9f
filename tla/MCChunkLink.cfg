SPECIFICATION Spec
CONSTANTS
  Cids = {2, 3, 4}
  ProtocolControl = 2
  Sids = {0, 1}
  MaxLength = 3
  Byte <- MCByte
  Value <- MCValue
  Extended = 2
  Mask = 4
  Raw = 8
  ExtWidth = 2
  DefaultChunkSize = 2
  ControlSize = 2
  AutoResponse = FALSE
  HandshakeBytes = 2
  Outgoing <- MCOutgoing
  MaxMessages = 3
  Capacity = 6
CHECK_DEADLOCK FALSE
INVARIANTS Framing PingsAnswered AcksAdvance
PROPERTY ImplementsChannel
