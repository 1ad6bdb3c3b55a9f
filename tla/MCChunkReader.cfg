SPECIFICATION MCSpec
CONSTANTS
  Cids = {2, 3}
  ProtocolControl = 2
  Sids = {0}
  MaxLength = 4
  Byte <- MCByte
  Value <- MCValue
  Extended = 2
  Mask = 2
  Raw = 4
  ExtWidth = 1
  DefaultChunkSize = 2
  ControlSize = 1
  AutoResponse = FALSE
  HandshakeBytes = 1
  MaxBytes = 6
CHECK_DEADLOCK FALSE
INVARIANTS ReaderTypeOK NoOverrun NoLingeringMessage
