SPECIFICATION Spec
CONSTANTS
    Base = 8
    MaxCodecSample = 3
    Pictures <- MCPictures
    NaluLists <- MCNaluLists
    AdtsBuffers <- MCAdtsBuffers
    Steps = {0, 1030}
    MaxMessages = 3
    MaxInjections = 1
INVARIANTS
    ReadAsWritten
    SamplesAsGiven
CHECK_DEADLOCK FALSE
