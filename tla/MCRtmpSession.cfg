SPECIFICATION Spec
CONSTANTS
    Makes <- MCMakes
    ServerStream = 1
    BlockSize = 6
    KeySize = 2
    Random = 5
    ServerOffsets <- MCServerOffsets
    Media <- MCMedia
    MaxMedia = 2
INVARIANTS
    HandshakeAgrees
    ServesWhatIsMeant
    NobodyFails
    MediaInOrder
PROPERTIES
    EveryoneGetsThere
    EverySessionSettles
