SPECIFICATION Spec
CONSTANTS
    PeerFrames <- EmptyAndText
    Pipelined <- OnlyText
    MaxFrames = 2
    HeadLen = 2
INVARIANTS CodecHandsOnWholeFrames
CHECK_DEADLOCK FALSE
