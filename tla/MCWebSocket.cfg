SPECIFICATION Spec
CONSTANTS
    PeerFrames <- AllFrames
    Pipelined <- OnlyText
    MaxFrames = 2
    HeadLen = 2
INVARIANTS TypeOK HandshakeExact FramesInOrder RepliesReadable NoFrameLeftBehind
CHECK_DEADLOCK FALSE
