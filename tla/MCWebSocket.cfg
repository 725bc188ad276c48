SPECIFICATION FairSpec
CONSTANTS
    Writers = {w1}
    MaxMessage = 2
    MaxFrames = 3
    Room = 1
INVARIANT MessagesAreWhole
PROPERTIES FramesAreWhole CloseReturns
