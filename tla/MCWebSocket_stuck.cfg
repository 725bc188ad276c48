SPECIFICATION GoFairSpec
CONSTANTS
    Writers = {w1}
    MaxMessage = 1
    MaxFrames = 0
    Room = 1
PROPERTY CloseReturns
