\* 48-bit frames (three 16-bit channels), offset 1, a one-bit frame-sync pulse;
\* the bus keeps clocking (FairSpec).
CONSTANTS
    NumOut = 1
    NumIn = 1
    MaxPorts <- MC_MaxPorts
    AgeCap <- MC_AgeCap
    FrameLen = 48
    Offset = 1
    FsyncWidth = 1
    MinLoopBits = 1
    TimerBits = 7
    TimerStarts <- MC_TimerStarts
SPECIFICATION FairSpec
INVARIANT TypeOK
INVARIANT OutputAligned
INVARIANT CaptureAligned
INVARIANT OutputIInv
INVARIANT CaptureIInv
PROPERTY FairTimingRefinesFrames
