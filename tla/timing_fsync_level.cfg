\* The timing run with a frame-sync pulse four bit clocks wide, longer than the
\* shortest pass of the main loop (one bit clock).
CONSTANTS
    NumOut = 1
    NumIn = 1
    MaxPorts <- MC_MaxPorts
    AgeCap <- MC_AgeCap
    FrameLen = 48
    Offset = 1
    FsyncWidth = 4
    MinLoopBits = 1
    TimerBits = 7
    TimerStarts <- MC_TimerStarts
SPECIFICATION Spec
PROPERTY TimingRefinesFrames
