\* Two 16-bit channels (frame_len 32) with offset 0: frame_len <= offset + 32.
CONSTANTS
    NumOut = 1
    NumIn = 1
    MaxPorts <- MC_MaxPorts
    AgeCap <- MC_AgeCap
    FrameLen = 32
    Offset = 0
    FsyncWidth = 1
    MinLoopBits = 1
    TimerBits = 7
    TimerStarts <- MC_TimerStarts
SPECIFICATION Spec
PROPERTY TimingRefinesFrames
