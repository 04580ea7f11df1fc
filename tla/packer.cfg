\* One output and one input line, two channels of 16 bits (frame_len 32).
CONSTANTS
    NumOut = 1
    NumIn = 1
    NumChans = 2
    TestWords <- MC_SingleBitWords
SPECIFICATION Spec
INVARIANT WireOrder
INVARIANT LoopbackIntact
