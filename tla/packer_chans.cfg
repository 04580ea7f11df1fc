\* One line carrying four channels of 16 bits (frame_len 64).
CONSTANTS
    NumOut = 1
    NumIn = 1
    NumChans = 4
    TestWords <- MC_FewWords
SPECIFICATION Spec
INVARIANT LoopbackIntact
