\* Two output lines looped back to two input lines.
CONSTANTS
    NumOut = 2
    NumIn = 2
    NumChans = 2
    TestWords <- MC_FewWords
SPECIFICATION Spec
INVARIANT LoopbackIntact
