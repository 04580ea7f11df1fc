CONSTANTS
    NumOut = 1
    NumIn = 1
    MaxPorts <- MC_MaxPorts
    AgeCap <- MC_AgeCap
    MaxRestarts = 0
    MaxSessions = 1
    IsrBeforeCommit = FALSE
SPECIFICATION Spec
INVARIANT FreshDelivery
