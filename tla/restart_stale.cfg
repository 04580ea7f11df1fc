CONSTANTS
    NumOut = 1
    NumIn = 1
    MaxPorts <- MC_MaxPorts
    AgeCap <- MC_AgeCap
    MaxRestarts = 1
    MaxSessions = 1
    IsrBeforeCommit = TRUE
SPECIFICATION Spec
INVARIANT NoStaleDelivery
