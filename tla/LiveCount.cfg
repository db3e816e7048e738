CONSTANTS
    MaxInt = 3
    NumCores = 2
    Transport = "socket"
    UintMod = 8
    Requests = {"vKill"}
    VContPackets <- MCContinue
    HgTexts <- MCNoTexts
    FPackets <- MCReplies
    KillPids = {1, 2}
    TimeoutValues = {}
    MaxTicks = 0
    MaxCycles = 0
    CycleMod = 8
    CycleStamps = {0}
    StopResults = {"INTERRUPTED"}
    Syscalls = {"file", "exit"}
    SupportAnswers = {TRUE}
    TargetFaults = {}
SPECIFICATION Spec
INVARIANTS
    LiveCoresCounted
