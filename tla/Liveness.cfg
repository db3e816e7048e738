CONSTANTS
    MaxInt = 3
    NumCores = 2
    Transport = "socket"
    UintMod = 8
    Requests = {"vCont", "F", "mem", "timeout", "cycle-timeout", "break", "vanish"}
    VContPackets <- MCContinue
    HgTexts <- MCNoTexts
    FPackets <- MCReplies
    KillPids = {}
    TimeoutValues = {0, 1}
    MaxTicks = 2
    MaxCycles = 2
    CycleMod = 8
    CycleStamps = {0, 7}
    StopResults = {"INTERRUPTED", "SYSCALL"}
    Syscalls = {"file", "exit"}
    SupportAnswers = {TRUE}
    TargetFaults = {}
SPECIFICATION FairSpec
PROPERTIES
    BreakStopsTarget
    TimeoutStopsTarget
    LostClientNoticed
    NoEarlyTimeout
