CONSTANTS
    MaxInt = 3
    NumCores = 2
    Transport = "socket"
    UintMod = 8
    Requests = {"vCont", "F", "vanish"}
    VContPackets <- MCContinue
    HgTexts <- MCNoTexts
    FPackets <- MCReplies
    KillPids = {}
    TimeoutValues = {}
    MaxTicks = 0
    MaxCycles = 0
    CycleMod = 8
    CycleStamps = {0}
    StopResults = {"SYSCALL"}
    Syscalls = {"file", "unknown"}
    SupportAnswers = {TRUE}
    TargetFaults = {}
SPECIFICATION Spec
INVARIANTS
    NoNestedSyscall
