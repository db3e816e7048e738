CONSTANTS
    MaxInt = 3
    NumCores = 2
    Transport = "socket"
    UintMod = 8
    Requests = {"vCont", "F", "i", "vKill", "D", "reset", "break", "vanish"}
    VContPackets <- MCFewPackets
    HgTexts <- MCNoTexts
    FPackets <- MCAllReplies
    KillPids = {1, 2}
    TimeoutValues = {}
    MaxTicks = 0
    MaxCycles = 0
    CycleMod = 8
    CycleStamps = {0}
    StopResults = {"STEPPED", "SYSCALL", "FAILURE"}
    Syscalls = {"file", "exit", "unknown"}
    SupportAnswers = {TRUE, FALSE}
    TargetFaults = {"resume", "halt", "error", "size", "silent", "reset", "args"}
SPECIFICATION Spec
INVARIANTS
    IInv
    ResultReachesCaller
PROPERTIES
    ImplementsRunControl
