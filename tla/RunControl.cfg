CONSTANTS
    MaxInt = 3
    NumCores = 3
    Transport = "socket"
    UintMod = 8
    Requests = {"vCont", "F", "break", "QStartNoAckMode"}
    VContPackets <- MCVContPackets
    HgTexts <- MCNoTexts
    FPackets <- MCReplies
    KillPids = {}
    TimeoutValues = {}
    MaxTicks = 0
    MaxCycles = 0
    CycleMod = 8
    CycleStamps = {0}
    StopResults = {"INTERRUPTED", "LOCKSTEP", "SYSCALL"}
    Syscalls = {"file", "exit"}
    SupportAnswers = {TRUE}
    TargetFaults = {}
SPECIFICATION Spec
INVARIANTS
    NoStopOverwritten
    RunsWhatWasAsked
    SyscallGoesToCaller
    NoAbort
PROPERTIES
    StopNotLost
    ImplementsRunControl
