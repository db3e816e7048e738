CONSTANTS
    MaxInt = 3
    NumCores = 2
    Transport = "stream"
    UintMod = 8
    Requests = {"vCont", "Hg", "qC", "qSupported", "vKill", "D", "other", "threads", "query", "command", "set", "show", "?", "exit", "kill-core-on-exit", "vanish"}
    VContPackets <- MCContinue
    HgTexts <- MCAnyText
    FPackets <- MCReplies
    KillPids = {0, 2, 8}
    TimeoutValues = {}
    MaxTicks = 0
    MaxCycles = 0
    CycleMod = 8
    CycleStamps = {0}
    StopResults = {"STEPPED", "SYSCALL"}
    Syscalls = {"exit"}
    SupportAnswers = {TRUE}
    TargetFaults = {}
SPECIFICATION Spec
INVARIANTS
    TypeOK
    SelectionKnown
    ThreadsListed
