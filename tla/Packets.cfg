CONSTANTS
    MaxPacketSize = 4
    CsumMod = 3
    Bodies <- MCBodies
    NoAckBody <- MCNoAck
    DetachBody <- MCDetach
    MaxPackets = 3
    Spoiled <- MCAnyNoise
    MaxNoise = 1
SPECIFICATION Spec
INVARIANTS
    TypeOK
    BreaksAreReal
    AnsweredOnce
    AssertsHold
PROPERTIES
    ImplementsLink
    BreakNotDropped
    PacketTaken
