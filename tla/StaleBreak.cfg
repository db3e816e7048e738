CONSTANTS
    MaxPacketSize = 4
    CsumMod = 3
    Bodies <- MCFewBodies
    NoAckBody <- MCNoAck
    DetachBody <- MCDetach
    MaxPackets = 2
    Spoiled = {}
    MaxNoise = 0
SPECIFICATION Spec
INVARIANTS
    OwnBreaksOnly
