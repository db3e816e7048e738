CONSTANTS
    MaxPacketSize = 8
    CsumMod = 3
    Bodies <- MCBodies
    NoAckBody <- MCNoAck
    DetachBody <- MCDetach
    MaxPackets = 1
    Spoiled <- MCDigits
    MaxNoise = 1
SPECIFICATION Spec
INVARIANTS
    DeliveredAsSent
