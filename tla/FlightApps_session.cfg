SPECIFICATION Spec
CONSTANTS
    Apps = {"demo", "eps", "adcs", "radio"}
    Offset = 2
    SavePeriod = 2
    MaxGps = 3
    MaxLoads = 2
    Frames <- FrameLengths
    Packets <- PacketSizes
    MaxTraffic = 3
    HeaderSize = 2
    MaxPayload = 4
    MaxRx = 2
    FieldLength = 3
    MaxTx = 2
    MaxBoots <- Restarts
CHECK_DEADLOCK FALSE
INVARIANT TypeOK
INVARIANT CountersTruthful
INVARIANT BootsAdvance
INVARIANT UplinkFaithful
INVARIANT DownlinkFaithful
PROPERTY TaskReturns
