CONSTANTS
    MaxGen = 2
    MaxEpoch = 1
    HostAsksPin = FALSE
    Transports = {"udp"}
SPECIFICATION FairSpec
PROPERTIES StopAcknowledged ExitJoins
