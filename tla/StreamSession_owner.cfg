CONSTANTS
    MaxGen = 2
    MaxEpoch = 1
    HostAsksPin = FALSE
    Transports = {"udp", "sdr"}
SPECIFICATION FairSpec
PROPERTIES OwnerReleased
