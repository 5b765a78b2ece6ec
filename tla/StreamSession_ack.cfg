CONSTANTS
    MaxGen = 3
    MaxEpoch = 1
    HostAsksPin = FALSE
    Transports = {"udp", "sdr"}
SPECIFICATION Spec
PROPERTIES CleanupAckHarmless
