CONSTANTS
    MaxGen = 2
    MaxEpoch = 1
    HostAsksPin = TRUE
    Transports = {"udp", "sdr"}
SPECIFICATION Spec
PROPERTIES PinIsSubmitted
