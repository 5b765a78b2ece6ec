CONSTANTS
    MaxGen = 3
    MaxEpoch = 2
    HostAsksPin = TRUE
    Transports = {"udp", "sdr"}
SPECIFICATION Spec
CONSTRAINT EpochsBound
INVARIANTS TypeOK OwnerHandover EvidenceIsTrue FrozenWhileClosing
PROPERTIES ClosedIsFinal HomeAfterCleanup VideoIsLent
