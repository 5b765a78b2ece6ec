CONSTANTS
    MaxSession = 2
    MaxEpoch = 2
    MaxSerial = 3
SPECIFICATION FairSpec
INVARIANTS TypeOK OwnFormat GatesAgree
PROPERTIES WaitEnds SessionEnds
