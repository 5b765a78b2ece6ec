CONSTANTS
    RequestIds = {0, 1, 2, 3}
    SessionIds = {0, 1, 2}
    Epochs = {0, 1, 2}
    Transitions = {0, 1, 2}
SPECIFICATION Spec
INVARIANTS TypeOK PhaseEvidence GateNeedsLiveOwner
PROPERTIES NewOwnerAfterCleanup SessionFactsMonotonic OwnerSlot
