\* One cover and one opening of another page are enough.
CONSTANTS
    Games = {g1}
    Covers = 1
    Titles = 1
    MaxPauses = 1
SPECIFICATION Spec
PROPERTY CancelledRetries
CHECK_DEADLOCK FALSE
