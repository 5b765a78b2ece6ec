CONSTANTS
    Leases = {1, 2}
    Domains = 2
    Groups = {1, 2}
    Batches = {1}
    JobLimit = 2
    MaxKey = 3
    MaxTask = 3
SPECIFICATION Spec
INVARIANTS TypeOK DomainOutlivesUse ReferencesCounted BatchKeepsGroups NoTaskLost SelectionIsOwnPicture FrozenStaysEmpty
PROPERTIES VideoIsLent
