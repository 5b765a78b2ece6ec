CONSTANTS
    Leases = {1, 2}
    Domains = 2
    Groups = {1, 2}
    Batches = {1}
    JobLimit = 3
    MaxKey = 1
    MaxTask = 3
SPECIFICATION Spec
PROPERTIES FreezeIsNoFailure
