CONSTANTS
    Leases = {1, 2}
    Domains = 2
    Groups = {1, 2}
    Batches = {1}
    JobLimit = 1
    MaxKey = 2
    MaxTask = 2
SPECIFICATION FairSpec
PROPERTIES VideoReturned
