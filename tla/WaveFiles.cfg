SPECIFICATION Spec
CONSTANTS
    N = 3
    Lines = 2
    Times <- MCTimes
    Leads <- MCLeads
    MaxWaves = 5
INVARIANTS
    KeepsWaves
    LeadIsBefore
