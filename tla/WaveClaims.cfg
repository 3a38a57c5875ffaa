SPECIFICATION Spec
CONSTANTS
    N = 3
    Lines = 2
    Times <- MCOneTime
    Leads <- MCOneLead
    MaxWaves = 5
INVARIANTS
    EveryCallMakesAFile
    DatInTable
    LeadIsThreePeriods
