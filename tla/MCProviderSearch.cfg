SPECIFICATION FairSpec
CONSTANTS
    Plans <- MCPlans
    Limits = {1, 2}
    MaxPages = 2
    MaxEntries = 2
    MaxJobs = 3
    MaxTries = 2
INVARIANTS
    
    SuccessIsWhole
PROPERTY SearchReturns
