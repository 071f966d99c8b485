SPECIFICATION FairSpec
CONSTANTS
    Plans <- KeepingPlans
    Limits = {1}
    MaxPages = 2
    MaxEntries = 2
    MaxJobs = 3
    MaxTries = 2
INVARIANT PermitEndsWithBody
