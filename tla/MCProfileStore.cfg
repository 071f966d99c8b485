SPECIFICATION Spec
CONSTANTS
    p = p
    q = q
    c = c
    d = d
    here = here
    there = there
    Process = {p, q}
    Channel = {c, d}
    Site = {here, there}
    MaxCommands = 2
    MaxSessions = 2
    NoProfile = NoProfile
    NoSession = NoSession
SYMMETRY Alike
INVARIANTS RemovedStaysRemoved ResolutionsKept IsolatedByTwoAbsences SessionOfItsSite
