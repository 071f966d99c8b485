SPECIFICATION DriveFairSpec
CONSTANTS
    u = u
    m = m
    p = p
    q = q
    c = c
    d = d
    NoPwd = NoPwd
    Plugin = Plugin
    Url = {u, m}
    Pwd = {p, q, NoPwd}
    Uncheckable = {m}
    Channels = {c, d}
    Saved = {c}
    CheckJobs = 0
    Modes = {TRUE, FALSE}
    MaxSent = 2
    MaxLast = 1
INVARIANTS SelectHasBranch ChecksAccounted AnnouncedAreChecked OnlyValidPrinted InvalidAreDisabled
PROPERTY DriveEnds
