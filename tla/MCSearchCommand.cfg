SPECIFICATION CommandSpec
CONSTANTS
    u = u
    m = m
    p = p
    q = q
    NoPwd = NoPwd
    Plugin = Plugin
    Url = {u, m}
    Pwd = {p, q, NoPwd}
    Uncheckable = {m}
    Channels = {2, 3}
    Saved = {3}
    CheckJobs = 1
    Modes = {TRUE}
    MaxSent = 0
    MaxLast = 0
    Key <- Ids
    NumSources = 3
    MaxRows = 2
    Telegram = {2, 3}
    Failing = {3}
    Found <- TwoCodes
INVARIANT NewestCodeIsChecked
