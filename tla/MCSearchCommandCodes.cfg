SPECIFICATION CommandSpec
CONSTANTS
    u = u
    m = m
    p = p
    q = q
    NoPwd = NoPwd
    Plugin = Plugin
    Url = {u, m}
    Pwd = {p, q, NoPwd}
    Uncheckable = {m}
    Channels = {2}
    Saved = {}
    CheckJobs = 1
    Modes = {TRUE}
    MaxSent = 0
    MaxLast = 0
    Key <- Ids
    NumSources = 2
    MaxRows = 1
    Telegram = {2}
    Failing = {}
    Found <- Undated
INVARIANT OutcomeIsChecked
