SPECIFICATION CheckFairSpec
CONSTANTS
    a1 = a1
    a2 = a2
    b = b
    x = x
    s = s
    t = t
    p = p
    none = none
    direct = direct
    Malformed = Malformed
    Corrupt = Corrupt
    Normal <- Normalized
    Unsupported = {t}
    Verdicts = {"ok", "bad"}
    Ttl <- Lifetimes
    Calls = {1, 2}
    Requests <- Several
    Stored <- Damaged
    MaxTime = 1
    MaxCommands = 2
INVARIANTS AnswersInOrder CachedIsFresh CacheIsFounded ProbedOnce
PROPERTY ChecksReturn
