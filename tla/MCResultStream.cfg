SPECIFICATION StreamSpec
CONSTANTS
    u = u
    v = v
    p = p
    q = q
    NoPwd = NoPwd
    Key <- Ids
    Url = {u, v}
    Pwd = {p, q, NoPwd}
    NumSources = 3
    MaxRows = 2
    Failing = {}
    Telegram = {3}
    Found <- Cases
INVARIANTS AnswerHasAnnouncedUrls AnswerKeepsPasswords AnswerIsStable NoCodeForgotten
PROPERTY PasswordNeverLost

