SPECIFICATION Spec
CONSTANTS
    u = u
    v = v
    m = m
    n = n
    Updater = {u, v}
    Migrator = {m, n}
    Release = {2, 3}
    First = 1
    Accepts <- Formats
    Steps <- Chain
    Target = {1, 2, 3}
    Missing = Missing
    Torn = Torn
CHECK_DEADLOCK FALSE
SYMMETRY Alike
INVARIANTS ProgramRecoverable ToldTruthfully ConvertedOnce
