SPECIFICATION StoreSpec
CONSTANTS
    a = a
    b = b
    c = c
    p1 = p1
    p2 = p2
    Name = {a, b}
    DefaultName = a
    Limit = 1
    Process = {p1, p2}
    PowerCuts = 1
PROPERTY NeverTorn
