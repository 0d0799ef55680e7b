SPECIFICATION ConsoleSpec
CONSTANTS
    Tabs = {t1, t2}
    Calls = {c1, c2}
    Clients = {k1, k2}
    MaxRetries = 1
    MaxFamilies = 1
    MaxRotations = 2
INVARIANTS NeverThePredecessor
SYMMETRY Interchangeable
