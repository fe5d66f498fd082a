CONSTANTS
    c1 = c1
    c2 = c2
    Clients = {c1, c2}
    LastPin = 2
    Outputs = {off, on}
    DefaultOutput = off
    Times = {t1, t2}
    Names = {n1, n2}
    FirstName = n1
    MaxFirst = 1
    MaxSaves = 2
SPECIFICATION Spec
SYMMETRY ClientSymmetry
INVARIANTS TypeOK FormsComplete SaveAccepted
PROPERTIES SavedAsRequested
