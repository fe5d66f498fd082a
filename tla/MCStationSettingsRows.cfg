CONSTANTS
    c1 = c1
    c2 = c2
    Clients = {c1, c2}
    LastPin = 2
    Outputs = {off, on}
    DefaultOutput = off
    Times = {t1}
    Names = {n1}
    FirstName = n1
    MaxFirst = 0
    MaxSaves = 2
SPECIFICATION Spec
INVARIANTS OneValvePerPin
