CONSTANTS
    a = a
    b = b
    v1 = v1
    Images = {a, b}
    Bootable = {a}
    Broken = {}
    Factory = a
    Size <- UnitSize
    Blank = Blank
    None = None
    MaxReboots = 1
    Polls = 0
    RollbackEnabled = FALSE
    Faults = {}
    Uploads <- MCUploads
    Handlers = {h1, h2}
    MaxInFlight = 1
SYMMETRY Symmetry
CONSTRAINTS
    FewUnderWay
    FirstUpdate
VIEW View
SPECIFICATION Spec
INVARIANTS
    TypeOK
    
PROPERTY WithdrawnNotInstalled
