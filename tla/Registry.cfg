CONSTANTS
    v1 = v1
    v2 = v2
    f1 = f1
    f2 = f2
    Clients = {c1, c2}
    Versions = {v1, v2}
    Files = {f1, f2}
    Short = Short
    None = None
    Requests <- AllRequests
    SafeVersion <- Distinct
    Settings = {"serial", "overlapping"}
SPECIFICATION Spec
SYMMETRY ClientSymmetry
INVARIANTS
    TypeOK
    RegisteredDownloadable
    AckedRegistered
    NeverCorrupt
PROPERTIES
    ImplementsVersionStore
    ServedAsRegistered
