CONSTANTS
    v1 = v1
    v2 = v2
    f1 = f1
    f2 = f2
    Clients = {c1, c2}
    Versions = {v1, v2}
    Files = {f1, f2}
    Short = Short
    None = None
    Requests <- TwoFiles
    SafeVersion <- Distinct
    Settings = {"overlapping"}
SPECIFICATION Spec
PROPERTY OneFilePerVersion
