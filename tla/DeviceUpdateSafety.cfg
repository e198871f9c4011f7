CONSTANTS
    f = f
    good = good
    bad = bad
    junk = junk
    Images = {f, good, bad, junk}
    Bootable = {f, good, bad}
    Broken = {bad}
    Factory = f
    Size <- MCSize
    Commands <- MCCommands
    Blank = Blank
    None = None
    MaxReboots = 2
    Polls = 1
    RollbackEnabled = TRUE
    Faults = {"nvs", "otadata"}
SPECIFICATION Spec
INVARIANTS
    TypeOK
    NeverBricked
    BrokenNeverConfirmed
PROPERTIES
    OnlyVerifiedStaged
    FailureReportsTruthful
