CONSTANTS
    f = f
    good = good
    bad = bad
    junk = junk
    Images = {f, good, bad}
    Bootable = {f, good, bad}
    Broken = {bad}
    Factory = f
    Size <- UnitSize
    Commands <- UnitCommands
    Blank = Blank
    None = None
    MaxReboots = 3
    Polls = 1
    RollbackEnabled = FALSE
    Faults = {}
SPECIFICATION FairSpec
PROPERTY BrokenRecovered
