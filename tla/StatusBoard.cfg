CONSTANTS
    Sessions = {s1, s2}
    Listeners = {l1, l2, l3}
    None = None
    MaxBeats = 2
SPECIFICATION FairSpec
INVARIANTS
    TypeOK
    CachedAlive
PROPERTIES
    RowsAdvance
    ReconnectHeals
