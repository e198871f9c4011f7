CONSTANT Messages = {m1, m2}
SPECIFICATION FairSpec
INVARIANT TypeOK
PROPERTIES
    ImplementsAnnouncements
    KeptDelivered
    UploadsAnswered
