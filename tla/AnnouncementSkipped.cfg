CONSTANT Messages = {m1}
SPECIFICATION FairSpec
PROPERTY GuaranteedDelivery
