CONSTANTS
    Requests = {r1, r2, r3}
    Sessions = {s1}
    GCap = 2
    VCap = 1
    QCap = 1
SPECIFICATION FairSpec
INVARIANT SlotsAccounted
PROPERTY GinSlotsReturn
