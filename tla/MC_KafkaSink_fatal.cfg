\* The broker may stay unreachable: every send may fail.
CONSTANTS
    QCap = 2
    MaxBatch = 2
    MaxLines = 4
    MaxLostAcks = 1
    PipeCap = 1
    MaxKmsg = 0
    KRing = 1
SPECIFICATION UnreliableSpec
PROPERTY FatalExits
