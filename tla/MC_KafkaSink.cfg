\* The broker becomes reachable again whenever the sender keeps retrying.
CONSTANTS
    QCap = 2
    MaxBatch = 2
    MaxLines = 4
    MaxLostAcks = 1
    PipeCap = 1
    MaxKmsg = 2
    KRing = 1
SPECIFICATION FairSpec
INVARIANT TypeOK
INVARIANT SyncSound
INVARIANT DeliveredPrefix
PROPERTY SyncTerminates
PROPERTY RelayStarts
PROPERTY RtPipeDrains
