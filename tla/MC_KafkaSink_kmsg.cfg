\* The broker comes back, and the kernel writes two records into a ring of one.
CONSTANTS
    QCap = 2
    MaxBatch = 2
    MaxLines = 4
    MaxLostAcks = 1
    PipeCap = 1
    MaxKmsg = 2
    KRing = 1
SPECIFICATION FairSpec
PROPERTY KernelLogsFollowed
