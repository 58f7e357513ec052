CONSTANTS
    Requests = {r1}
    ERequests = {e1}
    K1 = K1
    K2 = K2
    BaseKernel = K0
    EmptyKernel = EmptyKernel
    NoReq = NoReq
    NoPkg = NoPkg
    Erased = Erased
    MaxProcs = 2
    Configs <- LiveConfigs
    SerialConfigs <- LiveSerialConfigs
    Kernels <- MCKernels
    Envelopes <- LiveEnvelopes

SPECIFICATION SysSpec

PROPERTY RecoveryRefinement
