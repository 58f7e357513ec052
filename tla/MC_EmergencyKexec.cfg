CONSTANTS
    Requests = {r1}
    ERequests = {e1, e2}
    K1 = K1
    K2 = K2
    BaseKernel = K0
    EmptyKernel = EmptyKernel
    NoReq = NoReq
    NoPkg = NoPkg
    Erased = Erased
    MaxProcs = 2
    Configs <- OffConfigs
    SerialConfigs <- OffSerialConfigs
    Kernels <- OffKernels
    Envelopes <- OffEnvelopes

SPECIFICATION SysFairSpec

INVARIANT SysTypeOK
PROPERTY RecoveryRefinement
PROPERTY EmergencyProceeds
