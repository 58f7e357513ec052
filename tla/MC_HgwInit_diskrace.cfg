CONSTANTS
    Requests = {r1, r2}
    K1 = K1
    K2 = K2
    BaseKernel = K0
    EmptyKernel = EmptyKernel
    NoReq = NoReq
    NoPkg = NoPkg
    Erased = Erased
    MaxProcs = 2
    Configs <- MCConfigs
    SerialConfigs <- MCSerialConfigs
    Kernels <- MCKernels
    Envelopes <- MCEnvelopes

SPECIFICATION Spec

INVARIANT DisksUnmountedAtKexec
