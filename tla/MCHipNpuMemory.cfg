SPECIFICATION Spec
CONSTANTS
    Thread = {t1, t2, t3}
    Addr = {a1, a2}
    Bo = {b1, b2, b3}
    Fd = {f1, f2, f3}
    Offset = {0, 1}
    NpuAvailable = TRUE
    MaxRenderFds = 3
    None = None
SYMMETRY MCSymmetry
INVARIANTS TypeOK MapNamesLiveBuffer NoLeak DeviceOpenedOnce HandleIsBacked OwnersKeepBuffers
CHECK_DEADLOCK FALSE
PROPERTY AllocatorSpec
