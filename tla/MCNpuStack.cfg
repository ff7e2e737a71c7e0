SPECIFICATION Spec
CONSTANTS
    t1 = t1
    t2 = t2
    b1 = b1
    Thread <- MCThread
    Buf <- MCBuf
    MaxGpus = 1
INVARIANT TypeOK
INVARIANT UnwindsExactly
INVARIANT DevicesAreNamed
INVARIANT BuffersBalance
PROPERTY StartSucceeds
