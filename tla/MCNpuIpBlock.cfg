SPECIFICATION Spec
CONSTANTS
    t1 = t1
    t2 = t2
    Task <- MCTask
    MaxLoads = 3
SYMMETRY MCSymmetry
INVARIANT TypeOK
INVARIANT NoUseAfterFree
INVARIANT UpMeansStarted
INVARIANT UnboundHoldsNothing
PROPERTY AcceptedFindsNpu
CHECK_DEADLOCK FALSE
