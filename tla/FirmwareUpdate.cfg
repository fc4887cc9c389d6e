\* Everything may go wrong, anywhere.
SPECIFICATION Spec
CONSTANTS
    r1 = r1
    r2 = r2
    r0 = r0
    Version <- MCVersion
    Factory = r0
    Torn = Torn
    Absent = Absent
    LossIn <- AllPhases
    FailAt <- AllSteps
    Rebooter <- AllRebooters
    MaxLoss = 2
    MaxRequests = 2
INVARIANTS
    TypeOK
    BricksOnlyInWindow
    OneRelease
    TornRootIsReflashed
    ArmedMeansFlashable
    UserConfigKept
PROPERTIES
    StoppedWatchersStaySilent
    UpdateIsAtomic
SYMMETRY ReleaseSymmetry
CHECK_DEADLOCK FALSE
