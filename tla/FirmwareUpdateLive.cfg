\* The power may fail twice in any phase; nothing else goes wrong but watch
\* loops and users that reboot.
SPECIFICATION FairSpec
CONSTANTS
    r1 = r1
    r2 = r2
    r0 = r0
    Version <- MCVersion
    Factory = r0
    Torn = Torn
    Absent = Absent
    LossIn <- AllPhases
    FailAt <- RebootStep
    Rebooter <- AllRebooters
    MaxLoss = 2
    MaxRequests = 1
PROPERTIES
    UpdateArrives
    FlashEnds
CHECK_DEADLOCK FALSE
