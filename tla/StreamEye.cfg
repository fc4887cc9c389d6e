\* Two cameras, one of them a simple mjpeg camera; every harm can be done.
SPECIFICATION Spec
\* A server that nobody asks for anything, or stops, waits.
CHECK_DEADLOCK FALSE
CONSTANTS
    a = a
    b = b
    Cams <- MCCams
    Mjpeg <- MCMjpeg
    StreamEyeCam = StreamEyeCam
    Absent = Absent
    Cut = Cut
    MaxId = 3
    MaxRequests = 3
    MaxStops = 2
INVARIANTS
    TypeOK
    CamerasKept
    ModeIsOnDisk
    LastRequestWins
    SwitchedOff
PROPERTIES
    OffShowsAll
