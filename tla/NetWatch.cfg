\* Up to three retries, saved anew at any time; a host that comes and goes.
SPECIFICATION FairSpec
CONSTANTS
    Retries = {1, 2, 4}
    Timeout = 3
    Interval = 5
INVARIANTS
    TypeOK
    PromptNetwatch
PROPERTIES
    PatientNetwatch
    GivesUp
