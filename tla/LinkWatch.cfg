\* Every script, with every setting that can be saved or left by a power loss.
SPECIFICATION FairSpec
CONSTANTS
    Scripts <- AllScripts
    None = None
    Empty = Empty
    DefaultTimeout <- MCDefaultTimeout
    Timeouts <- MCTimeouts
    LongestProbe = 2
INVARIANTS
    TypeOK
    PromptWatch
PROPERTIES
    PatientWatch
    BootGoesOn
