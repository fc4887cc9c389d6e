\* Is link_watch=no honoured?
SPECIFICATION Spec
CONSTANTS
    Scripts <- AllScripts
    None = None
    Empty = Empty
    DefaultTimeout <- MCDefaultTimeout
    Timeouts <- MCTimeouts
    LongestProbe = 0
PROPERTIES
    RebootsOnlyIfWatched
