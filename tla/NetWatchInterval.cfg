\* How long is the pause before a connection is tried again?
SPECIFICATION Spec
CONSTANTS
    Retries = {1, 2, 4}
    Timeout = 3
    Interval = 5
PROPERTIES
    IntervalBetweenConnections
