CONSTANTS
    Lines <- const_Lines
    SizeBytes = 256
    Assoc = 2
    LineBytes = 64
    MaxClock = 5
SPECIFICATION Spec
PROPERTY ImplementsLru
CHECK_DEADLOCK FALSE
