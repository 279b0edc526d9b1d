CONSTANTS
    LastDay = 49710
    Seconds <- MCSeconds
SPECIFICATION TimeSpec
INVARIANTS
    TimeIsCivil
CHECK_DEADLOCK FALSE
