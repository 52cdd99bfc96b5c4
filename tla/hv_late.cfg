CONSTANTS
    Volts <- TheVolts
    Zero <- TheZero
    MaxLate = 1
    MaxTurns = 1
    MaxInput = 4
    Scans <- TheScans
SPECIFICATION Spec
INVARIANTS DestructorTurnsOff
CHECK_DEADLOCK FALSE
