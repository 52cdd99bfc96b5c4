CONSTANTS
    Volts <- TheVolts
    Zero <- TheZero
    MaxLate = 1
    MaxTurns = 1
    MaxInput = 4
    Scans <- TheScans
SPECIFICATION Spec
INVARIANTS TypeOK NeverGarbled InStep Followed SwitchedOff Answered
CHECK_DEADLOCK FALSE
