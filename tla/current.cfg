CONSTANTS
    Chips <- TheChips
    Gentle <- TheGentle
    Targets = {20, 24}
    Noise <- TheNoise
SPECIFICATION Spec
INVARIANTS TypeOK Lockstep Decided Succeeds
PROPERTIES Closer Ends
