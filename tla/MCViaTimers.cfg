CONSTANTS
    Digits = 2
    MaxClocks = 4
SPECIFICATION ViaSpec
INVARIANTS
    ClocksAreCounted
