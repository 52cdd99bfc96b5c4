CONSTANTS
    MaxRoc = 1
    NChannels = 2
    Dacs = {"Vana", "Vcal", "CtrlReg", "VthrComp", "Vtrim", "CalDel", "PHOffset", "PHScale"}
    DacOrder <- TheDacOrder
    SeedResponds = TRUE
    Procedure <- OnlyDacScan
    ForOneRoc <- TheForOneRoc
    ForAllRocs <- TheForAllRocs
    Naming <- TheNaming
    ReadingOne <- TheReadingOne
    PoweringDown = {"mt"}
    Purpose <- NoPurpose
    Tests <- TheTests
    Trimming <- TheTrimming
    Unflushed <- TheUnflushed
    MaxCommands = 1
    MaxThrows = 0
SPECIFICATION Spec
INVARIANTS Restored
CHECK_DEADLOCK FALSE
