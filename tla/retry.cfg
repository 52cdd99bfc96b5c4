CONSTANTS
    MaxRoc = 1
    NChannels = 2
    Dacs = {"Vana", "Vcal", "CtrlReg", "VthrComp", "Vtrim", "CalDel", "PHOffset", "PHScale"}
    DacOrder <- TheDacOrder
    SeedResponds = TRUE
    Procedure <- Retried
    ForOneRoc <- TheForOneRoc
    ForAllRocs <- TheForAllRocs
    Naming <- TheNaming
    ReadingOne <- TheReadingOne
    PoweringDown = {"mt"}
    Purpose <- ThePurpose
    Tests <- TheTests
    Trimming <- TheTrimming
    Unflushed <- TheUnflushed
    MaxCommands = 2
    MaxThrows = 1
SPECIFICATION Spec
INVARIANTS Restored OnPurpose Quiet
CHECK_DEADLOCK FALSE
