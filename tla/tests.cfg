CONSTANTS
    MaxRoc = 1
    NChannels = 2
    Dacs = {"Vana", "Vcal", "CtrlReg", "VthrComp", "Vtrim", "CalDel", "PHOffset", "PHScale"}
    DacOrder <- TheDacOrder
    SeedResponds = TRUE
    Procedure <- TheProcedure
    ForOneRoc <- TheForOneRoc
    ForAllRocs <- TheForAllRocs
    Naming <- TheNaming
    ReadingOne <- TheReadingOne
    PoweringDown = {"mt"}
    Purpose <- ThePurpose
    Tests <- TheTests
    Trimming <- TheTrimming
    Unflushed <- TheUnflushed
    MaxCommands = 1
    MaxThrows = 0
SPECIFICATION Spec
INVARIANTS TypeOK Restored OnPurpose Quiet TrimsLoaded AllRead CleanRead Sent PoweredDown
CHECK_DEADLOCK FALSE
