CONSTANTS
    PageSize = 128
    Pages = {0, 1}
    ByteVals = {0, 4}
    HasPaging = TRUE
    PartialFailures = FALSE
    NoRead = NoRead
    CmdMask <- MC_CmdMask
    InitSyncMode = 2
    InitExtClk = 100
    InternalModes = {0, 3}
    SyncScaled = 2
    SyncModeMax = 3
    FreqLimits <- MC_FreqLimits
    UpScaleField <- MC_UpScale0
    GpioChoices = {TRUE, FALSE}
    Registers <- MC_Registers0
    Fields <- MC_Fields0
    GlobCmd <- Glob0
    DiagStat <- Diag0
    ProdId <- Prod0
    SyncField <- MC_Sync0

SPECIFICATION Spec

INVARIANTS
    TypeOK
    HandleCacheSound

PROPERTIES
    StartupPerformed
    CommandPerformed
    InitSyncProgrammed
