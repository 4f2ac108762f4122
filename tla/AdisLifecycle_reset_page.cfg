CONSTANTS
    PageSize = 128
    Pages = {0, 1}
    ByteVals = {0, 4}
    HasPaging = TRUE
    PartialFailures = FALSE
    NoRead = NoRead
    CmdMask <- MC_CmdMask
    InitSyncMode = 1
    InitExtClk = 2000
    InternalModes = {0, 3}
    SyncScaled = 2
    SyncModeMax = 3
    FreqLimits <- MC_FreqLimits
    UpScaleField <- MC_UpScale1
    GpioChoices = {TRUE, FALSE}
    Registers <- MC_Registers1
    Fields <- MC_Fields1
    GlobCmd <- Glob1
    DiagStat <- Diag1
    ProdId <- Prod1
    SyncField <- MC_Sync1

SPECIFICATION Spec

PROPERTIES
    StartupPerformed
