\* Sync mode programming, up-scale and bounded configuration writes, with
\* bus errors on every register access.
CONSTANTS
    SyncDefault = 0
    SyncDirect = 1
    SyncScaled = 2
    SyncOutput = 3
    SyncModeMax = 3
    FreqLimits <- MC_FreqLimits
    IntClk = 2000
    UpScaleFieldMax = 65535
    SyncModes = {0, 1, 2, 3, 4}
    ExtClks = {1, 100, 128, 2000, 3000}
    UpScales = {1, 21, 65536}
    ConfigMax <- MC_ConfigMax
    FieldMax <- MC_FieldMax
    Settle <- MC_Settle
    ConfigVals = {1, 2}
    CfgDefault <- MC_CfgDefault
    BusErrors = TRUE
CONSTRAINT ChangedFieldsBound
INIT Init
NEXT Next
INVARIANTS
    TypeOK
PROPERTIES
    EnterScaledInBand
