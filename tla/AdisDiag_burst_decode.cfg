\* Does a burst decode the DIAG_STAT word embedded in its frame the way a
\* status register read decodes it?
CONSTANTS
    FlagMask <- MC_FlagMask
    DiagWords = {0, 2, 512}
    DataBytes = {0, 255}
    BurstSize <- MC_BurstSize
    Burst32Vals = {0, 1, 2}
    Idle = 0
    PartialFailures = FALSE
    BurstRequests = {40}
    FlsMemWrCntrMax = 2
    CntrInit = {1}
    CntrBound = 3
    NoOut = NoOut
INIT Init
NEXT Next
INVARIANTS
    SnapshotMatchesDiagWord
