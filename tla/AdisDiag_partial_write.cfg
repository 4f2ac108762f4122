\* A failed adis_write_burst32 may still have switched the device's frame
\* length: is every accepted burst still read at the device's length?
CONSTANTS
    FlagMask <- MC_FlagMask
    DiagWords = {0, 2, 512}
    DataBytes = {0, 255}
    BurstSize <- MC_BurstSize
    Burst32Vals = {0, 1, 2}
    Idle = 0
    PartialFailures = TRUE
    BurstRequests = {40}
    FlsMemWrCntrMax = 2
    CntrInit = {1}
    CntrBound = 3
    NoOut = NoOut
INIT Init
NEXT Next
PROPERTIES
    FrameMatchesDevice
