\* Transfers that fail deliver none of their messages.
CONSTANTS
    PageSize = 128
    Pages = {0, 1}
    Registers <- MC_Registers
    Fields <- MC_Fields
    ByteVals = {0, 1}
    HasPaging = TRUE
    PartialFailures = FALSE
    NoRead = NoRead
INIT Init
NEXT Next
INVARIANTS
    TypeOK
    CacheSound
PROPERTIES
    RegisterFileSpec
    WriteApplied
