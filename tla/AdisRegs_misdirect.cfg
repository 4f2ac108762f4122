\* Failed transfers may have delivered any proper prefix of their batch;
\* a later access through the page cache then reads or writes another page.
CONSTANTS
    PageSize = 128
    Pages = {0, 1}
    Registers <- MC_Registers
    Fields <- MC_Fields
    ByteVals = {0, 1}
    HasPaging = TRUE
    PartialFailures = TRUE
    NoRead = NoRead
INIT Init
NEXT Next
PROPERTIES
    RegisterFileSpec
