CONSTANTS
    Width = 8
    Vals <- MC_Vals
    SampleWords = {0, 8, 127, 128, 255}
    NoRead = NoRead
    DataFields <- MC_PassFields
    BiasFields <- MC_PassBias

SPECIFICATION Spec

INVARIANTS
    TypeOK
    SignedRead
    BiasRoundTrip
