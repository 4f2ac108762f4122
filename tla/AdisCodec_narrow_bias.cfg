CONSTANTS
    Width = 8
    Vals <- MC_Vals
    SampleWords = {0, 8, 127, 128, 255}
    NoRead = NoRead
    DataFields <- MC_FullData
    BiasFields <- MC_NarrowBias

SPECIFICATION Spec

INVARIANTS
    BiasRoundTrip
