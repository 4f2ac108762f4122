---------------------------- MODULE MC_AdisCodec ----------------------------
(***************************************************************************)
(* Model for AdisCodec with 8-bit words: fields that fill the word (as the *)
(* 32-bit bias and data fields of the ADIS parts do) and a narrow field   *)
(* at bit 0, like the 12-bit field of the spec's sign-extension example.   *)
(***************************************************************************)
EXTENDS AdisCodec

DataFull   == [reg |-> "data_full", mask |-> 255]
DataLow    == [reg |-> "data_low", mask |-> 15]
BiasFull   == [reg |-> "bias_full", mask |-> 255]
BiasLow    == [reg |-> "bias_low", mask |-> 15]

\* int32_t biases callers pass: negatives, the 4-bit signed limits, 127.
MC_Vals == {-8, -1, 7, 8, 127}

MC_PassFields == {DataFull, DataLow}
MC_PassBias == {BiasFull}
MC_FullData == {DataFull}
MC_NarrowBias == {BiasLow}

=============================================================================
