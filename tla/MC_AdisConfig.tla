---------------------------- MODULE MC_AdisConfig ----------------------------
(***************************************************************************)
(* Model for AdisConfig with the ADIS1650x sync tables: direct sync at    *)
(* 1900-2100 Hz, scaled sync at 1-128 Hz, internal clock 2000 Hz.  Clocks *)
(* at and around both range ends, a one-bit field max for the enable bits *)
(* and polarities, and a chip maximum of 1 on decimation and filter size  *)
(* so that 2 is rejected by the setter; sens_bw (3 bits) takes 2, and the *)
(* one-bit fields without a bound of their own reject 2 by width.          *)
(***************************************************************************)
EXTENDS AdisConfig, FiniteSets

MC_FreqLimits == [m \in 0 .. 3 |->
                     CASE m = 1 -> [min_freq |-> 1900, max_freq |-> 2100]
                       [] m = 2 -> [min_freq |-> 1, max_freq |-> 128]
                       [] OTHER -> [min_freq |-> 0, max_freq |-> 0]]
MC_ConfigMax == [f \in ChipBounded |-> 1]
MC_FieldMax == [f \in ConfigFields |->
                   IF f \in {"dec_rate", "filt_size_var_b", "sens_bw"} THEN 7 ELSE 1]
MC_Settle == [f \in ConfigFields |->
                 CASE f = "dec_rate"        -> "dec_rate_update_us"
                   [] f = "filt_size_var_b" -> "filt_size_var_b_update_us"
                   [] f = "sens_bw"         -> "sens_bw_update_ms"
                   [] OTHER                 -> "msc_reg_update_us"]
\* The device's reset values are not in the driver's source: every field
\* starts at 0 here, a value each field's mask holds.
MC_CfgDefault == [f \in DevFields |-> 0]

\* Exploration bound: at most ChangedFieldsMax fields away from their reset
\* value in a state that is explored further.  A state the bound cuts off
\* is still reached and checked, so every write and getter still meets one
\* field that differs from its reset value, and a second write is checked
\* not to disturb the first.  No call reads one bounded field while
\* writing another.
ChangedFieldsMax == 1
ChangedFieldsBound ==
    Cardinality({f \in DevFields : dev_cfg[f] # MC_CfgDefault[f]}) <= ChangedFieldsMax

=============================================================================
