----------------------------- MODULE AdisConfig -----------------------------
(***************************************************************************)
(* Configuration validator of the ADIS IMU driver (src/drivers/imu/adis.c) *)
(* : synchronisation mode and clock (adis_write_sync_mode,                 *)
(* adis_write_up_scale, adis_update_ext_clk_freq) with the driver's        *)
(* adis->ext_clk and adis->clk_freq, and the bounded configuration writes *)
(* (decimation rate, filter size, polarities, bandwidth, enable bits,     *)
(* burst selection), each validated, written with adis_write_field_u32    *)
(* and followed by its settle delay, and the getters that read them back  *)
(* with adis_read_field_u32.                                               *)
(*                                                                         *)
(* A register access either succeeds or returns a bus error without       *)
(* changing the register (AdisRegs models the transport itself).  The     *)
(* device's configuration fields are kept as values, one per field.       *)
(***************************************************************************)
EXTENDS Integers

CONSTANTS
    SyncDefault, SyncDirect, SyncScaled, SyncOutput,  \* enum adis_sync_mode
    SyncModeMax,        \* info->sync_mode_max
    FreqLimits,         \* info->sync_clk_freq_limits[mode]: [min_freq, max_freq]
    IntClk,             \* info->int_clk
    UpScaleFieldMax,    \* width of the up_scale field's mask
    SyncModes,          \* sync_mode values callers pass
    ExtClks,            \* clock frequencies callers pass
    UpScales,           \* up_scale values callers pass
    ConfigMax,          \* info->dec_rate_max, info->filt_size_var_b_max
    FieldMax,           \* FieldMax[f]: the largest value f's mask holds
    Settle,             \* Settle[f]: the settle delay applied after writing f
    ConfigVals,         \* values callers pass for the bounded fields
    CfgDefault,         \* CfgDefault[f]: the device's value of f after reset
    BusErrors           \* may register accesses fail?

ConfigFields == {"dec_rate", "filt_size_var_b", "dr_polarity", "sync_polarity",
                 "sens_bw", "pt_of_perc_algnmt", "linear_accl_comp",
                 "burst_sel", "burst32"}
\* Fields the driver reads but never writes.
ReadOnlyFields == {"gyro_meas_range"}
DevFields == ConfigFields \cup ReadOnlyFields
NoOut == [reg |-> "none", val |-> 0]   \* the last call handed back no value

ExternalModes == {m \in SyncModes : m \notin {SyncDefault, SyncOutput}}
ASSUME \A m \in ExternalModes \cap 0 .. SyncModeMax : FreqLimits[m].min_freq > 0

VARIABLES
    ext_clk,        \* adis->ext_clk
    clk_freq,       \* adis->clk_freq
    dev_sync,       \* the device's sync_mode field
    dev_up_scale,   \* the device's up_scale field
    dev_cfg,        \* dev_cfg[f]: the device's configuration field f
    ret,            \* return code of the last call
    settle,         \* the settle delay the last call waited, or "none"
    op,             \* history: the last call
    out             \* the last getter's [reg, val] (field read, value), or NoOut

vars == <<ext_clk, clk_freq, dev_sync, dev_up_scale, dev_cfg, ret, settle, op, out>>

\* The preferred internal sample-rate band of sync scaled mode.
InBand(rate) == 1900 <= rate /\ rate <= 2100

\* Outcome of one register access: success always, failure if allowed.
BusResults == IF BusErrors THEN {TRUE, FALSE} ELSE {TRUE}

\* adis_write_field_u32's width check.
FitsField(v, max) == v <= max

\* Mutant: the default up-scale rounded up.
DefaultUpScaleCeil(clk) == (2100 + clk - 1) \div clk

\* The default up-scale written on entering sync scaled mode.
DefaultUpScale(clk) == 2100 \div clk

\* Mutant: the field-width check of adis_write_field_u32 skipped.
UpScaleOutcomesUnchecked(s, cf) ==
    LET fail == [ret |-> "EIO", up |-> dev_up_scale]
        reject == [ret |-> "EINVAL", up |-> dev_up_scale]
    IN  (IF BusErrors THEN {fail} ELSE {})
        \cup (IF dev_sync = SyncScaled /\ ~InBand(cf * s) THEN {reject}
              ELSE {[ret |-> "ok", up |-> s]} \cup (IF BusErrors THEN {fail} ELSE {}))

\* adis_write_up_scale(s) with adis->clk_freq = cf: read the device's sync
\* mode, check the band only if that mode is scaled, then write the field.
\* The set of possible [ret, up] outcomes.
UpScaleOutcomes(s, cf) ==
    LET fail == [ret |-> "EIO", up |-> dev_up_scale]
        reject == [ret |-> "EINVAL", up |-> dev_up_scale]
    IN  (IF BusErrors THEN {fail} ELSE {})
        \cup (IF dev_sync = SyncScaled /\ ~InBand(cf * s) THEN {reject}
              ELSE IF ~FitsField(s, UpScaleFieldMax) THEN {reject}
              ELSE {[ret |-> "ok", up |-> s]} \cup (IF BusErrors THEN {fail} ELSE {}))

\* The closing adis_write_field_u32 of the sync_mode field.
WriteSyncField(m) ==
    \E ok \in BusResults :
        /\ dev_sync' = IF ok THEN m ELSE dev_sync
        /\ ret' = IF ok THEN "ok" ELSE "EIO"

Reject(code) ==
    /\ ret' = code
    /\ UNCHANGED <<ext_clk, clk_freq, dev_sync, dev_up_scale>>

Init ==
    \* as adis_init leaves a device brought up in the default sync mode
    /\ ext_clk = 0
    /\ clk_freq = IntClk
    /\ dev_sync = SyncDefault
    /\ dev_up_scale \in {u \in UpScales : FitsField(u, UpScaleFieldMax)}
    /\ dev_cfg = CfgDefault
    /\ ret = "ok"
    /\ settle = "none"
    /\ op = "none"
    /\ out = NoOut

\* adis_write_sync_mode(m, clk).
WriteSyncMode(m, clk) ==
    /\ op' = "write_sync_mode"
    /\ settle' = "none"
    /\ out' = NoOut
    /\ UNCHANGED dev_cfg
    /\ IF m > SyncModeMax THEN Reject("EINVAL")
       ELSE IF m \in ExternalModes
       THEN IF clk < FreqLimits[m].min_freq \/ clk > FreqLimits[m].max_freq
            THEN Reject("EINVAL")
            ELSE /\ ext_clk' = clk
                 /\ clk_freq' = clk
                 /\ IF m = SyncScaled
                    THEN \E u \in UpScaleOutcomes(DefaultUpScale(clk), clk) :
                            /\ dev_up_scale' = u.up
                            /\ IF u.ret = "ok" THEN WriteSyncField(m)
                                               ELSE ret' = u.ret /\ UNCHANGED dev_sync
                    ELSE WriteSyncField(m) /\ UNCHANGED dev_up_scale
       ELSE /\ clk_freq' = IntClk
            /\ WriteSyncField(m)
            /\ UNCHANGED <<ext_clk, dev_up_scale>>

\* adis_write_up_scale(s) called by a user.
WriteUpScale(s) ==
    /\ op' = "write_up_scale"
    /\ settle' = "none"
    /\ out' = NoOut
    /\ \E u \in UpScaleOutcomes(s, clk_freq) :
          dev_up_scale' = u.up /\ ret' = u.ret
    /\ UNCHANGED <<ext_clk, clk_freq, dev_sync, dev_cfg>>

\* adis_update_ext_clk_freq(f): read the sync mode; in an external mode
\* check the range; record the clock.
UpdateExtClkFreq(f) ==
    /\ op' = "update_ext_clk_freq"
    /\ settle' = "none"
    /\ out' = NoOut
    /\ UNCHANGED <<clk_freq, dev_sync, dev_up_scale, dev_cfg>>
    /\ \E ok \in BusResults :
          IF ~ok THEN ret' = "EIO" /\ UNCHANGED ext_clk
          ELSE IF dev_sync \in ExternalModes
                  /\ (f < FreqLimits[dev_sync].min_freq \/ f > FreqLimits[dev_sync].max_freq)
          THEN ret' = "EINVAL" /\ UNCHANGED ext_clk
          ELSE ret' = "ok" /\ ext_clk' = f

\* The setters with a bound of their own: the chip's maximum for the
\* decimation rate and filter size, 1 for the two polarities.  The other
\* five setters rely on adis_write_field_u32's width check alone.
ChipBounded == {"dec_rate", "filt_size_var_b"}
PolarityFields == {"dr_polarity", "sync_polarity"}
OverBound(f, v) ==
    \/ f \in ChipBounded /\ v > ConfigMax[f]
    \/ f \in PolarityFields /\ v > 1

\* A configuration write: the setter's own bound if it has one, the field
\* width, the read-modify-write, then the settle delay on success only.
WriteConfig(f, v) ==
    /\ op' = "write_config"
    /\ out' = NoOut
    /\ UNCHANGED <<ext_clk, clk_freq, dev_sync, dev_up_scale>>
    /\ IF OverBound(f, v) \/ ~FitsField(v, FieldMax[f])
       THEN ret' = "EINVAL" /\ settle' = "none" /\ UNCHANGED dev_cfg
       ELSE \E ok \in BusResults :
               /\ dev_cfg' = IF ok THEN [dev_cfg EXCEPT ![f] = v] ELSE dev_cfg
               /\ ret' = IF ok THEN "ok" ELSE "EIO"
               /\ settle' = IF ok THEN Settle[f] ELSE "none"

\* The driver's bounded configuration writes, one per field.
WriteDecRate(v) == WriteConfig("dec_rate", v)
WriteFiltSizeVarB(v) == WriteConfig("filt_size_var_b", v)
WriteDrPolarity(v) == WriteConfig("dr_polarity", v)
WriteSyncPolarity(v) == WriteConfig("sync_polarity", v)
WriteSensBw(v) == WriteConfig("sens_bw", v)
WritePtOfPercAlgnmt(v) == WriteConfig("pt_of_perc_algnmt", v)
WriteLinearAcclComp(v) == WriteConfig("linear_accl_comp", v)
WriteBurstSel(v) == WriteConfig("burst_sel", v)
WriteBurst32(v) == WriteConfig("burst32", v)

\* A getter: adis_read_field_u32 of the field, whose value the device
\* holds; on a bus error nothing is handed back.
ReadField(name, val) ==
    /\ op' = "read"
    /\ settle' = "none"
    /\ \E ok \in BusResults :
          /\ ret' = IF ok THEN "ok" ELSE "EIO"
          /\ out' = IF ok THEN [reg |-> name, val |-> val] ELSE NoOut
    /\ UNCHANGED <<ext_clk, clk_freq, dev_sync, dev_up_scale, dev_cfg>>

\* The driver's getters, one per field.
ReadDecRate == ReadField("dec_rate", dev_cfg["dec_rate"])
ReadFiltSizeVarB == ReadField("filt_size_var_b", dev_cfg["filt_size_var_b"])
ReadGyroMeasRange == ReadField("gyro_meas_range", dev_cfg["gyro_meas_range"])
ReadDrPolarity == ReadField("dr_polarity", dev_cfg["dr_polarity"])
ReadSyncPolarity == ReadField("sync_polarity", dev_cfg["sync_polarity"])
ReadSyncMode == ReadField("sync_mode", dev_sync)
ReadSensBw == ReadField("sens_bw", dev_cfg["sens_bw"])
ReadPtOfPercAlgnmt == ReadField("pt_of_perc_algnmt", dev_cfg["pt_of_perc_algnmt"])
ReadLinearAcclComp == ReadField("linear_accl_comp", dev_cfg["linear_accl_comp"])
ReadBurstSel == ReadField("burst_sel", dev_cfg["burst_sel"])
ReadBurst32 == ReadField("burst32", dev_cfg["burst32"])
ReadUpScale == ReadField("up_scale", dev_up_scale)

Next ==
    \/ \E m \in SyncModes, clk \in ExtClks : WriteSyncMode(m, clk)
    \/ \E s \in UpScales : WriteUpScale(s)
    \/ \E f \in ExtClks : UpdateExtClkFreq(f)
    \/ \E v \in ConfigVals :
          \/ WriteDecRate(v) \/ WriteFiltSizeVarB(v) \/ WriteDrPolarity(v)
          \/ WriteSyncPolarity(v) \/ WriteSensBw(v) \/ WritePtOfPercAlgnmt(v)
          \/ WriteLinearAcclComp(v) \/ WriteBurstSel(v) \/ WriteBurst32(v)
    \/ ReadDecRate \/ ReadFiltSizeVarB \/ ReadGyroMeasRange \/ ReadDrPolarity
    \/ ReadSyncPolarity \/ ReadSyncMode \/ ReadSensBw \/ ReadPtOfPercAlgnmt
    \/ ReadLinearAcclComp \/ ReadBurstSel \/ ReadBurst32 \/ ReadUpScale

Spec == Init /\ [][Next]_vars

-----------------------------------------------------------------------------
TypeOK ==
    /\ ext_clk \in ExtClks \cup {0}
    /\ clk_freq \in ExtClks \cup {0, IntClk}
    /\ dev_sync \in SyncModes
    /\ dev_up_scale \in 0 .. UpScaleFieldMax
    /\ DOMAIN dev_cfg = DevFields
    /\ \A f \in ConfigFields : dev_cfg[f] \in 0 .. FieldMax[f]
    /\ out = NoOut \/ out.val \in Nat
    /\ ret \in {"ok", "EINVAL", "EIO"}

\* adis_write_sync_mode into sync scaled mode: when it succeeds, the clock
\* it was given times the up-scale it chose (2100 / clk_freq, written with
\* the band check skipped because the device was not yet scaled) lies in
\* the 1900-2100 Hz band.
EnterScaledInBand ==
    [][op' = "write_sync_mode" /\ ret' = "ok" /\ dev_sync' = SyncScaled =>
           InBand(clk_freq' * dev_up_scale')]_vars

\* adis->clk_freq, which adis_write_up_scale checks the band against,
\* describes the mode the device is in: the internal clock in the default
\* and output modes, the external clock last recorded otherwise.
ClkFreqMatchesMode ==
    IF dev_sync \in ExternalModes THEN clk_freq = ext_clk ELSE clk_freq = IntClk

=============================================================================
