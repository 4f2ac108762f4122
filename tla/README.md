# TLA+ models of the ADIS IMU driver

This directory models `src/drivers/imu/adis.c`, the generic driver of the
ADIS inertial sensors, with TLA+. TLC checks the models. The second source
file, `src/projects/fmcadc2/src/fmcadc2.c`, is board bring-up glue and is not
modelled yet (see *Plan*).

## The system

The driver is single-threaded. Every public function runs to completion
against one device over SPI. The hard behaviours come from three places:

- state the driver keeps about the device (the page cache, the clock
  frequency, the diagnosis flags) and that can go stale;
- bus transfers that fail, possibly after part of their batch reached the
  device;
- long sequences of legal calls.

Its parts, and how they interact:

| Part | Code | Driver state | Operations |
|---|---|---|---|
| Paged register transport | `adis_read_reg`, `adis_write_reg`, `adis_init` (lines 110-126, 232-400) | `current_page` | read 2 or 4 bytes, write 1, 2 or 4 bytes; a page-select message is prepended when the cache differs; the cache is updated only after a successful transfer |
| Field codec | `adis_read_field_u32/s32`, `adis_write_field_u32`, `adis_update_bits_base` (409-486) | none | right-justify a masked field; check the width; read-modify-write |
| Diagnostics tracker | `adis_update_diag_flags`, `adis_read_diag_*` (510-782) | `diag_flags` | decode DIAG_STAT; return a snapshot or one flag |
| Burst reader | `adis_validate_checksum`, `adis_read_burst_data`, `adis_write_burst32` (494-503, 1437-1447, 1780-1814) | `diag_flags.checksum_err` | one transfer of a 20- or 32-byte frame, checksum, copy, decode flags |
| Flash counter | `adis_cmd_fls_mem_update`, `adis_read_fls_mem_wr_cntr` (1563-1575, 1757-1770) | `diag_flags.fls_mem_wr_cnt_exceed` | update flash, read the counter, set a sticky flag above the maximum |
| Sync and clock | `adis_write_sync_mode`, `adis_write_up_scale`, `adis_update_ext_clk_freq` (1245-1281, 1469-1491, 1822-1842) | `ext_clk`, `clk_freq` | choose the sync mode; scale the sample rate into 1900-2100 Hz |
| Config writes and getters | `adis_write_dec_rate` … `adis_write_burst32`, `adis_read_dec_rate` … `adis_read_up_scale` (1114-1526) | none | the setter's own bound (decimation, filter size, polarities only), field width check, field write, settle delay; read a field back |
| Lifecycle and commands | `adis_init`, `adis_initial_startup`, `adis_cmd_*` | the whole device | reset, self test, flash test, identity check |

Every part is built on the transport. The configuration writes go through
the field codec. The up-scale check reads the sync mode back from the device
and trusts `clk_freq`. The burst and the DIAG_STAT read both write the same
flag snapshot.

## Modules

**`RegisterFile`** is the abstract specification of the transport: a plain
file of registers. A read returns the register's value. A write, complete or
failed, changes at most the register it addresses. A rejected call changes
nothing.

**`AdisRegs`** models the transport and the field codec's write path.

- *State.* `current_page` is `adis->current_page`. `dev_page` and `mem` are
  the device's PAGE_ID register and its bytes, by page and offset. `ret` and
  `rd` are the last return code and the last value read.
- *Calls as outcome sets.* Each call is an operator (`ReadOutcomes`,
  `WriteOutcomes`, `UpdateBitsOutcomes`, `WriteFieldOutcomes`) that returns
  the set of possible `[cache, dev, ret, val]` outcomes:
  - the batch of SPI messages is built exactly as the code builds it
    (`SelectMsgs`, `ReadMsgs`, `WriteMsgs`);
  - the device folds the delivered prefix (`Run`, with `FoldLeft`);
  - a failed transfer delivered a prefix: none of it when `PartialFailures`
    is FALSE, any prefix, the whole batch included, when it is TRUE.
- *Actions.* `ReadReg`, `WriteReg` and `WriteField` take one outcome.
- *Refinement.* `RegisterFileSpec` instantiates `RegisterFile` with each
  register's bytes on its own page as `regs`.
- *Write history.* `wr` records the last write that returned 0: the
  register, the field mask (0 for a whole-register write) and the value.
  `WriteApplied` checks the register's content after that step. The
  refinement cannot check this, because its `Write` allows any value.

**`AdisDiag`** models the diagnosis flags, the burst reader and the flash
counter.

- *State.* `diag` is `adis->diag_flags`, with each flag 0 or 1 as the code
  stores it. `dev_diag` and `fls_cntr` are the device's DIAG_STAT and flash
  counter.
- *Frames.* A burst frame carries DIAG_STAT big-endian in bytes 1-2, a
  sample-counter byte at size-2, and the trailer. The checksum is good or
  corrupted.
- *Pure operators.* `Subtract` and `ValidateChecksum` are the code's uint16
  loop, and are checked against the reference `ChecksumHolds`.
- *Frame length.* The device sends the frame length its burst32 bit
  (`dev_burst32`) selects. `adis_read_burst_data` reads the length of the
  caller's `burst_size_selection` (`MsgSize`), receives Idle bytes past the
  device's frame (`Received`), and clamps the copy to the payload
  (`CopyLen`). The driver keeps no burst32 of its own. The caller selects by
  `known_burst32`, the value of its last successful `adis_write_burst32`.
- *Actions.* The ten `ReadDiag*` wrappers, the two cached-flag readers,
  `BurstRead`, `WriteBurst32Call`, `ReadFlsMemWrCntr` and `CmdFlsMemUpdate`.
  `DeviceDiagChange` is the device's own status changing. A failed
  `adis_write_burst32` may have changed the device (`PartialFailures`).
- *History variables.* `decoded_from`, `last_burst`, `last_frame`,
  `last_cntr` and `burst` record what the snapshot was last derived from
  and at which lengths the last burst was read.

**`AdisConfig`** models the sync-mode and clock calls, the nine
configuration writes and the twelve configuration getters.

- *State.* `ext_clk` and `clk_freq` are the driver's fields. `dev_sync` and
  `dev_up_scale` are the device's fields. `dev_cfg` holds the device's
  value of each configuration field and of the read-only `gyro_meas_range`.
  `settle` is the delay the last call waited, and `out` the value the last
  getter handed back.
- *Setter bounds.* `adis_write_dec_rate` and `adis_write_filt_size_var_b`
  check the chip's maximum (`ConfigMax`), the two polarity setters check
  1, and the other five rely on the width check of `adis_write_field_u32`
  alone (`OverBound`, `FitsField`).
- *Getters.* Each `adis_read_<field>` is one `adis_read_field_u32` of its
  field (`ReadField`): the device's value on success, nothing on a bus
  error.
- *Bus abstraction.* The transport is abstracted to "succeeds or fails
  without effect" (`BusErrors`). `AdisRegs` checks the transport itself.

**`AdisLifecycle`** models `adis_init`, `adis_initial_startup`,
`adis_remove` and the command writes to GLOB_CMD.

- *Composition.* It takes the transport from `AdisRegs`
  (`Regs == INSTANCE AdisRegs`, the same variables, and no write history). Each call is a chain of
  the transport's outcome operators. `AndThen` runs the next step only
  after success, as the code's `if (ret) return ret` does.
- *Device.* The device executes the commands whose bits reach its GLOB_CMD
  register, then clears it. A reset, by the reset line or by the
  software-reset command, returns PAGE_ID to 0: the register's default on
  the ADIS parts. The reset line resets the device on its low-to-high edge.
  Only `adis_init` drives it low before `adis_initial_startup` drives it
  high.
- *State.* `gpio_reset` says whether a reset line is present. `phase` says
  whether a handle exists. `done` holds the commands the device executed
  during the last call.
- *Sync mode at init.* `adis_init` ends with `adis_write_sync_mode` on the
  chip's init parameters (`SyncModeOutcomes`). The call validates the mode
  and the clock range (`SyncModeValid`). In scaled mode it then runs
  `adis_write_up_scale` with 2100 / clock (`UpScaleOutcomes`): this reads
  the sync mode back through the page cache, applies the band check only
  if that mode is scaled, and updates UP_SCALE. Last comes the sync_mode
  field update. The handle's `ext_clk` and `clk_freq` are left to
  `AdisConfig`, because `adis_init` frees the handle when this call fails.
- *Actions.* `AdisInit`, the four `AdisCmd*` calls, `AdisInitialStartup`
  called again, `AdisRemove`, and `Access`, the register reads and writes
  of the accessors.

**`AdisCodec`** models the signed fields: the raw data readers
(`adis_read_x_gyro` … `adis_read_z_deltvel`), the bias readers and the bias
writers (`adis_read_xg_bias`, `adis_write_xg_bias` … `za_bias`).

- *Operators.* `FieldGet`, `FieldPrep`, `FindLastSetBit`, `SignExtend`
  (`no_os_sign_extend32`, with the left shift truncated to the word),
  `ReadFieldS32`, `ToUnsigned` (the `int32_t` to `uint32_t` conversion of the
  bias writers), `UpdateBits` and `WriteFieldU32`. The reference is
  `TwosComplement`: the field read as a two's-complement number of its own
  width.
- *State.* `word` holds one register per field. `rd` holds the last read.
  `written` holds the last value each bias writer stored.
- *Actions.* `ReadDataField`, `ReadBiasField`, `WriteBiasField`, and
  `DeviceSample`, where the device puts a new sample in a data register.
- *Scaling.* Words are 8 bits (`Width`) instead of 32, so that every
  intermediate value fits TLC's integers. The conversions keep that width.
  The transport is taken as reliable here, because `AdisRegs` checks it.

The MC modules (`MC_AdisRegs`, `MC_AdisDiag`, `MC_AdisConfig`,
`MC_AdisLifecycle`, `MC_AdisCodec`) supply the chip constants: registers, masks, frequency
limits and command bits.

## Runs

| Run | Checks | Result |
|---|---|---|
| `regs_atomic` (`AdisRegs_atomic.cfg`) | `TypeOK`, `CacheSound`, `RegisterFileSpec`, `WriteApplied` | pass, 4352 states |
| `regs_misdirect` (`AdisRegs_misdirect.cfg`) | `RegisterFileSpec` | violation |
| `diag` (`AdisDiag.cfg`) | `TypeOK`, `ChecksumAgrees`, `ChecksumErrReflectsLastBurst`, `WrCntExceedMatchesCounter` | pass, 39018 states |
| `diag_burst_decode` (`AdisDiag_burst_decode.cfg`) | `SnapshotMatchesDiagWord` | violation |
| `diag_partial_write` (`AdisDiag_partial_write.cfg`) | `FrameMatchesDevice` | violation |
| `config` (`AdisConfig.cfg`) | `TypeOK`, `EnterScaledInBand` | pass, 62688 states |
| `config_clk_freq` (`AdisConfig_clk_freq.cfg`) | `ClkFreqMatchesMode` | violation |
| `lifecycle` (`AdisLifecycle.cfg`) | `TypeOK`, `HandleCacheSound`, `StartupPerformed`, `CommandPerformed`, `InitSyncProgrammed` | pass, 42306 states |
| `lifecycle_reset_page` (`AdisLifecycle_reset_page.cfg`) | `StartupPerformed` | violation |
| `lifecycle_restart` (`AdisLifecycle_restart.cfg`) | `RestartPerformed` | violation |
| `codec` (`AdisCodec.cfg`) | `TypeOK`, `SignedRead`, `BiasRoundTrip` | pass, 1800 states |
| `codec_narrow_bias` (`AdisCodec_narrow_bias.cfg`) | `BiasRoundTrip` | violation |

What the runs show:

- **regs_atomic.** With all-or-nothing transfers, the page cache is sound,
  and the paged transport with page-select elision implements a plain
  register file. This covers 4-byte reads assembled from two words and
  read-modify-write field updates, including values one past the field's
  width. Every write that returns 0 leaves the value written. A field
  update leaves the field reading back its value and the register's other
  bits as they were: the write's low-byte-first order and the read's
  high-word-first order agree.
- **regs_misdirect.** With partial delivery, TLC finds this sequence:
  1. a read of register R1 on page 0;
  2. an access of a page-1 register (a read of R2 or R3, or a write of R2
     that also delivers a data byte) that fails after its PAGE_ID write was
     delivered, leaving the device on page 1 and the cache on page 0;
  3. an access of R1, which the cache sends without a page-select: a write
     lands on page 1's bytes, or a read returns them.
- **diag.** The checksum loop agrees with the sum over both frame lengths.
  `checksum_err` is set exactly when the last completed burst was corrupt,
  and DIAG_STAT reads that rewrite the other flags leave it alone. The
  exceed flag matches the last count read, at the boundary (maximum 2,
  counts 1 to 3) and across flash updates whose counter read fails.
- **diag_burst_decode.** A good burst from a device reporting
  data_path_overrun (DIAG_STAT = 2) clears that flag. The code decodes only
  the high byte of DIAG_STAT (line 1811).
- **diag_partial_write.** `FrameMatchesDevice` is an action property: every
  step in which `adis_read_burst_data` returns 0 read the device's frame
  length. TLC finds this sequence:
  1. `adis_write_burst32(1)` returns -EIO after its write reached the
     device;
  2. the caller still selects 20-byte frames, and reads the first 20 bytes
     of a 32-byte zero frame;
  3. bytes 19-20 (zero) equal the sum of bytes 1-18, so the burst returns 0
     with the 16-bit layout applied to 32-bit data.
- **config.** Entering scaled mode always writes an up-scale whose product
  with the clock is in band, under bus errors and every legal clock. No field
  receives a value wider than its mask: the five setters without a bound of
  their own are stopped by `adis_write_field_u32`'s width check (a one-bit
  field given 2), and `sens_bw` takes 2 in its three bits.
- **config_clk_freq.** `adis_write_sync_mode(scaled, 1 Hz)` followed by
  `adis_update_ext_clk_freq(100)` leaves `clk_freq = 1` and `ext_clk = 100`.
  The stale `clk_freq` then decides `adis_write_up_scale`'s band check.
- **lifecycle.** With GLOB_CMD on page 0, as on the parts without paging:
  - every command of the startup sequence, and every command call that
    returns 0, is performed by the device;
  - the page cache stays sound across resets, failed and repeated
    `adis_init`, and register accesses on both pages;
  - an `adis_init` that returns 0 has left the device in sync scaled mode
    (MSC_CTRL on page 1) with UP_SCALE = 2100 / 100 = 21, so the sample
    rate is in band.
- **lifecycle_reset_page.** With GLOB_CMD on page 1 and no reset line, the
  software reset sends the device to page 0 while `current_page` stays 1.
  The self test and the flash test are then written to DIAG_STAT on page 0,
  and `adis_init` returns 0 with only the reset performed.
- **lifecycle_restart.** With a reset line, a second
  `adis_initial_startup` resets nothing but returns 0.
- **codec.** Consider a full-width and a narrow field, both at bit 0, as in
  the spec's 12-bit example. The signed readers decode two's complement of
  the field's width for every sampled word. A full-width bias reads back
  what its writer stored, negatives included.
- **codec_narrow_bias.** Under mask 0x0F, `adis_write_*_bias(8)` succeeds
  and the reader returns -8. Every negative bias is rejected with -EINVAL.

Every property of a passing run has a mutant in `PROJECT.json`: an operator,
defined just before the one it replaces, that plants a plausible bug, and
with which TLC finds the property violated.

## Bounds and why they are enough

- **AdisRegs.**
  - Two pages, with a 4-byte register on page 0 and 2-byte and 1-byte
    registers on page 1. All three share offsets 16-19, so a misdirected
    access lands on real bytes.
  - Bytes range over {0, 1}. A field on each multi-byte register, one at
    bit 8, so the lsb > 0 alignment is exercised.
  - Every call's full outcome set is enumerated. Each state is reached with
    the cache unknown, right and (under partial failure) wrong.
- **AdisDiag.**
  - The real frame lengths 20 and 32.
  - DIAG_STAT values 0, 2 (a low-byte flag) and 512 (a high-byte flag).
  - A caller request of 40 bytes, above both payloads, so the clamp acts.
  - burst32 values 0, 1 and 2 (the last is out of the field's range).
  - A DIAG_STAT of 0, which makes zero frames, the frames a misframed read
    can accept.
  - A write-count maximum of 2, crossed by counts 1 to 3.
- **AdisConfig.**
  - The four sync modes plus one beyond `sync_mode_max`.
  - Clocks below, inside and above the limits of direct (1900-2100 Hz) and
    scaled (1-128 Hz) modes.
  - Up-scale values that are in band, out of band, and wider than the
    16-bit field.
  - Every field starts at 0: the device's reset values are not in the
    driver's source. The constraint `ChangedFieldsBound` explores further
    only states with at most one field away from 0. A state it cuts off is
    still reached and checked, so every write and getter meets a changed
    field, and a second write is checked not to disturb the first. No call
    reads one bounded field while writing another. Without the bound the
    run takes more than six minutes.

- **AdisLifecycle.** Two pages and five 2-byte registers. In `Layout1`,
  GLOB_CMD (page 1) and DIAG_STAT (page 0) share an offset, so a
  misdirected command lands on a real register. The reset line is both
  present and absent. Every call may fail on the bus. The registers start
  at 0 and the accessors write 0 or 4. Only the sync-mode field and
  UP_SCALE matter to a property. The passing run uses sync scaled mode
  with a 100 Hz clock, so that init takes its longest path: the read-back,
  the up-scale and the mode write. The violation runs use direct mode at
  2000 Hz.
- **AdisCodec.** The word is 8 bits wide. The masks are 0xFF (full width),
  and 0x0F (narrow at bit 0). The sampled words
  0, 8, 127, 128 and 255 put each field on both sides of its sign bit. The
  biases -8, -1, 7, 8 and 127 are negative, at the 4-bit signed limits and
  beyond them.

## Fairness

None is assumed and no liveness property is stated. The driver has no
threads, callbacks or retries. Every call terminates after a bounded number
of transfers, so safety is all there is to check. The models do not stop:
every state has a successor, so deadlock is checked.

## Not modelled, and why

- **Signed fields whose mask starts above bit 0.** `adis_read_field_s32`
  reads them as unsigned. The sign extension starts from the mask's top bit,
  which the right-justified field never reaches: `SignedRead` fails for
  mask 0xF0. No chip descriptor under `src/` defines such a field, so no
  run explores one.
- **Burst size selections past `burst_size_bytes[]`.** The spec's burst
  width has two values, and the model's caller passes 0 or 1. Past the
  array, `msg_size` is undefined. A byte below 2 would wrap the `uint8_t`
  clamp to 254 (line 1789), and the memcpy would overrun the frame.
- **fmcadc2.** Spec section 1 puts board bring-up out of scope as glue.
  `main()` is straight-line code whose only state is its local handles.
  Every step calls a driver (`ad9625_setup`, `adxcvr_init`,
  `axi_jesd204_rx_init`, `axi_adc_init`, `axi_dmac_init`) that is not in
  this repository, so what a failing call leaves in its out-pointer cannot
  be translated from source. Every status is printed and ignored (lines
  161-209). A use of a handle after its init failed, such as
  `ad9625_xcvr->name` at line 169, is visible without a model.
- **Left out as pure data movement:** the readers that change no state (raw
  data, firmware, identity).
- **Left out as formatting or timing only:** the delays (`no_os_mdelay`,
  `no_os_udelay`), recorded only as which settle delay was waited; SPI
  chip-select timing; and `pr_warning`.

## Plan

The five modules above are built. The remaining work:

1. **Lifecycle, next step.** Compose the DIAG_STAT read of the startup
   with `AdisDiag`'s flag decode.
2. **Configurations.** Run `AdisCodec` and `AdisDiag` over the field and
   flag layouts of further ADIS parts, when their chip descriptors are in
   the repository.
