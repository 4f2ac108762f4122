---------------------------- MODULE AdisLifecycle ----------------------------
(***************************************************************************)
(* Lifecycle and commands of the ADIS IMU driver (src/drivers/imu/adis.c): *)
(* adis_init with adis_initial_startup, adis_remove, and the command       *)
(* writes to GLOB_CMD (software reset, sensor self test, flash memory     *)
(* test, factory calibration restore), composed from the transport of     *)
(* AdisRegs and its page cache.                                            *)
(*                                                                         *)
(* The device executes a command when the command's bit lands in its      *)
(* GLOB_CMD register, and clears the register afterwards.  A reset, by the *)
(* reset line or by the software-reset command, returns the device to its *)
(* default state: PAGE_ID = 0.  A call is an operator to the set of its    *)
(* outcomes [cache, dev, ret, done], done being the commands the device   *)
(* executed during the call; a failing step ends the call, as the code's  *)
(* "if (ret) return ret" does.                                             *)
(***************************************************************************)
EXTENDS Integers, Bitwise

CONSTANTS
    PageSize, Pages, Registers, Fields, ByteVals, HasPaging, PartialFailures,
    NoRead,           \* the constants of AdisRegs
    GlobCmd,          \* the GLOB_CMD register, [addr, size]
    CmdMask,          \* CmdMask[c]: field_map-><c>.field_mask in GLOB_CMD
    DiagStat,         \* the DIAG_STAT register
    ProdId,           \* the PROD_ID register
    SyncField,        \* field_map->sync_mode, [reg, mask]
    InitSyncMode,     \* info->ip->sync_mode
    InitExtClk,       \* info->ip->ext_clk
    InternalModes,    \* ADIS_SYNC_DEFAULT and ADIS_SYNC_OUTPUT: no external clock
    SyncScaled,       \* ADIS_SYNC_SCALED
    SyncModeMax,      \* info->sync_mode_max
    FreqLimits,       \* info->sync_clk_freq_limits[mode]: [min_freq, max_freq]
    UpScaleField,     \* field_map->up_scale, [reg, mask]
    GpioChoices       \* is a reset line present? (info->ip->gpio_reset)

Commands == DOMAIN CmdMask
SwRes == "sw_res"
HwReset == "hw_reset"      \* the device reset by its reset line

VARIABLES
    current_page, dev_page, mem, ret, rd,   \* as in AdisRegs
    gpio_reset,       \* dev->gpio_reset is present
    phase,            \* "off": no device handle; "up": adis_init returned 0
    done,             \* commands the device executed during the last call
    op                \* history: the last call

Regs == INSTANCE AdisRegs WITH wr <- NoRead  \* no write history here

vars == <<current_page, dev_page, mem, ret, rd, gpio_reset, phase, done, op>>

\* The device's GLOB_CMD value (little-endian bytes on its own page).
GlobVal(d) ==
    LET a == Regs!DevAddr(Regs!PageOf(GlobCmd.addr), Regs!Offset(GlobCmd.addr))
    IN  d.mem[a] + 256 * d.mem[a + 1]

\* The commands whose bits the device finds in GLOB_CMD.
Executed(d) == {c \in Commands : (GlobVal(d) & CmdMask[c]) # 0}

\* The device after a reset: back on page 0.
AfterReset(d) == [d EXCEPT !.page = 0]

\* The device after executing GLOB_CMD: the register self-clears, and a
\* software reset returns PAGE_ID to 0.
AfterCmd(d) ==
    LET a == Regs!DevAddr(Regs!PageOf(GlobCmd.addr), Regs!Offset(GlobCmd.addr))
        cleared == [d EXCEPT !.mem[a] = 0, !.mem[a + 1] = 0]
    IN  IF SwRes \in Executed(d) THEN AfterReset(cleared) ELSE cleared

\* A step's outcomes lifted into a call that has already executed cmds.
Lift(outs, cmds) ==
    {[cache |-> o.cache, dev |-> o.dev, ret |-> o.ret, done |-> cmds] : o \in outs}

\* Sequential composition: the second step runs only after success.
AndThen(S, Step(_)) == UNION {IF s.ret # "ok" THEN {s} ELSE Step(s) : s \in S}

\* adis_write_reg(adis, field.reg_addr, field.field_mask, field.reg_size)
\* of a command field, and the device executing what reached GLOB_CMD.
CmdOutcomes(s, c) ==
    {[cache |-> o.cache, dev |-> AfterCmd(o.dev), ret |-> o.ret,
      done |-> s.done \cup Executed(o.dev)]
     : o \in Regs!WriteOutcomes(s.cache, s.dev, GlobCmd.addr, GlobCmd.size, CmdMask[c])}

\* A register read inside a call: its value is not kept.
ReadStep(s, r) == Lift(Regs!ReadOutcomes(s.cache, s.dev, r.addr, r.size), s.done)

\* adis_initial_startup's reset: drive the reset line high if present, else
\* the software-reset command.  The line resets the device only on the
\* edge (pulse): adis_init drives it low first; later it is already high.
ResetStep(s, gpio, pulse) ==
    IF gpio THEN IF pulse THEN {[s EXCEPT !.dev = AfterReset(s.dev),
                                          !.done = s.done \cup {HwReset}]}
                          ELSE {s}
            ELSE CmdOutcomes(s, SwRes)

\* Mutant: the flash memory test dropped from the startup sequence.
InitialStartupNoFlsTest(s, gpio, pulse) ==
    AndThen(AndThen(AndThen(ResetStep(s, gpio, pulse),
        LAMBDA t : CmdOutcomes(t, "snsr_self_test")),
        LAMBDA t : ReadStep(t, DiagStat)),
        LAMBDA t : ReadStep(t, ProdId))

\* adis_initial_startup: reset, self test, flash test, DIAG_STAT read,
\* PROD_ID read (a mismatch only prints a warning).
InitialStartup(s, gpio, pulse) ==
    AndThen(AndThen(AndThen(AndThen(ResetStep(s, gpio, pulse),
        LAMBDA t : CmdOutcomes(t, "snsr_self_test")),
        LAMBDA t : CmdOutcomes(t, "fls_mem_test")),
        LAMBDA t : ReadStep(t, DiagStat)),
        LAMBDA t : ReadStep(t, ProdId))

\* The preferred internal sample-rate band of sync scaled mode.
InBand(rate) == 1900 <= rate /\ rate <= 2100

\* adis_write_field_u32 inside a call.
FieldStep(s, f, v) == Lift(Regs!WriteFieldOutcomes(s.cache, s.dev, f, v), s.done)

\* adis_write_up_scale(u) with adis->clk_freq = cf: read the sync mode back
\* from the device, check the band only if that mode is scaled, then write
\* the up_scale field.
UpScaleOutcomes(s, u, cf) ==
    UNION {IF r.ret # "ok" THEN Lift({r}, s.done)
           ELSE IF Regs!FieldGet(SyncField.mask, r.val) = SyncScaled /\ ~InBand(cf * u)
           THEN Lift({[r EXCEPT !.ret = "EINVAL"]}, s.done)
           ELSE FieldStep([cache |-> r.cache, dev |-> r.dev, ret |-> "ok", done |-> s.done],
                          UpScaleField, u)
           : r \in Regs!ReadOutcomes(s.cache, s.dev, SyncField.reg.addr, SyncField.reg.size)}

\* adis_write_sync_mode(m, clk) inside a call: validate the mode and, for an
\* external clock, its range; in scaled mode write the default up-scale
\* 2100 / clk first; then the sync_mode field.
SyncModeValid(m, clk) ==
    /\ m <= SyncModeMax
    /\ m \notin InternalModes =>
          FreqLimits[m].min_freq <= clk /\ clk <= FreqLimits[m].max_freq

\* Mutant: scaled mode returning after the up-scale write, the sync_mode
\* field never written.
SyncModeOutcomesNoField(s, m, clk) ==
    IF ~SyncModeValid(m, clk) THEN {[s EXCEPT !.ret = "EINVAL"]}
    ELSE IF m = SyncScaled THEN UpScaleOutcomes(s, 2100 \div clk, clk)
    ELSE FieldStep(s, SyncField, m)

SyncModeOutcomes(s, m, clk) ==
    IF ~SyncModeValid(m, clk) THEN {[s EXCEPT !.ret = "EINVAL"]}
    ELSE AndThen(IF m = SyncScaled THEN UpScaleOutcomes(s, 2100 \div clk, clk) ELSE {s},
                 LAMBDA t : FieldStep(t, SyncField, m))

\* The page cache of a new handle (adis_init).
InitialCache == IF HasPaging THEN Regs!NoPage ELSE 0

\* adis_init after the handle is allocated: startup, then
\* adis_write_sync_mode with the chip's init parameters.
InitOutcomes(gpio) ==
    AndThen(InitialStartup([cache |-> InitialCache, dev |-> Regs!Dev,
                            ret |-> "ok", done |-> {}], gpio, TRUE),
            LAMBDA t : SyncModeOutcomes(t, InitSyncMode, InitExtClk))
-----------------------------------------------------------------------------
\* The driver and the device take on an outcome of a call.
Apply(o) ==
    /\ current_page' = o.cache
    /\ dev_page' = o.dev.page
    /\ mem' = o.dev.mem
    /\ ret' = o.ret
    /\ done' = o.done

Init ==
    /\ current_page = Regs!NoPage
    /\ dev_page = 0                          \* power-on default
    /\ mem = [a \in Regs!DevAddrs |-> 0]
    /\ ret = "ok"
    /\ rd = NoRead
    /\ gpio_reset \in GpioChoices
    /\ phase = "off"
    /\ done = {}
    /\ op = "none"

\* adis_init: allocation or no_os_spi_init fails before any transfer, or
\* the startup and sync-mode write run; the handle exists iff all succeed.
AdisInit ==
    /\ phase = "off"
    /\ op' = "init"
    /\ rd' = NoRead
    /\ UNCHANGED gpio_reset
    /\ \/ /\ ret' = "ENOMEM"
          /\ done' = {}
          /\ UNCHANGED <<current_page, dev_page, mem, phase>>
       \/ \E o \in InitOutcomes(gpio_reset) :
             /\ Apply(o)
             /\ phase' = IF o.ret = "ok" THEN "up" ELSE "off"

\* The command call name on a live handle, writing command field c.
CmdCall(name, c) ==
    /\ phase = "up"
    /\ op' = name
    /\ rd' = NoRead
    /\ \E o \in CmdOutcomes([cache |-> current_page, dev |-> Regs!Dev,
                             ret |-> "ok", done |-> {}], c) : Apply(o)
    /\ UNCHANGED <<gpio_reset, phase>>

\* Mutant: adis_cmd_sw_res writing the factory-calibration-restore field.
AdisCmdSwResWrongField == CmdCall(SwRes, "fact_calib_restore")

AdisCmdSwRes == CmdCall(SwRes, SwRes)
AdisCmdSnsrSelfTest == CmdCall("snsr_self_test", "snsr_self_test")
AdisCmdFlsMemTest == CmdCall("fls_mem_test", "fls_mem_test")
AdisCmdFactCalibRestore == CmdCall("fact_calib_restore", "fact_calib_restore")

\* adis_initial_startup called again on a live handle; the reset line,
\* if present, is already high.
AdisInitialStartup ==
    /\ phase = "up"
    /\ op' = "initial_startup"
    /\ rd' = NoRead
    /\ \E o \in InitialStartup([cache |-> current_page, dev |-> Regs!Dev,
                                 ret |-> "ok", done |-> {}], gpio_reset, FALSE) :
          Apply(o)
    /\ UNCHANGED <<gpio_reset, phase>>

\* adis_remove: the handle is freed; the device keeps its state.
AdisRemove ==
    /\ phase = "up"
    /\ phase' = "off"
    /\ op' = "remove"
    /\ done' = {}
    /\ UNCHANGED <<current_page, dev_page, mem, ret, rd, gpio_reset>>

\* Register reads and writes between commands (the accessors of adis.c),
\* GLOB_CMD excepted: it is written only by the command calls.
Access ==
    /\ phase = "up"
    /\ op' = "access"
    /\ done' = {}
    /\ \/ \E r \in Registers : Regs!ReadReg(r)
       \/ \E r \in Registers \ {GlobCmd} : \E v \in Regs!RegVals(r.size) :
             \E o \in Regs!WriteOutcomes(current_page, Regs!Dev, r.addr, r.size, v) :
                Regs!Become(o) /\ rd' = NoRead
    /\ UNCHANGED <<gpio_reset, phase>>

Next ==
    \/ AdisInit
    \/ AdisCmdSwRes \/ AdisCmdSnsrSelfTest \/ AdisCmdFlsMemTest
    \/ AdisCmdFactCalibRestore
    \/ AdisInitialStartup
    \/ AdisRemove
    \/ Access

Spec == Init /\ [][Next]_vars

-----------------------------------------------------------------------------
TypeOK ==
    /\ current_page \in Pages \cup {Regs!NoPage}
    /\ dev_page \in Pages
    /\ mem \in [Regs!DevAddrs -> 0 .. 255]
    /\ ret \in {"ok", "EIO", "EINVAL", "ENOMEM"}
    /\ gpio_reset \in BOOLEAN
    /\ phase \in {"off", "up"}
    /\ done \subseteq Commands \cup {HwReset}

\* The startup sequence was carried out: the device was reset (by the line
\* if there is one, else by the software-reset command) and performed the
\* self test and the flash memory test.
StartupComplete(gpio, d) ==
    /\ IF gpio THEN HwReset \in d ELSE SwRes \in d
    /\ {"snsr_self_test", "fls_mem_test"} \subseteq d

\* adis_init returns 0 only if the device was reset and performed every
\* command adis_initial_startup issued: no command was lost to a page
\* the driver believed selected.
StartupPerformed ==
    [][op' = "init" /\ ret' = "ok" => StartupComplete(gpio_reset, done')]_vars

\* adis_init returns 0 only with the device programmed as the init
\* parameters ask: its sync_mode field holds info->ip->sync_mode, and in
\* sync scaled mode the up-scale written for info->ip->ext_clk puts the
\* sample rate in the 1900-2100 Hz band.  Both writes go through the page
\* cache the reset and the startup commands left behind.
InitSyncProgrammed ==
    [][op' = "init" /\ ret' = "ok" =>
         LET FieldNow(f) == Regs!FieldGet(f.mask, Regs!ContentOf(mem', f.reg))
         IN  /\ FieldNow(SyncField) = InitSyncMode
             /\ InitSyncMode = SyncScaled => InBand(InitExtClk * FieldNow(UpScaleField))]_vars

\* The same for adis_initial_startup called again on a live handle.
RestartPerformed ==
    [][op' = "initial_startup" /\ ret' = "ok" => StartupComplete(gpio_reset, done')]_vars

\* A command call (adis_cmd_sw_res, adis_cmd_snsr_self_test,
\* adis_cmd_fls_mem_test, adis_cmd_fact_calib_restore) that returns 0 was
\* performed by the device.
CommandPerformed ==
    [][op' \in Commands /\ ret' = "ok" => op' \in done']_vars

\* While a handle exists, its page cache agrees with the device's PAGE_ID
\* across resets, command writes and register accesses.
HandleCacheSound == phase = "up" => Regs!CacheSound
=============================================================================
