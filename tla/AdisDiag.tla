------------------------------ MODULE AdisDiag ------------------------------
(***************************************************************************)
(* Diagnostics tracker and burst acquisition of the ADIS IMU driver        *)
(* (src/drivers/imu/adis.c): the snapshot adis->diag_flags, refreshed by  *)
(* adis_read_diag_stat and its per-flag wrappers, by adis_read_burst_data *)
(* (with adis_validate_checksum) and by the flash write counter read, run  *)
(* against a device whose DIAG_STAT word and flash write counter change.   *)
(*                                                                         *)
(* The register transport is abstracted to "the transfer succeeded" or    *)
(* "the bus reported an error" (AdisRegs models it in detail).  A burst   *)
(* frame is modelled byte for byte at its real length: the DIAG_STAT word  *)
(* big-endian in bytes 1-2, the sample counter's low byte (the last      *)
(* payload byte) varying, the rest zero, and                              *)
(* the 16-bit trailer, correct or with one bit flipped in transit.         *)
(*                                                                         *)
(* The device sends the frame length its burst32 bit selects              *)
(* (adis_write_burst32); adis_read_burst_data reads the length of the     *)
(* caller's burst_size_selection, and past the device's frame receives    *)
(* Idle bytes.  The caller selects by the burst32 value its last          *)
(* successful adis_write_burst32 set.                                      *)
(***************************************************************************)
EXTENDS Integers, Sequences, Bitwise

CONSTANTS
    FlagMask,            \* FlagMask[f]: field_map->diag_<f>_mask
    DiagWords,           \* DIAG_STAT values the device may report
    DataBytes,           \* values of the sample counter's low byte in a frame
    BurstSize,           \* burst_size_bytes[]: [{0, 1} -> frame lengths]
    Burst32Vals,         \* values callers pass to adis_write_burst32
    Idle,                \* the byte the device clocks out past its frame
    PartialFailures,     \* may a write that reports a bus error have landed?
    BurstRequests,       \* burst_data_size values callers pass
    FlsMemWrCntrMax,     \* info->fls_mem_wr_cntr_max
    CntrInit,            \* flash write counts a device may start with
    CntrBound,           \* bound on flash updates explored
    NoOut                \* model value: the last call returned nothing

\* The flags of struct adis_diag_flags decoded from DIAG_STAT.
DecodedFlags == {"data_path_overrun", "spi_comm_err", "diag_standby_mode",
                 "clk_err", "fls_mem_update_failure", "mem_failure",
                 "snsr_failure", "gyro1_failure", "gyro2_failure", "accl_failure"}
ChecksumErr == "checksum_err"
WrCntExceed == "fls_mem_wr_cnt_exceed"
Flags == DecodedFlags \cup {ChecksumErr, WrCntExceed}
NoWord == -1

ASSUME FlagMask \in [DecodedFlags -> Nat \ {0}]
ASSUME \A s \in DOMAIN BurstSize : BurstSize[s] > 3


VARIABLES
    diag,            \* adis->diag_flags
    dev_diag,        \* the device's DIAG_STAT register
    fls_cntr,        \* the device's flash write counter
    ret,             \* return code of the last call
    out,             \* what the last call handed back to its caller
    decoded_from,    \* history: the DIAG_STAT word the snapshot was last read from
    last_burst,      \* history: "none", or how the last completed burst ended
    last_frame,      \* history: the frame the last completed burst received
    last_cntr,       \* history: the flash write count last read, or -1
    dev_burst32,     \* the device's burst32 bit
    known_burst32,   \* the caller's view: the last burst32 written with success
    burst            \* history: [msg_size, dev_len] if the last call was a burst
                     \* read that completed its transfer, else NoOut

vars == <<diag, dev_diag, fls_cntr, ret, out, decoded_from, last_burst, last_frame,
          last_cntr, dev_burst32, known_burst32, burst>>
burst_vars == <<dev_burst32, known_burst32>>

(***************************************************************************)
(* Pure operations                                                         *)
(***************************************************************************)
\* A condition as the 1 : 0 of a flag.
Bit(c) == IF c THEN 1 ELSE 0

\* Mutant: the masked bits stored without the "? 1 : 0" normalisation.
UpdateDiagFlagsRaw(flags, diag_stat) ==
    [f \in Flags |-> IF f \in DecodedFlags THEN diag_stat & FlagMask[f]
                                            ELSE flags[f]]

\* adis_update_diag_flags: every decoded flag is set iff its mask bit is set.
UpdateDiagFlags(flags, diag_stat) ==
    [f \in Flags |-> IF f \in DecodedFlags THEN Bit((diag_stat & FlagMask[f]) # 0)
                                            ELSE flags[f]]

\* adis_validate_checksum: subtract every payload byte from the big-endian
\* trailer in a uint16_t; the frame is good iff the result is zero.
RECURSIVE Subtract(_, _, _)
Subtract(buf, i, checksum) ==
    IF i = 0 THEN checksum
    ELSE Subtract(buf, i - 1, (checksum - buf[i]) % 65536)

\* Mutant: the loop stops one byte early.
ValidateChecksumShort(buf, size) ==
    Subtract(buf, size - 3, buf[size - 1] * 256 + buf[size]) = 0

ValidateChecksum(buf, size) ==
    Subtract(buf, size - 2, buf[size - 1] * 256 + buf[size]) = 0

\* The checksum as the burst protocol defines it: the trailer is the sum
\* of the payload bytes modulo 2^16.
SumBytes(buf, n) == LET S[i \in 0 .. n] == IF i = 0 THEN 0 ELSE S[i - 1] + buf[i]
                    IN  S[n]
ChecksumHolds(buf, size) ==
    buf[size - 1] * 256 + buf[size] = SumBytes(buf, size - 2) % 65536

\* A frame of the given size as the device sends it, trailer flipped when bad.
Frame(size, w, d, good) ==
    LET sum == ((w \div 256) + (w % 256) + d) % 65536
        csum == IF good THEN sum ELSE sum ^^ 1
    IN  [i \in 1 .. size |->
            CASE i = 1        -> w \div 256
              [] i = 2        -> w % 256
              [] i = size - 2 -> d
              [] i = size - 1 -> csum \div 256
              [] i = size     -> csum % 256
              [] OTHER        -> 0]

-----------------------------------------------------------------------------
Init ==
    /\ diag = [f \in Flags |-> 0]              \* no_os_calloc
    /\ dev_diag \in DiagWords
    /\ fls_cntr \in CntrInit
    /\ ret = "ok"
    /\ out = NoOut
    /\ decoded_from = NoWord
    /\ last_burst = "none"
    /\ last_frame = <<>>
    /\ last_cntr = -1
    /\ dev_burst32 = 0              \* the device's default: 16-bit burst
    /\ known_burst32 = 0
    /\ burst = NoOut

\* The bus transfer of a register access reports an error.
BusError ==
    /\ ret' = "EIO"
    /\ out' = NoOut
    /\ burst' = NoOut
    /\ UNCHANGED <<diag, dev_diag, fls_cntr, decoded_from, last_burst, last_frame, last_cntr, burst_vars>>

\* adis_read_diag_stat: read DIAG_STAT, decode it into the snapshot, and
\* return a copy; the per-flag wrappers return one flag of that copy.
ReadDiagStat(f) ==
    \/ BusError
    \/ /\ diag' = UpdateDiagFlags(diag, dev_diag)
       /\ ret' = "ok"
       /\ out' = IF f = NoOut THEN diag' ELSE diag'[f]
       /\ decoded_from' = dev_diag
       /\ burst' = NoOut
       /\ UNCHANGED <<dev_diag, fls_cntr, last_burst, last_frame, last_cntr, burst_vars>>

\* The per-flag wrappers of adis_read_diag_stat.
ReadDiagDataPathOverrun == ReadDiagStat("data_path_overrun")
ReadDiagFlsMemUpdateFailure == ReadDiagStat("fls_mem_update_failure")
ReadDiagSpiCommErr == ReadDiagStat("spi_comm_err")
ReadDiagStandbyMode == ReadDiagStat("diag_standby_mode")
ReadDiagSnsrFailure == ReadDiagStat("snsr_failure")
ReadDiagMemFailure == ReadDiagStat("mem_failure")
ReadDiagClkErr == ReadDiagStat("clk_err")
ReadDiagGyro1Failure == ReadDiagStat("gyro1_failure")
ReadDiagGyro2Failure == ReadDiagStat("gyro2_failure")
ReadDiagAcclFailure == ReadDiagStat("accl_failure")

\* A flag read from the snapshot without a transfer.
ReadCachedFlag(f) ==
    /\ out' = diag[f]
    /\ ret' = "ok"
    /\ burst' = NoOut
    /\ UNCHANGED <<diag, dev_diag, fls_cntr, decoded_from, last_burst, last_frame, last_cntr, burst_vars>>

ReadDiagChecksumErr == ReadCachedFlag(ChecksumErr)
ReadDiagFlsMemWrCntExceed == ReadCachedFlag(WrCntExceed)

\* msg_size = burst_size_bytes[burst_size_selection].
MsgSize(sel) == BurstSize[sel]

\* The clamp of the uint8_t burst_data_size to msg_size - ADIS_CHECKSUM_SIZE.
CopyLen(req, msg_size) ==
    IF req > msg_size - 2 THEN (msg_size - 2) % 256 ELSE req

\* The msg_size bytes received after the command: the device's frame, then
\* Idle bytes once the frame has ended.
Received(msg_size, frame) ==
    [i \in 1 .. msg_size |-> IF i <= Len(frame) THEN frame[i] ELSE Idle]

\* memcpy of n bytes from the receive buffer; bytes past its end (reached
\* only if the clamp fails) are taken as Idle.
Copy(buf, n) == [i \in 1 .. n |-> IF i <= Len(buf) THEN buf[i] ELSE Idle]

\* adis_read_burst_data on a frame failing its checksum.
BurstReject(buf) ==
    /\ diag' = [diag EXCEPT ![ChecksumErr] = 1]
    /\ ret' = "EINVAL"
    /\ out' = NoOut
    /\ last_burst' = "corrupt"
    /\ UNCHANGED decoded_from

\* Mutant: checksum_err left set by a good frame.
BurstAcceptKeepErr(buf, n) ==
    /\ diag' = UpdateDiagFlags(diag, buf[1])
    /\ ret' = "ok"
    /\ out' = Copy(buf, n)
    /\ last_burst' = "ok"
    /\ decoded_from' = buf[1] * 256 + buf[2]

\* adis_read_burst_data on a good frame: clear checksum_err, copy the first
\* n bytes, decode the diagnosis flags from buffer[ADIS_READ_BURST_DATA_CMD_SIZE],
\* a uint8_t passed as adis_update_diag_flags' uint16_t diag_stat.
BurstAccept(buf, n) ==
    /\ diag' = UpdateDiagFlags([diag EXCEPT ![ChecksumErr] = 0], buf[1])
    /\ ret' = "ok"
    /\ out' = Copy(buf, n)
    /\ last_burst' = "ok"
    /\ decoded_from' = buf[1] * 256 + buf[2]

\* adis_read_burst_data with size selection sel and caller buffer size req:
\* one transfer of the command and msg_size bytes, then the checksum.
BurstRead(sel, req) ==
    LET msg_size == MsgSize(sel)
        n == CopyLen(req, msg_size)
        dev_len == BurstSize[dev_burst32]
    IN
    \/ BusError
    \/ /\ \E d \in DataBytes, good \in BOOLEAN :
             LET buf == Received(msg_size, Frame(dev_len, dev_diag, d, good)) IN
             /\ last_frame' = buf
             /\ burst' = [msg_size |-> msg_size, dev_len |-> dev_len]
             /\ IF ValidateChecksum(buf, msg_size) THEN BurstAccept(buf, n)
                                                   ELSE BurstReject(buf)
       /\ UNCHANGED <<dev_diag, fls_cntr, last_cntr, dev_burst32, known_burst32>>

\* Mutant: the field-width check of adis_write_field_u32 skipped.
WriteBurst32Unchecked(v) ==
    /\ dev_burst32' = v
    /\ known_burst32' = v
    /\ ret' = "ok"

\* adis_write_burst32(v): the width check of adis_write_field_u32, the
\* read-modify-write (either transfer may fail; a failed write may still
\* have landed), then the settle delay.
WriteBurst32(v) ==
    \/ /\ v > 1
       /\ ret' = "EINVAL"
       /\ UNCHANGED <<dev_burst32, known_burst32>>
    \/ /\ v <= 1
       /\ dev_burst32' = v
       /\ known_burst32' = v
       /\ ret' = "ok"
    \/ /\ v <= 1
       /\ ret' = "EIO"
       /\ dev_burst32' \in IF PartialFailures THEN {dev_burst32, v} ELSE {dev_burst32}
       /\ UNCHANGED known_burst32

\* A write of burst32 by a caller; no other state changes.
WriteBurst32Call(v) ==
    /\ WriteBurst32(v)
    /\ out' = NoOut
    /\ burst' = NoOut
    /\ UNCHANGED <<diag, dev_diag, fls_cntr, decoded_from, last_burst, last_frame,
                   last_cntr>>

\* Mutant: the exceed flag set at the maximum count already.
CntrReadAtLeast(c) ==
    /\ diag' = IF c >= FlsMemWrCntrMax THEN [diag EXCEPT ![WrCntExceed] = 1] ELSE diag
    /\ last_cntr' = c

\* The flag update of adis_read_fls_mem_wr_cntr after reading count c.
CntrRead(c) ==
    /\ diag' = IF c > FlsMemWrCntrMax THEN [diag EXCEPT ![WrCntExceed] = 1] ELSE diag
    /\ last_cntr' = c

\* adis_read_fls_mem_wr_cntr.
ReadFlsMemWrCntr ==
    \/ BusError
    \/ /\ CntrRead(fls_cntr)
       /\ ret' = "ok"
       /\ out' = fls_cntr
       /\ burst' = NoOut
       /\ UNCHANGED <<dev_diag, fls_cntr, decoded_from, last_burst, last_frame, burst_vars>>

\* adis_cmd_fls_mem_update: the command write, then the counter read.
CmdFlsMemUpdate ==
    /\ fls_cntr < CntrBound
    /\ \/ BusError
       \/ /\ fls_cntr' = fls_cntr + 1
          /\ \/ /\ CntrRead(fls_cntr + 1)
                /\ ret' = "ok"
                /\ out' = NoOut
             \/ /\ ret' = "EIO"
                /\ out' = NoOut
                /\ UNCHANGED <<diag, last_cntr>>
          /\ burst' = NoOut
          /\ UNCHANGED <<dev_diag, decoded_from, last_burst, last_frame, burst_vars>>

\* The device raises or clears status bits.
DeviceDiagChange ==
    /\ dev_diag' \in DiagWords \ {dev_diag}
    /\ UNCHANGED <<diag, fls_cntr, ret, out, decoded_from, last_burst, last_frame, last_cntr, burst_vars, burst>>

Next ==
    \/ ReadDiagStat(NoOut)
    \/ ReadDiagDataPathOverrun \/ ReadDiagFlsMemUpdateFailure \/ ReadDiagSpiCommErr
    \/ ReadDiagStandbyMode \/ ReadDiagSnsrFailure \/ ReadDiagMemFailure
    \/ ReadDiagClkErr \/ ReadDiagGyro1Failure \/ ReadDiagGyro2Failure
    \/ ReadDiagAcclFailure
    \/ ReadDiagChecksumErr \/ ReadDiagFlsMemWrCntExceed
    \/ \E req \in BurstRequests : BurstRead(known_burst32, req)
    \/ \E v \in Burst32Vals : WriteBurst32Call(v)
    \/ ReadFlsMemWrCntr
    \/ CmdFlsMemUpdate
    \/ DeviceDiagChange

Spec == Init /\ [][Next]_vars

-----------------------------------------------------------------------------
TypeOK ==
    /\ diag \in [Flags -> {0, 1}]
    /\ dev_diag \in DiagWords
    /\ fls_cntr \in Nat
    /\ ret \in {"ok", "EIO", "EINVAL"}
    /\ last_burst \in {"none", "ok", "corrupt"}
    /\ dev_burst32 \in {0, 1}

\* adis_read_burst_data accepts a frame exactly when its trailer is the
\* 16-bit sum of its payload bytes: the uint16_t subtraction loop of
\* adis_validate_checksum, run over the frame the last burst received,
\* agrees with the burst protocol's checksum for both frame lengths.
ChecksumAgrees ==
    last_frame # <<>> =>
        (last_burst = "ok" <=> ChecksumHolds(last_frame, Len(last_frame)))

\* checksum_err, read from the snapshot without a transfer, always tells
\* whether the last completed burst was corrupted.
ChecksumErrReflectsLastBurst ==
    diag[ChecksumErr] = 1 <=> last_burst = "corrupt"

\* fls_mem_wr_cnt_exceed agrees with the last flash write count read: set
\* exactly when that count is above the chip's maximum.
WrCntExceedMatchesCounter ==
    last_cntr # -1 => (diag[WrCntExceed] = 1 <=> last_cntr > FlsMemWrCntrMax)

\* Every burst that adis_read_burst_data accepts (returns 0) was read at the length of the
\* frame the device sent, when the caller selects by the burst32 value its
\* last successful adis_write_burst32 set: the driver keeps no burst32 of
\* its own, and the checksum does not catch a misframed zero frame.
FrameMatchesDevice ==
    [][burst' # NoOut /\ ret' = "ok" => burst'.msg_size = burst'.dev_len]_vars

\* Every decoded flag of the snapshot is the decode of the DIAG_STAT word
\* the device reported last, whether it came from the status register or
\* embedded in a burst frame (spec 4.3: "same decode as a direct
\* status-register read").
SnapshotMatchesDiagWord ==
    decoded_from # NoWord =>
        \A f \in DecodedFlags : diag[f] = Bit((decoded_from & FlagMask[f]) # 0)

=============================================================================
