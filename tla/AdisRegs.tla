------------------------------ MODULE AdisRegs ------------------------------
(***************************************************************************)
(* Paged register transport of the ADIS IMU driver                         *)
(* (src/drivers/imu/adis.c): adis_read_reg, adis_write_reg,                *)
(* adis_update_bits_base and adis_write_field_u32, with the driver's page  *)
(* cache adis->current_page, run against a model of the device: its       *)
(* PAGE_ID register and its byte-addressed register file.                  *)
(*                                                                         *)
(* One call builds a batch of 16-bit SPI messages and hands it to          *)
(* no_os_spi_transfer, which clocks them out in order.  A transfer that    *)
(* fails has delivered some prefix of its batch: none of it when           *)
(* PartialFailures is FALSE, any prefix, the whole batch included, when  *)
(* it is TRUE.                                                             *)
(***************************************************************************)
EXTENDS Integers, Sequences, SequencesExt, Bitwise

CONSTANTS
    PageSize,         \* ADIS_PAGE_SIZE (0x80)
    Pages,            \* pages holding the modelled registers
    Registers,        \* registers: records [addr, size], addr a full address
    Fields,           \* fields: records [reg, mask], reg \in Registers
    ByteVals,         \* byte values a register byte may hold
    HasPaging,        \* info->has_paging
    PartialFailures,  \* may a failed transfer have delivered part of its batch?
    NoRead            \* model value: the last call returned no register value

ASSUME \A r \in Registers : r.size \in {1, 2, 4}
ASSUME \A f \in Fields : f.reg \in Registers

VARIABLES
    current_page,     \* adis->current_page, the driver's page cache
    dev_page,         \* the device's PAGE_ID register
    mem,              \* the device's register bytes, by full address
    ret,              \* return code of the last call
    rd,               \* value returned by the last call, or NoRead
    wr                \* history: [reg, mask, v] if the last call was a write
                      \* of v to the mask's bits of reg that returned 0, else
                      \* NoRead

vars == <<current_page, dev_page, mem, ret, rd, wr>>

NoPage == -1          \* current_page = -1: page not known

PageOf(a) == a \div PageSize
Offset(a) == a % PageSize          \* ADIS_READ_REG / ADIS_WRITE_REG framing
DevAddr(p, o) == p * PageSize + o
RegBytes(r) == {r.addr + i : i \in 0 .. r.size - 1}
Offsets == {Offset(a) : a \in UNION {RegBytes(r) : r \in Registers}}
DevAddrs == {DevAddr(p, o) : p \in Pages, o \in Offsets}

\* Mutant: the byte taken without the & 0xff.
ByteUnmasked(val, i) == val \div 2^(8 * i)

\* Byte i of a register value: (val >> 8*i) & 0xff.
Byte(val, i) == (val \div 2^(8 * i)) % 256

\* The values a register of the given size may hold, bytes from ByteVals.
RECURSIVE LittleEndian(_, _)
LittleEndian(bs, n) ==
    IF n = 0 THEN 0 ELSE LittleEndian(bs, n - 1) + bs[n - 1] * 2^(8 * (n - 1))
RegVals(size) == {LittleEndian(bs, size) : bs \in [0 .. size - 1 -> ByteVals]}

(***************************************************************************)
(* The SPI batch.  A message selects a page (a write of the page number to *)
(* PAGE_ID), writes one byte, or clocks out a read command or the         *)
(* trailing frame that carries the last read's answer.                     *)
(***************************************************************************)
PageMsg(p) == [kind |-> "page", page |-> p, off |-> 0, byte |-> 0]
WrMsg(o, b) == [kind |-> "wr", page |-> 0, off |-> o, byte |-> b]
RdMsg(o) == [kind |-> "rd", page |-> 0, off |-> o, byte |-> 0]

\* The device receiving one message; d is [page, mem].
Deliver(d, m) ==
    CASE m.kind = "page" -> [d EXCEPT !.page = m.page]
      [] m.kind = "wr"   -> [d EXCEPT !.mem[DevAddr(d.page, m.off)] = m.byte]
      [] OTHER           -> d

\* The device after the first k messages of a batch.
Run(d, msgs, k) == FoldLeft(Deliver, d, SubSeq(msgs, 1, k))

\* The page-select message is prepended only when the cache differs.
SelectMsgs(cache, page) ==
    IF cache # page THEN <<PageMsg(page)>> ELSE <<>>

\* adis_read_reg's batch: for 4 bytes the high word (reg + 2) is
\* requested before the low word; a last frame clocks out the answer.
ReadMsgs(cache, reg, size) ==
    SelectMsgs(cache, PageOf(reg))
      \o (IF size = 4 THEN <<RdMsg(Offset(reg + 2))>> ELSE <<>>)
      \o <<RdMsg(Offset(reg)), RdMsg(Offset(reg))>>

\* Mutant: the value's bytes sent highest first.
WriteMsgsSwapped(cache, reg, size, val) ==
    SelectMsgs(cache, PageOf(reg))
      \o [i \in 1 .. size |-> WrMsg(Offset(reg + i - 1), Byte(val, size - i))]

\* adis_write_reg's batch: one byte per message, lowest address first.
WriteMsgs(cache, reg, size, val) ==
    SelectMsgs(cache, PageOf(reg))
      \o [i \in 1 .. size |-> WrMsg(Offset(reg + i - 1), Byte(val, i - 1))]

\* The 16-bit register at offset o of the device's current page.
Word(d, o) == d.mem[DevAddr(d.page, o + 1)] * 256 + d.mem[DevAddr(d.page, o)]

\* Mutant: the words assembled low first (the 4-byte read order reversed).
ReadValueLowFirst(d, reg, size) ==
    IF size = 4 THEN Word(d, Offset(reg)) * 65536 + Word(d, Offset(reg + 2))
                ELSE Word(d, Offset(reg))

\* Mutant: every read assembled as 32 bits, the 2-byte case included.
ReadValueWide(d, reg, size) ==
    Word(d, Offset(reg + 2)) * 65536 + Word(d, Offset(reg))

\* The value assembled from the answers: big-endian rx[0..3] holds the
\* answer for reg + 2 then the one for reg.
ReadValue(d, reg, size) ==
    IF size = 4 THEN Word(d, Offset(reg + 2)) * 65536 + Word(d, Offset(reg))
                ELSE Word(d, Offset(reg))

\* How many messages a failed transfer of n messages delivered: any number,
\* all of them included (the error reported after the last message).
FailPoints(n) == IF PartialFailures THEN 0 .. n ELSE {0}

Result(cache, d, code, val) == [cache |-> cache, dev |-> d, ret |-> code, val |-> val]

(***************************************************************************)
(* Each call is an operator from the driver state (cache, device) to the  *)
(* set of its possible outcomes [cache, dev, ret, val].                    *)
(***************************************************************************)
\* Mutant: current_page set when the page-select message is queued, before
\* the transfer's result is known.
ReadOutcomesEarlyCache(cache, d, reg, size) ==
    IF size \notin {2, 4} THEN {Result(cache, d, "EINVAL", -1)}
    ELSE LET msgs == ReadMsgs(cache, reg, size)
             done == Run(d, msgs, Len(msgs))
         IN  {Result(PageOf(reg), done, "ok", ReadValue(done, reg, size))}
             \cup {Result(PageOf(reg), Run(d, msgs, k), "EIO", -1) : k \in FailPoints(Len(msgs))}

ReadOutcomes(cache, d, reg, size) ==
    IF size \notin {2, 4} THEN {Result(cache, d, "EINVAL", -1)}
    ELSE LET msgs == ReadMsgs(cache, reg, size)
             done == Run(d, msgs, Len(msgs))
         IN  {Result(PageOf(reg), done, "ok", ReadValue(done, reg, size))}
             \cup {Result(cache, Run(d, msgs, k), "EIO", -1) : k \in FailPoints(Len(msgs))}

WriteOutcomes(cache, d, reg, size, val) ==
    IF size \notin {1, 2, 4} THEN {Result(cache, d, "EINVAL", -1)}
    ELSE LET msgs == WriteMsgs(cache, reg, size, val)
         IN  {Result(PageOf(reg), Run(d, msgs, Len(msgs)), "ok", val)}
             \cup {Result(cache, Run(d, msgs, k), "EIO", -1) : k \in FailPoints(Len(msgs))}

\* no_os_field_get / no_os_field_prep: the mask's lowest set bit aligns the field.
Lsb(mask) == CHOOSE i \in 0 .. 31 : (mask \div 2^i) % 2 = 1 /\ mask % 2^i = 0
FieldGet(mask, word) == (word & mask) \div 2^Lsb(mask)
FieldPrep(mask, v) == (v * 2^Lsb(mask)) & mask

\* adis_update_bits_base: read the register, replace the masked bits, write it.
UpdateBitsOutcomes(cache, d, reg, mask, val, size) ==
    UNION {IF r.ret # "ok" THEN {r}
           ELSE WriteOutcomes(r.cache, r.dev, reg, size,
                              (r.val - (r.val & mask)) + FieldPrep(mask, val))
           : r \in ReadOutcomes(cache, d, reg, size)}

\* adis_write_field_u32: reject a value wider than the field, then update.
WriteFieldOutcomes(cache, d, f, v) ==
    IF v > FieldGet(f.mask, f.mask) THEN {Result(cache, d, "EINVAL", -1)}
    ELSE UpdateBitsOutcomes(cache, d, f.reg.addr, f.mask, v, f.reg.size)

-----------------------------------------------------------------------------
Dev == [page |-> dev_page, mem |-> mem]

\* The register r denotes in the device bytes m: its bytes on its own page.
ContentOf(m, r) ==
    LittleEndian([i \in 0 .. r.size - 1 |->
                     m[DevAddr(PageOf(r.addr), Offset(r.addr + i))]], r.size)
RegContent(r) == ContentOf(mem, r)

\* The record of a write that returned 0: v into the mask's bits of r, the
\* whole register for mask 0 (no field has an empty mask).
Written(r, mask, v) == [reg |-> r, mask |-> mask, v |-> v]

\* The driver and the device take on an outcome.
Become(o) ==
    /\ current_page' = o.cache
    /\ dev_page' = o.dev.page
    /\ mem' = o.dev.mem
    /\ ret' = o.ret

Init ==
    /\ current_page = IF HasPaging THEN NoPage ELSE 0
    /\ dev_page \in Pages
    /\ mem \in [DevAddrs -> ByteVals]
    /\ ret = "ok"
    /\ rd = NoRead
    /\ wr = NoRead

\* adis_read_reg on a register, with the register's size.
ReadReg(r) ==
    \E o \in ReadOutcomes(current_page, Dev, r.addr, r.size) :
        /\ Become(o)
        /\ rd' = IF o.ret = "ok" THEN [reg |-> r, val |-> o.val] ELSE NoRead
        /\ wr' = NoRead

\* adis_write_reg of a value of the register's size.
WriteReg(r) ==
    \E v \in RegVals(r.size) :
        \E o \in WriteOutcomes(current_page, Dev, r.addr, r.size, v) :
            /\ Become(o)
            /\ rd' = NoRead
            /\ wr' = IF o.ret = "ok" THEN Written(r, 0, v) ELSE NoRead

\* adis_write_field_u32, values one past the field's width included.
WriteField(f) ==
    \E v \in 0 .. FieldGet(f.mask, f.mask) + 1 :
        \E o \in WriteFieldOutcomes(current_page, Dev, f, v) :
            /\ Become(o)
            /\ rd' = NoRead
            /\ wr' = IF o.ret = "ok" THEN Written(f.reg, f.mask, v) ELSE NoRead

Next ==
    \/ \E r \in Registers : ReadReg(r) \/ WriteReg(r)
    \/ \E f \in Fields : WriteField(f)

Spec == Init /\ [][Next]_vars

-----------------------------------------------------------------------------
TypeOK ==
    /\ current_page \in Pages \cup {NoPage}
    /\ dev_page \in Pages
    /\ mem \in [DevAddrs -> ByteVals]
    /\ ret \in {"ok", "EINVAL", "EIO"}
    /\ rd \in {NoRead} \cup UNION {[reg : {r}, val : RegVals(r.size)] : r \in Registers}
    /\ wr # NoRead => /\ wr.reg \in Registers
                      /\ wr.mask \in {0} \cup {f.mask : f \in Fields}

\* Page cache soundness (adis_read_reg / adis_write_reg, current_page
\* updated only after a successful transfer): whenever the driver believes
\* it knows the device's page, the device really is on that page, so the
\* page-select elision never sends an access to another page.
CacheSound == current_page # NoPage => current_page = dev_page

\* The transport implements a plain register file: every read through the
\* page cache returns the addressed register's value, and every read,
\* write and field update changes no register but the one it addresses.
File == INSTANCE RegisterFile WITH
            Regs <- Registers,
            Vals <- [r \in Registers |-> RegVals(r.size)],
            regs <- [r \in Registers |-> RegContent(r)],
            out  <- rd

RegisterFileSpec == File!Spec

\* A write that returned 0 took effect: the register holds the value
\* adis_write_reg was given; after adis_write_field_u32 the field reads
\* back the value written and every other bit of the register is as
\* before (spec: a field written with V reads back V).  It takes the
\* write's byte order and the read-modify-write's word order to agree;
\* RegisterFileSpec does not see the values written.
WriteApplied ==
    [][wr' # NoRead =>
         LET old == ContentOf(mem, wr'.reg)
             new == ContentOf(mem', wr'.reg)
         IN  IF wr'.mask = 0 THEN new = wr'.v
             ELSE /\ FieldGet(wr'.mask, new) = wr'.v
                  /\ new - (new & wr'.mask) = old - (old & wr'.mask)]_vars

=============================================================================
