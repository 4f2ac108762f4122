------------------------------ MODULE AdisCodec ------------------------------
(***************************************************************************)
(* Signed fields of the ADIS IMU driver (src/drivers/imu/adis.c): the raw  *)
(* data and bias readers (adis_read_field_s32: no_os_field_get, then       *)
(* no_os_sign_extend32 from no_os_find_last_set_bit(mask)) and the bias    *)
(* writers (an int32_t passed to adis_write_field_u32's uint32_t, the      *)
(* width check, the read-modify-write of adis_update_bits_base).           *)
(*                                                                         *)
(* Register words are Width bits wide (32 in the code; scaled down so that *)
(* TLC's integers hold every intermediate value), and the conversions keep *)
(* that width.  Bus transfers always succeed here: AdisRegs models them.  *)
(***************************************************************************)
EXTENDS Integers, Bitwise

CONSTANTS
    Width,          \* bits of a register word (uint32_t / int32_t)
    DataFields,     \* raw data fields (x_gyro ... temp_out): [reg, mask]
    BiasFields,     \* bias fields (xg_bias ... za_bias): [reg, mask]
    Vals,           \* int32_t values callers pass to the bias writers
    SampleWords,    \* register words the device produces for data fields
    NoRead          \* model value: no field read yet

Fields == DataFields \cup BiasFields
RegIds == {f.reg : f \in Fields}
WordMax == 2^Width - 1

VARIABLES
    word,           \* word[r]: the device register r
    ret,            \* return code of the last call
    rd,             \* the last field read: [field, word, val], or NoRead
    written         \* written[f]: the last value a bias writer stored in f

vars == <<word, ret, rd, written>>

\* The mask's lowest set bit, which no_os_field_get / no_os_field_prep
\* align the field to.
FieldLsb(mask) == CHOOSE i \in 0 .. Width - 1 : (mask \div 2^i) % 2 = 1 /\ mask % 2^i = 0

\* Mutant: no_os_find_first_set_bit, the mask's lowest set bit.
FindFirstSetBit(mask) == CHOOSE i \in 0 .. Width - 1 : (mask \div 2^i) % 2 = 1 /\ mask % 2^i = 0

\* no_os_find_last_set_bit: the mask's highest set bit.
FindLastSetBit(mask) == CHOOSE i \in 0 .. Width - 1 : mask \div 2^i = 1

FieldGet(mask, w) == (w & mask) \div 2^FieldLsb(mask)

FieldPrep(mask, v) == (v * 2^FieldLsb(mask)) & mask

\* no_os_sign_extend32(value, index): (int32_t)(value << shift) >> shift
\* with shift = 31 - index, the left shift truncated to the word.
SignExtend(value, index) ==
    LET shift == Width - 1 - index
        x == (value * 2^shift) % 2^Width
        s == IF x >= 2^(Width - 1) THEN x - 2^Width ELSE x
    IN  s \div 2^shift

\* The int32_t argument converted to adis_write_field_u32's uint32_t.
ToUnsigned(v) == v % 2^Width

\* Mutant: a signed field read without the sign extension.
ReadFieldS32NoExtend(mask, w) == FieldGet(mask, w)

\* adis_read_field_s32 on a register word w.
ReadFieldS32(mask, w) == SignExtend(FieldGet(mask, w), FindLastSetBit(mask))

\* Mutant: the masked bits not cleared before the field is added.
UpdateBitsNoClear(mask, w, v) == w + FieldPrep(mask, v)

\* adis_update_bits_base's new word: (w & ~mask) | no_os_field_prep(mask, v).
UpdateBits(mask, w, v) == (w - (w & mask)) + FieldPrep(mask, v)

\* adis_write_field_u32: [ret, word] after writing v to the field.
WriteFieldU32(mask, w, v) ==
    IF v > FieldGet(mask, mask) THEN [ret |-> "EINVAL", word |-> w]
    ELSE [ret |-> "ok", word |-> UpdateBits(mask, w, v)]

(***************************************************************************)
(* The reference: a field read as two's complement of its own width.       *)
(***************************************************************************)
FieldWidth(mask) == FindLastSetBit(mask) - FieldLsb(mask) + 1
TwosComplement(mask, w) ==
    LET u == FieldGet(mask, w)
        n == FieldWidth(mask)
    IN  IF u >= 2^(n - 1) THEN u - 2^n ELSE u
-----------------------------------------------------------------------------
Init ==
    /\ word \in [RegIds -> {0}]
    /\ ret = "ok"
    /\ rd = NoRead
    /\ written = [f \in BiasFields |-> NoRead]

\* A signed field read: the raw data readers (adis_read_x_gyro ...
\* adis_read_z_deltvel) and the bias readers (adis_read_xg_bias ...).
ReadField(f) ==
    /\ rd' = [field |-> f, word |-> word[f.reg], val |-> ReadFieldS32(f.mask, word[f.reg])]
    /\ ret' = "ok"
    /\ UNCHANGED <<word, written>>

ReadDataField(f) == ReadField(f)
ReadBiasField(f) == ReadField(f)

\* A bias writer (adis_write_xg_bias ... adis_write_za_bias) passing v.
WriteBiasField(f, v) ==
    LET o == WriteFieldU32(f.mask, word[f.reg], ToUnsigned(v)) IN
    /\ word' = [word EXCEPT ![f.reg] = o.word]
    /\ ret' = o.ret
    /\ written' = IF o.ret = "ok" THEN [written EXCEPT ![f] = v] ELSE written
    /\ rd' = NoRead

\* The device samples a new value into a data register.
DeviceSample(r) ==
    /\ r \in {f.reg : f \in DataFields}
    /\ word' \in {[word EXCEPT ![r] = w] : w \in SampleWords}
    /\ UNCHANGED <<ret, rd, written>>

Next ==
    \/ \E f \in DataFields : ReadDataField(f)
    \/ \E f \in BiasFields : ReadBiasField(f) \/ \E v \in Vals : WriteBiasField(f, v)
    \/ \E r \in RegIds : DeviceSample(r)

Spec == Init /\ [][Next]_vars

-----------------------------------------------------------------------------
TypeOK ==
    /\ word \in [RegIds -> 0 .. WordMax]
    /\ ret \in {"ok", "EINVAL"}
    /\ written \in [BiasFields -> Vals \cup {NoRead}]

\* adis_read_field_s32 returns the field as a two's-complement number of
\* the field's own width, whatever the device put in the register.
SignedRead == rd # NoRead => rd.val = TwosComplement(rd.field.mask, rd.word)

\* A bias written with adis_write_*_bias and accepted is read back by
\* adis_read_*_bias as the same value, as long as the field is untouched.
BiasRoundTrip ==
    \A f \in BiasFields :
        written[f] # NoRead => ReadFieldS32(f.mask, word[f.reg]) = written[f]
=============================================================================
