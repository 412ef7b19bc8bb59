---------------------------- MODULE DwarfLayout ----------------------------
(***************************************************************************)
(* What the bytes of a section mean, said without a parser.  A layout      *)
(* names the fields of a CIE and of an FDE, where they are and what they   *)
(* hold; a section has the layout if its bytes hold that, field by field.  *)
(***************************************************************************)
EXTENDS DwarfParser

\* A word has a whole number of bits: 128^n times a power of two, at most ten
\* LEB128 digits.  Weight(i) is 128^i.
Weight(i) ==
    LET W(j) == IF i < j THEN 1 ELSE 128
    IN  W(1) * (W(2) * (W(3) * (W(4) * (W(5) * (W(6) * (W(7) * (W(8) * W(9))))))))

ASSUME BitsAssumption ==
    \E n \in 0 .. 9 : \E b \in {2, 4, 8, 16, 32, 64, 128} : MaxU + 1 = Weight(n) * b

-----------------------------------------------------------------------------
(* Fields *)

\* A field of format `fmt' in the bytes from `at' to before `to' that holds `word'.
Row(fmt, at, to, word) == [fmt |-> fmt, at |-> at, to |-> to, word |-> word]

IsFixed(b, r) ==
    LET value == LittleEndian(b, r.at, FixedSize(r.fmt))
        negative == b[r.at + FixedSize(r.fmt)] >= 128
    IN  r.word = value + (IF ~negative THEN 0
                          ELSE IF r.fmt = "s16" THEN MaxU - Max16
                          ELSE IF r.fmt = "s32" THEN MaxU - Max32 ELSE 0)

\* The number whose digits to the base 128 are the low bits of k bytes from offset o.
Digits(b, o, k) ==
    LET D(i) == IF i < k THEN (b[o + i + 1] % 128) * Weight(i) ELSE 0
    IN  D(0) + D(1) + D(2) + D(3) + D(4) + D(5) + D(6) + D(7) + D(8) + D(9)

\* A LEB128 number: all bytes but the last one are marked, the last one has a place in
\* the word, and holds the sign of a signed number.
IsLeb128(b, r) ==
    LET last == r.to - r.at - 1
        negative == r.fmt = "sleb" /\ b[r.to] >= 64
    IN  /\ last \in 0 .. 9 /\ Weight(last) <= MaxU
        /\ \A i \in 1 .. last : b[r.at + i] >= 128
        /\ b[r.to] < 128
        /\ r.word = Wrap(Digits(b, r.at, last + 1) - (IF negative THEN 128 * Weight(last) ELSE 0))

Holds(b, r) ==
    /\ r.to <= Len(b)
    /\ \/ r.fmt \in Fixed /\ r.to = r.at + FixedSize(r.fmt) /\ IsFixed(b, r)
       \/ r.fmt \in {"uleb", "sleb"} /\ IsLeb128(b, r)

\* A pointer is stored as the difference to its base, a null pointer as zero.
Base(enc, at, text, data, func) ==
    CASE ApplicationOf(enc) = 1 -> EhFrameAvma + at
      [] ApplicationOf(enc) = 2 -> text
      [] ApplicationOf(enc) = 3 -> data
      [] ApplicationOf(enc) = 4 -> func
      [] OTHER -> 0
Difference(target, base) == IF target = 0 THEN 0 ELSE Wrap(target - base)
Expressible(enc, target, base) ==
    target # 0 => ApplicationOf(enc) \in 0 .. 4 /\ target # base

-----------------------------------------------------------------------------
(* Layouts.  `at' are offsets in the section.  `aug' is the augmentation string  *)
(* and `data[k]' the offset of what belongs to its k-th character, the last one  *)
(* of the CIE's instructions.  `cie_size' and `fde_size' are the formats of the  *)
(* lengths, `slot' is what an indirect personality pointer holds.                *)

Offsets == {"cie", "cie_id", "version", "aug", "sizes", "code_align", "data_align", "ra",
            "cie_end", "fde", "cie_ptr", "initial_pc", "range", "fde_aug", "lsda",
            "lsda_end", "fde_instr", "fde_end"}
Layouts ==
    [at : [Offsets -> Nat], data : Seq(Nat), aug : Seq(Byte \ {0}), version : {1, 3, 4},
     cie_size : {"u32", "u64"}, fde_size : {"u32", "u64"}, code_align : Addr,
     data_align : Addr, ra : Addr, cie_aug_len : Addr, R : Byte, L : Byte, P : Byte,
     slot : Addr, handler : Addr, initial_pc : Addr, range : Addr, lsda : Addr]

\* The fields, as the DWARF and LSB documents order them.
LengthRow(size, at, to, end) ==
    Row("u32", at, at + U32, IF size = "u64" THEN Max32 ELSE end - to)

Rows(d) ==
    LET a == d.at
        pc_base == Base(d.R, a.initial_pc, TextBase, DataBase, 0)
        lsda_base == Base(d.L, a.lsda, TextBase, DataBase, d.initial_pc)
    IN  [cie_length |-> LengthRow(d.cie_size, a.cie, a.cie_id, a.cie_end),
         cie_length64 |-> Row("u64", a.cie + U32, a.cie_id, a.cie_end - a.cie_id),
         cie_id |-> Row("u32", a.cie_id, a.version, 0),
         cie_id64 |-> Row("u64", a.cie_id, a.version, 0),
         version |-> Row("u8", a.version, a.aug, d.version),
         address_size |-> Row("u8", a.sizes, a.sizes + 1, 8),
         segment_size |-> Row("u8", a.sizes + 1, a.code_align, 0),
         code_align |-> Row("uleb", a.code_align, a.data_align, d.code_align),
         data_align |-> Row("sleb", a.data_align, a.ra, d.data_align),
         ret_addr_column |-> Row(IF d.version = 1 THEN "u8" ELSE "uleb", a.ra, d.data[1], d.ra),
         fde_length |-> LengthRow(d.fde_size, a.fde, a.cie_ptr, a.fde_end),
         fde_length64 |-> Row("u64", a.fde + U32, a.cie_ptr, a.fde_end - a.cie_ptr),
         cie_ptr |-> Row("u32", a.cie_ptr, a.initial_pc, a.cie_ptr - a.cie),
         cie_ptr64 |-> Row("u64", a.cie_ptr, a.initial_pc, a.cie_ptr - a.cie),
         initial_pc |-> Row(PointerFormat(d.R), a.initial_pc, a.range,
                            Difference(d.initial_pc, pc_base)),
         range |-> Row(PointerFormat(d.R), a.range, a.fde_aug, d.range),
         fde_aug_len |-> Row("uleb", a.fde_aug, a.lsda, a.fde_instr - a.lsda),
         lsda |-> Row(PointerFormat(d.L), a.lsda, a.lsda_end, Difference(d.lsda, lsda_base))]

\* The fields that belong to the k-th character of the augmentation string.
CharRows(d, k) ==
    LET o == d.data[k]
        base == Base(d.P, o + 1, 0, 0, 0)
    IN  [cie_aug_len |-> Row("uleb", o, d.data[k + 1], d.cie_aug_len),
         R |-> Row("u8", o, d.data[k + 1], d.R),
         L |-> Row("u8", o, d.data[k + 1], d.L),
         P |-> Row("u8", o, o + 1, d.P),
         personality |-> Row(PointerFormat(d.P), o + 1, d.data[k + 1],
                             IF IsIndirect(d.P) THEN d.slot
                             ELSE Difference(d.handler, base))]

Present(d) ==
    {"cie_length", "version", "code_align", "data_align", "ret_addr_column",
     "fde_length", "initial_pc", "range"}
    \cup (IF d.cie_size = "u64" THEN {"cie_length64", "cie_id64"} ELSE {"cie_id"})
    \cup (IF d.fde_size = "u64" THEN {"fde_length64", "cie_ptr64"} ELSE {"cie_ptr"})
    \cup (IF d.version = 4 THEN {"address_size", "segment_size"} ELSE {})
    \cup (IF d.aug = <<>> THEN {} ELSE {"fde_aug_len"})
    \cup (IF d.L = OMIT THEN {} ELSE {"lsda"})

CharHolds(b, d, k) ==
    LET r == CharRows(d, k) IN
    CASE d.aug[k] = 82 -> Holds(b, r.R)
      [] d.aug[k] = 76 -> Holds(b, r.L)
      [] d.aug[k] = 80 -> /\ Holds(b, r.P) /\ Holds(b, r.personality)
                          /\ d.P # OMIT
                          /\ IF IsIndirect(d.P) THEN d.handler = 0
                             ELSE Expressible(d.P, d.handler, Base(d.P, r.personality.at, 0, 0, 0))
      [] OTHER -> d.aug[k] \in {ChS, ChB, ChG} /\ d.data[k + 1] = d.data[k]

AugHas(d, c) == \E k \in 2 .. Len(d.aug) : d.aug[k] = c

\* The augmentation: the string, its end, and what its characters announce.
AugHolds(b, d) ==
    LET a == d.at
        n == Len(d.aug)
    IN  /\ a.sizes = a.aug + n + 1 /\ a.sizes <= Len(b) /\ b[a.sizes] = 0
        /\ \A k \in 1 .. n : b[a.aug + k] = d.aug[k]
        /\ Len(d.data) = n + 1
        /\ n > 0 => d.aug[1] = ChZ /\ Holds(b, CharRows(d, 1).cie_aug_len)
        /\ \A k \in 2 .. n : CharHolds(b, d, k)
        /\ AugHas(d, 82) \/ d.R = 0
        /\ AugHas(d, 76) \/ d.L = OMIT
        /\ AugHas(d, 80) \/ d.handler = 0

\* The section of call i has layout d.
HasLayout(i, d) ==
    LET a == d.at
        b == i.bytes
        instr == d.data[Len(d.aug) + 1]
    IN  /\ i.found = "entry" /\ i.fde_avma = EhFrameAvma + a.fde
        /\ \A f \in Present(d) : Holds(b, Rows(d)[f])
        /\ AugHolds(b, d)
        \* Where what may be missing is missing.
        /\ d.cie_size = "u32" => a.cie_id = a.cie + U32 /\ a.cie_end - a.cie_id # Max32
        /\ d.fde_size = "u32" => a.cie_ptr = a.fde + U32 /\ a.fde_end - a.cie_ptr # Max32
        /\ d.version # 4 => a.code_align = a.sizes
        /\ d.aug = <<>> => a.fde_instr = a.fde_aug
        \* The entries are no shorter than their fields.
        /\ instr <= a.cie_end /\ a.cie_end <= Len(b)
        /\ a.fde_instr <= a.fde_end /\ a.fde_end <= Len(b)
        /\ d.L # OMIT => a.lsda_end <= a.fde_instr
        /\ a.cie < a.cie_ptr
        \* The pointers can be expressed.
        /\ ~IsIndirect(d.R)
        /\ Expressible(d.R, d.initial_pc, Base(d.R, a.initial_pc, TextBase, DataBase, 0))
        /\ d.L # OMIT => ~IsIndirect(d.L)
        /\ d.L # OMIT => Expressible(d.L, d.lsda,
                                     Base(d.L, a.lsda, TextBase, DataBase, d.initial_pc))

-----------------------------------------------------------------------------
(* What a layout means *)

Details(d) ==
    [tag |-> "ok", start_ip |-> d.initial_pc, end_ip |-> d.initial_pc + d.range,
     lsda |-> IF d.L = OMIT THEN 0 ELSE d.lsda,
     info |->
      [cie_instr_start |-> EhFrameAvma + d.data[Len(d.aug) + 1],
       cie_instr_end |-> EhFrameAvma + d.at.cie_end,
       fde_instr_start |-> EhFrameAvma + d.at.fde_instr,
       fde_instr_end |-> EhFrameAvma + d.at.fde_end,
       code_align |-> d.code_align, data_align |-> d.data_align, ret_addr_column |-> d.ra,
       handler |-> d.handler, fde_encoding |-> d.R, lsda_encoding |-> d.L,
       sized_augmentation |-> IF d.aug = <<>> THEN "no" ELSE "z",
       signal_frame |-> IF AugHas(d, ChS) THEN "signal" ELSE "no"]]

Meaning(i, d) ==
    IF i.ip \in d.initial_pc .. d.initial_pc + d.range - 1 /\ d.initial_pc + d.range <= MaxU
    THEN Details(d) ELSE [tag |-> "err", kind |-> "EhFrameHeaderLookupMiss"]
=============================================================================
