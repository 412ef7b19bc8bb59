---------------------------- MODULE DwarfParser ----------------------------
(***************************************************************************)
(* parse_function_details (src/callbacks.rs) with the CIE and FDE parser   *)
(* it calls (src/dwarf.rs): from the entry the .eh_frame_hdr search found  *)
(* for an address to the details of the function, over the bytes of one    *)
(* .eh_frame section.                                                      *)
(*                                                                         *)
(* A field is read (one step, or one step per LEB128 byte) and then used.  *)
(* Bytes have eight bits; U16, U32 and U64 are the sizes of the fixed      *)
(* fields, so that a model can have smaller words.  Signed values are kept *)
(* as the words they are stored in.                                        *)
(***************************************************************************)
EXTENDS Integers, Sequences

CONSTANTS
    U16, U32, U64,  \* bytes of the fixed-size fields
    Max16, Max32,   \* u16::MAX and u32::MAX
    MaxU,           \* u64::MAX, and usize::MAX
    EhFrameAvma,    \* tracee address of the section's first byte
    TextBase, DataBase,
    Inputs,         \* sections, with the address that is looked up in them
    None

Byte == 0 .. 255
Addr == 0 .. MaxU

\* A call: `found' tells whether the module has its sections and the search a
\* candidate, which is then at fde_avma.  `meant' is the result the section was
\* written to give, None if nothing is known of it.
ASSUME InputsAssumption ==
    \A i \in Inputs :
        /\ i.bytes \in Seq(Byte)
        /\ EhFrameAvma + Len(i.bytes) <= MaxU
        /\ i.ip \in Addr
        /\ i.found \in {"no sections", "no entry", "entry"}
        /\ i.fde_avma \in Addr

ASSUME WidthAssumption ==
    /\ {U16, U32, U64} \subseteq 1 .. 8
    /\ MaxU \in Nat
    /\ {Max16, Max32, EhFrameAvma, TextBase, DataBase} \subseteq Addr

VARIABLES
    input,   \* the section and the address of this call
    cur,     \* the cursor, see Start
    cie,     \* ParsedCie so far
    fde,     \* ParsedFde so far
    result   \* what parse_function_details returns, None before that

vars == <<input, cur, cie, fde, result>>

-----------------------------------------------------------------------------
(* Bytes and encodings *)

Size == Len(input.bytes)
Wrap(n) == n % (MaxU + 1)

\* The byte at offset o, and the little-endian word of k bytes b from there.
At(o) == input.bytes[o + 1]
LittleEndian(b, o, k) ==
    LET B(i) == IF i < k THEN b[o + i + 1] ELSE 0
    IN  B(0) + 256 * (B(1) + 256 * (B(2) + 256 * (B(3) + 256 * (B(4)
             + 256 * (B(5) + 256 * (B(6) + 256 * B(7)))))))

\* DW_EH_PE_* encodings.
OMIT == 255
FormatOf(enc) == enc % 16
ApplicationOf(enc) == (enc \div 16) % 8
IsIndirect(enc) == enc >= 128

Fixed == {"u8", "u16", "u32", "u64", "s16", "s32"}
FixedSize(f) ==
    CASE f = "u8" -> 1
      [] f \in {"u16", "s16"} -> U16
      [] f \in {"u32", "s32"} -> U32
      [] OTHER -> U64

\* The value of a fixed-size field, sign-extended to a word.
FixedValue(f, o) ==
    LET v == LittleEndian(input.bytes, o, FixedSize(f))
        negative == At(o + FixedSize(f) - 1) >= 128
    IN  CASE f = "s16" /\ negative -> v + (MaxU - Max16)
          [] f = "s32" /\ negative -> v + (MaxU - Max32)
          [] OTHER -> v

\* How read_encoded_impl reads an encoding's format, "bad" if it does not.
PointerFormat(enc) ==
    CASE FormatOf(enc) \in {0, 4, 12} -> "u64"
      [] FormatOf(enc) = 2 -> "u16"
      [] FormatOf(enc) = 3 -> "u32"
      [] FormatOf(enc) = 10 -> "s16"
      [] FormatOf(enc) = 11 -> "s32"
      [] FormatOf(enc) = 1 -> "uleb"
      [] FormatOf(enc) = 9 -> "sleb"
      [] OTHER -> "bad"

-----------------------------------------------------------------------------
(* The cursor.  `pos' is Cursor::pos, `field' the field it is at, `start' the *)
(* field's offset, `val' what was read of it and `weight' 2^shift of its next *)
(* LEB128 byte.  `end' is entry_end and `todo' the rest of the augmentation.  *)

Start == [field |-> "fde_offset", stage |-> "read", pos |-> 0, start |-> 0,
          val |-> 0, weight |-> 1, end |-> 0, todo |-> <<>>]

Goto(f, p) == [field |-> f, stage |-> "read", pos |-> p, start |-> p,
               val |-> 0, weight |-> 1, end |-> cur.end, todo |-> cur.todo]

\* The cursor at p after v was read of the field.
Advance(s, p, v, w) == [field |-> cur.field, stage |-> s, pos |-> p, start |-> cur.start,
                        val |-> v, weight |-> w, end |-> cur.end, todo |-> cur.todo]

NoCie ==
    [version |-> 0, address_size |-> 0, code_align |-> 0, data_align |-> 0,
     ret_addr_column |-> 0, has_z |-> "no", fde_encoding |-> 0,
     lsda_encoding |-> OMIT, personality_encoding |-> OMIT, personality |-> 0,
     signal_frame |-> "no", instr_offset |-> 0, instr_len |-> 0]

NoFde ==
    [initial_pc |-> 0, address_range |-> 0, lsda |-> 0, aug_data_end |-> 0,
     instr_offset |-> 0, instr_len |-> 0]

Init ==
    /\ input \in Inputs
    /\ cur = Start
    /\ cie = NoCie
    /\ fde = NoFde
    /\ result = None

Reading(f) == result = None /\ cur.field = f /\ cur.stage = "read"
Using(f) == result = None /\ cur.field = f /\ cur.stage = "use"

Return(r) == result' = r /\ UNCHANGED <<input, cur, cie, fde>>
Fail(kind) == Return([tag |-> "err", kind |-> kind])

\* The parser goes on with cursor c and fields e and d, unless `bad' holds.
Go(c, e, d) == cur' = c /\ cie' = e /\ fde' = d /\ UNCHANGED <<input, result>>
Proceed(bad, kind, c, e, d) == (bad /\ Fail(kind)) \/ (~bad /\ Go(c, e, d))

\* The encoding of a field that is an encoded pointer.
Pointers == {"personality", "initial_pc", "range", "lsda"}
Encoding ==
    CASE cur.field = "personality" -> cie.personality_encoding
      [] cur.field = "initial_pc" -> cie.fde_encoding
      [] cur.field = "range" -> FormatOf(cie.fde_encoding)
      [] OTHER -> cie.lsda_encoding

\* How the cursor reads the field it is at.
Format ==
    CASE cur.field \in {"cie_length", "fde_length", "cie_id", "cie_ptr"} -> "u32"
      [] cur.field \in {"cie_length64", "fde_length64", "cie_id64", "cie_ptr64"} -> "u64"
      [] cur.field \in {"version", "address_size", "segment_size", "R", "L", "P"} -> "u8"
      [] cur.field = "ret_addr_column" -> IF cie.version = 1 THEN "u8" ELSE "uleb"
      [] cur.field \in {"code_align", "cie_aug_len", "fde_aug_len"} -> "uleb"
      [] cur.field = "data_align" -> "sleb"
      [] cur.field \in Pointers -> PointerFormat(Encoding)
      [] OTHER -> "none"

\* Mutant of Refusal: the format is looked at first.
Refusal_FormatFirst ==
    IF cur.field \notin Pointers THEN "none"
    ELSE IF PointerFormat(Encoding) = "bad" THEN "UnsupportedPointerEncoding"
    ELSE IF Encoding = OMIT THEN "OmittedPointerEncoding"
    ELSE IF IsIndirect(Encoding) /\ cur.field # "personality"
         THEN "IndirectPointerRequiresDereference"
    ELSE "none"

\* Why read_encoded_impl refuses a pointer before it reads it.
Refusal ==
    IF cur.field \notin Pointers THEN "none"
    ELSE IF Encoding = OMIT THEN "OmittedPointerEncoding"
    ELSE IF IsIndirect(Encoding) /\ cur.field # "personality"
         THEN "IndirectPointerRequiresDereference"
    ELSE IF PointerFormat(Encoding) = "bad" THEN "UnsupportedPointerEncoding"
    ELSE "none"

\* Mutant of PointerBase: pc-relative to the end of the pointer.
PointerBase_AfterRead ==
    [a \in 0 .. 4 |->
       CASE a = 1 -> EhFrameAvma + cur.pos
         [] a = 2 /\ cur.field # "personality" -> TextBase
         [] a = 3 /\ cur.field # "personality" -> DataBase
         [] a = 4 /\ cur.field = "lsda" -> fde.initial_pc
         [] OTHER -> 0]

\* The base of each application; read_encoded_personality has zero bases.
PointerBase ==
    [a \in 0 .. 4 |->
       CASE a = 1 -> EhFrameAvma + cur.start
         [] a = 2 /\ cur.field # "personality" -> TextBase
         [] a = 3 /\ cur.field # "personality" -> DataBase
         [] a = 4 /\ cur.field = "lsda" -> fde.initial_pc
         [] OTHER -> 0]

\* An indirect or zero pointer has no application.
Absent == IsIndirect(Encoding) \/ cur.val = 0
NotApplicable == ~Absent /\ ApplicationOf(Encoding) \notin 0 .. 4

\* Mutant of Resolved: the sum does not wrap.
Resolved_NoWrap ==
    IF Absent THEN 0 ELSE cur.val + PointerBase[ApplicationOf(Encoding)]

Resolved ==
    IF Absent THEN 0 ELSE Wrap(cur.val + PointerBase[ApplicationOf(Encoding)])

-----------------------------------------------------------------------------
(* Reading a field *)

MayRead(formats) ==
    /\ result = None
    /\ cur.stage = "read"
    /\ Refusal = "none"
    /\ Format \in formats

Refuse == result = None /\ cur.stage = "read" /\ Refusal # "none" /\ Fail(Refusal)

\* read_u8 .. read_u64.
ReadFixed ==
    /\ MayRead(Fixed)
    /\ Proceed(cur.pos + FixedSize(Format) > Size, "Truncated",
               Advance("use", cur.pos + FixedSize(Format), FixedValue(Format, cur.pos), 1),
               cie, fde)

\* One byte of read_uleb128 or read_sleb128.  The bits of the last byte that
\* do not fit in a word are lost.
ReadLeb128 ==
    LET byte == At(cur.pos)
        sum == cur.val + Wrap((byte % 128) * cur.weight)
        shifted == cur.weight * 128
        signed == Format = "sleb" /\ byte >= 64 /\ shifted <= MaxU
        value == IF signed THEN sum + (MaxU + 1 - shifted) ELSE sum
    IN  /\ MayRead({"uleb", "sleb"})
        /\ \/ cur.pos >= Size /\ Fail("Truncated")
           \/ /\ cur.pos < Size
              /\ byte < 128
              /\ Go(Advance("use", cur.pos + 1, value, 1), cie, fde)
           \/ /\ cur.pos < Size
              /\ byte >= 128
              /\ Proceed(shifted > MaxU, "Leb128Overflow",
                         Advance("read", cur.pos + 1, sum, shifted), cie, fde)

-----------------------------------------------------------------------------
(* parse_function_details up to the CIE *)

fde_offset == input.fde_avma - EhFrameAvma

\* Where the first pass finds the CIE pointer of the FDE, and its size.
IsDwarf64 == LittleEndian(input.bytes, fde_offset, U32) = Max32
CiePtrPos == fde_offset + U32 + (IF IsDwarf64 THEN U64 ELSE 0)
CiePtrLen == IF IsDwarf64 THEN U64 ELSE U32
CiePtr == LittleEndian(input.bytes, CiePtrPos, CiePtrLen)

LocateError ==
    IF input.found = "no sections" THEN "MissingLocalUnwindSections"
    ELSE IF input.found = "no entry" THEN "EhFrameHeaderLookupMiss"
    ELSE IF fde_offset < 0 THEN "FdeOffsetBeforeEhFrame"
    ELSE IF fde_offset >= Size THEN "FdeOffsetOutOfRange"
    ELSE IF fde_offset + U32 > Size THEN "FdeLengthPrefixTruncated"
    ELSE IF CiePtrPos + CiePtrLen > Size THEN "CiePointerTruncated"
    ELSE IF CiePtr > CiePtrPos THEN "CiePointerUnderflow"
    ELSE "none"

\* The first pass: from the candidate to the CIE it points back to.
Locate ==
    /\ Reading("fde_offset")
    /\ Proceed(LocateError # "none", LocateError,
               Goto("cie_length", CiePtrPos - CiePtr), cie, fde)

\* The length of a CIE or FDE: 0xffffffff announces the 64-bit length.
Wide == [cie_length |-> "cie_length64", fde_length |-> "fde_length64"]
IdField == [cie_length |-> "cie_id", cie_length64 |-> "cie_id64",
            fde_length |-> "cie_ptr", fde_length64 |-> "cie_ptr64"]

UseLength(f) ==
    /\ Using(f)
    /\ IF f \in DOMAIN Wide /\ cur.val = Max32
       THEN Go(Goto(Wide[f], cur.pos), cie, fde)
       ELSE Proceed(cur.pos + cur.val > MaxU, "EntryLengthOverflow",
                    [Goto(IdField[f], cur.pos) EXCEPT !.end = cur.pos + cur.val],
                    cie, fde)

-----------------------------------------------------------------------------
(* parse_cie *)

\* The characters of an augmentation string, and the fields of those with data.
ChZ == 122
ChS == 83
ChB == 66
ChG == 71
AugField == [c \in {82, 76, 80} |->
               CASE c = 82 -> "R" [] c = 76 -> "L" [] c = 80 -> "P"]

UseCieId(f) ==
    /\ Using(f)
    /\ Proceed(cur.val # 0, "BadCieId", Goto("version", cur.pos), cie, fde)

UseVersion ==
    /\ Using("version")
    /\ Proceed(cur.val \notin {1, 3, 4}, "UnsupportedCieVersion",
               Goto("augmentation", cur.pos), [cie EXCEPT !.version = cur.val], fde)

\* The augmentation string ends at the first NUL of the rest of the section.
ScanAugmentation ==
    /\ Reading("augmentation")
    /\ \/ /\ \A o \in cur.pos .. Size - 1 : At(o) # 0
          /\ Fail("UnterminatedAugmentationString")
       \/ \E e \in cur.pos .. Size - 1 :
            /\ At(e) = 0
            /\ \A o \in cur.pos .. e - 1 : At(o) # 0
            /\ Go([Goto(IF cie.version = 4 THEN "address_size" ELSE "code_align", e + 1)
                    EXCEPT !.todo = SubSeq(input.bytes, cur.pos + 1, e)], cie, fde)

\* Fields that are only stored: where, and the field that follows.
Target == [address_size |-> "address_size", code_align |-> "code_align",
           data_align |-> "data_align", R |-> "fde_encoding",
           L |-> "lsda_encoding", P |-> "personality_encoding"]
NextField == [address_size |-> "segment_size", code_align |-> "data_align",
              data_align |-> "ret_addr_column", R |-> "aug_char",
              L |-> "aug_char", P |-> "personality"]

StoreCieField(f) ==
    /\ Using(f)
    /\ Go(Goto(NextField[f], cur.pos),
          [cie EXCEPT ![Target[f]] = cur.val], fde)

UseSegmentSize ==
    /\ Using("segment_size")
    /\ Proceed(cie.address_size # 8 \/ cur.val # 0, "UnsupportedCieAddressSize",
               Goto("code_align", cur.pos), cie, fde)

\* After the return address column, the augmentation string is looked at.
UseRetAddrColumn ==
    LET column == [cie EXCEPT !.ret_addr_column = cur.val] IN
    /\ Using("ret_addr_column")
    /\ IF cur.todo = <<>>
       THEN Go(Goto("cie_end", cur.pos), column, fde)
       ELSE Proceed(Head(cur.todo) # ChZ, "UnsupportedNonZAugmentation",
                    [Goto("cie_aug_len", cur.pos) EXCEPT !.todo = Tail(cur.todo)],
                    [column EXCEPT !.has_z = "z"], fde)

\* The length of the augmentation data of a CIE is read and not used.
UseCieAugLen ==
    /\ Using("cie_aug_len")
    /\ Go(Goto("aug_char", cur.pos), cie, fde)

\* Mutant of AugChar: an ignored character is not consumed.
AugChar_NotConsumed ==
    LET c == Head(cur.todo)
        rest(f) == [Goto(f, cur.pos) EXCEPT !.todo = Tail(cur.todo)]
    IN  /\ Reading("aug_char")
        /\ IF cur.todo = <<>> THEN Go(Goto("cie_end", cur.pos), cie, fde)
           ELSE IF c \in DOMAIN AugField THEN Go(rest(AugField[c]), cie, fde)
           ELSE IF c = ChS
                THEN Go(rest("aug_char"), [cie EXCEPT !.signal_frame = "signal"], fde)
           ELSE Proceed(c \notin {ChB, ChG}, "UnsupportedAugmentation", cur, cie, fde)

\* The next character after the z, or the end of the string.
AugChar ==
    LET c == Head(cur.todo)
        rest(f) == [Goto(f, cur.pos) EXCEPT !.todo = Tail(cur.todo)]
    IN  /\ Reading("aug_char")
        /\ IF cur.todo = <<>> THEN Go(Goto("cie_end", cur.pos), cie, fde)
           ELSE IF c \in DOMAIN AugField
                THEN Go(rest(AugField[c]), cie, fde)
           ELSE Proceed(c \notin {ChS, ChB, ChG}, "UnsupportedAugmentation",
                        rest("aug_char"),
                        IF c = ChS THEN [cie EXCEPT !.signal_frame = "signal"] ELSE cie, fde)

UsePersonality ==
    /\ Using("personality")
    /\ Proceed(NotApplicable, "UnsupportedPointerApplication", Goto("aug_char", cur.pos),
               [cie EXCEPT !.personality = Resolved], fde)

\* Fields that run past the end of the entry make the length of the
\* instructions negative: with overflow checks the subtraction panics,
\* otherwise it wraps.
Overrun == cur.end <= Size /\ cur.end < cur.pos /\ Return([tag |-> "panic"])
InstrLen == Wrap(cur.end - cur.pos)

\* Mutant of CieEnd: the end of the entry is not compared with the section.
CieEnd_NoBound ==
    /\ Reading("cie_end")
    /\ Go(Goto("fde_length", fde_offset),
          [cie EXCEPT !.instr_offset = cur.pos, !.instr_len = InstrLen], fde)

CieEnd ==
    /\ Reading("cie_end")
    /\ \/ Overrun
       \/ Proceed(cur.end > Size, "Truncated", Goto("fde_length", fde_offset),
                  [cie EXCEPT !.instr_offset = cur.pos, !.instr_len = InstrLen], fde)

-----------------------------------------------------------------------------
(* parse_fde *)

UseCiePtr(f) ==
    /\ Using(f)
    /\ Proceed(cur.val = 0, "FdeCiePointerIsZero", Goto("initial_pc", cur.pos), cie, fde)

UseInitialPc ==
    /\ Using("initial_pc")
    /\ Proceed(NotApplicable, "UnsupportedPointerApplication", Goto("range", cur.pos),
               cie, [fde EXCEPT !.initial_pc = Resolved])

UseRange ==
    /\ Using("range")
    /\ Go(Goto(IF cie.has_z = "z" THEN "fde_aug_len" ELSE "fde_end", cur.pos),
          cie, [fde EXCEPT !.address_range = Resolved])

\* Mutant of UseFdeAugLen: the augmentation data may go past the end of the entry.
UseFdeAugLen_NoBound ==
    LET aug_data_end == cur.pos + cur.val IN
    /\ Using("fde_aug_len")
    /\ Proceed(aug_data_end > MaxU, "EntryLengthOverflow",
               IF cie.lsda_encoding = OMIT THEN Goto("fde_end", aug_data_end)
               ELSE Goto("lsda", cur.pos),
               cie, [fde EXCEPT !.aug_data_end = aug_data_end])

\* The augmentation data is skipped to its end, with or without an LSDA.
UseFdeAugLen ==
    LET aug_data_end == cur.pos + cur.val IN
    /\ Using("fde_aug_len")
    /\ \/ aug_data_end > MaxU /\ Fail("EntryLengthOverflow")
       \/ /\ aug_data_end <= MaxU
          /\ Proceed(aug_data_end > cur.end, "Truncated",
                     IF cie.lsda_encoding = OMIT THEN Goto("fde_end", aug_data_end)
                     ELSE Goto("lsda", cur.pos),
                     cie, [fde EXCEPT !.aug_data_end = aug_data_end])

UseLsda ==
    /\ Using("lsda")
    /\ \/ NotApplicable /\ Fail("UnsupportedPointerApplication")
       \/ /\ ~NotApplicable
          /\ Proceed(cur.pos > fde.aug_data_end, "Truncated",
                     Goto("fde_end", fde.aug_data_end),
                     cie, [fde EXCEPT !.lsda = Resolved])

FdeEnd ==
    /\ Reading("fde_end")
    /\ \/ Overrun
       \/ Proceed(cur.end > Size, "Truncated", Goto("details", cur.pos), cie,
                  [fde EXCEPT !.instr_offset = cur.pos, !.instr_len = InstrLen])

-----------------------------------------------------------------------------
(* The details *)

build_dwarf_cie_info ==
    LET cie_start == Wrap(EhFrameAvma + cie.instr_offset)
        fde_start == Wrap(EhFrameAvma + fde.instr_offset)
    IN  [cie_instr_start |-> cie_start, cie_instr_end |-> Wrap(cie_start + cie.instr_len),
         fde_instr_start |-> fde_start, fde_instr_end |-> Wrap(fde_start + fde.instr_len),
         code_align |-> cie.code_align, data_align |-> cie.data_align,
         ret_addr_column |-> cie.ret_addr_column, handler |-> cie.personality,
         fde_encoding |-> cie.fde_encoding, lsda_encoding |-> cie.lsda_encoding,
         sized_augmentation |-> cie.has_z, signal_frame |-> cie.signal_frame]

end_ip == fde.initial_pc + fde.address_range

\* The candidate is only a match if it covers the address.
BuildDetails ==
    /\ Reading("details")
    /\ IF end_ip > MaxU \/ input.ip < fde.initial_pc \/ input.ip >= end_ip
       THEN Fail("EhFrameHeaderLookupMiss")
       ELSE Return([tag |-> "ok", start_ip |-> fde.initial_pc, end_ip |-> end_ip,
                    lsda |-> fde.lsda, info |-> build_dwarf_cie_info])

ParseCie ==
    \/ \E f \in {"cie_length", "cie_length64"} : UseLength(f)
    \/ \E f \in {"cie_id", "cie_id64"} : UseCieId(f)
    \/ \E f \in DOMAIN Target : StoreCieField(f)
    \/ UseVersion \/ ScanAugmentation \/ UseSegmentSize \/ UseRetAddrColumn
    \/ UseCieAugLen \/ AugChar \/ UsePersonality \/ CieEnd

ParseFde ==
    \/ \E f \in {"fde_length", "fde_length64"} : UseLength(f)
    \/ \E f \in {"cie_ptr", "cie_ptr64"} : UseCiePtr(f)
    \/ UseInitialPc \/ UseRange \/ UseFdeAugLen \/ UseLsda \/ FdeEnd

Next ==
    \/ Locate \/ Refuse \/ ReadFixed \/ ReadLeb128
    \/ ParseCie \/ ParseFde \/ BuildDetails

Spec == Init /\ [][Next]_vars

\* The parser runs to its end: nothing in it waits.
FairSpec == Spec /\ WF_vars(Next)

-----------------------------------------------------------------------------
(* Properties *)

Accepted == result # None /\ result.tag = "ok"
Failed == result # None /\ result.tag = "err"

CieOffset == CiePtrPos - CiePtr

\* The first byte after the entry at offset o, from its length field alone.
EntryEnd(o) ==
    IF LittleEndian(input.bytes, o, U32) = Max32
    THEN o + U32 + U64 + LittleEndian(input.bytes, o + U32, U64)
    ELSE o + U32 + LittleEndian(input.bytes, o, U32)

\* The types of the state.
Fields == {"fde_offset", "cie_length", "cie_length64", "cie_id", "cie_id64", "version",
           "augmentation", "address_size", "segment_size", "code_align", "data_align",
           "ret_addr_column", "cie_aug_len", "aug_char", "R", "L", "P", "personality",
           "cie_end", "fde_length", "fde_length64", "cie_ptr", "cie_ptr64",
           "initial_pc", "range", "fde_aug_len", "lsda", "fde_end", "details"}
Cursor == [field : Fields, stage : {"read", "use"}, pos : Nat, start : Nat,
           val : Nat, weight : Nat \ {0}, end : Nat, todo : Seq(Byte)]
ParsedCie == [version : Nat, address_size : Nat, code_align : Nat, data_align : Nat,
              ret_addr_column : Nat, has_z : {"no", "z"}, fde_encoding : Nat,
              lsda_encoding : Nat, personality_encoding : Nat, personality : Addr,
              signal_frame : {"no", "signal"}, instr_offset : Nat, instr_len : Addr]
ParsedFde == [initial_pc : Addr, address_range : Addr, lsda : Addr,
              aug_data_end : Nat, instr_offset : Nat, instr_len : Addr]
TypeOK == cur \in Cursor /\ cie \in ParsedCie /\ fde \in ParsedFde

\* The cursor never stands behind the section where something is read: it does
\* only after the FDE's augmentation data was skipped, and then inside the length
\* the entry claims.  So the slice c.bytes[aug_start..] of parse_cie cannot panic.
ReadsInBounds ==
    /\ cur.start <= cur.pos
    /\ cur.pos > Size => cur.field = "fde_end" /\ cur.pos <= cur.end

\* The instructions that are handed to libunwind's interpreter end where their
\* entry ends, inside the section, and start inside the entry or not at all: also
\* when the fields run past the entry and the length of the instructions wraps.
InstructionsInEntry ==
    Accepted =>
      /\ EntryEnd(CieOffset) <= Size /\ EntryEnd(fde_offset) <= Size
      /\ result.info.cie_instr_start > EhFrameAvma + CieOffset
      /\ result.info.fde_instr_start > EhFrameAvma + fde_offset
      /\ result.info.cie_instr_end = EhFrameAvma + EntryEnd(CieOffset)
      /\ result.info.fde_instr_end = EhFrameAvma + EntryEnd(fde_offset)

\* Details are only returned if the section describes them, and they are those
\* it was written to describe: every field in every encoding, after any prefix of
\* the section.  Excepted are entries that are shorter than their fields.
DetailsExact ==
    /\ Accepted /\ input.meant # None
    /\ result.info.cie_instr_start <= result.info.cie_instr_end
    /\ result.info.fde_instr_start <= result.info.fde_instr_end
    => result = input.meant

\* A failure names the defect of the section, so a section without one is
\* accepted.
FailurePrecise == Failed /\ input.meant # None => result = input.meant

\* Every parse ends, whatever the bytes.
ParseEnds == <>(result # None)
=============================================================================
