--------------------------- MODULE MCDwarfParser ---------------------------
(***************************************************************************)
(* DwarfParser on sections that are written from descriptions: an entry is *)
(* described by its fields and encoded as a compiler does, and the result  *)
(* it must give is computed from the description, not from the bytes.      *)
(* Words have three bytes, u32 fields two and u16 fields one; so a LEB128  *)
(* word takes up to four bytes with a partial last one, like the ten of a  *)
(* real word.                                                              *)
(***************************************************************************)
EXTENDS DwarfLayout, SequencesExt

MCEhFrameAvma == 200
MCTextBase == 150
MCDataBase == 170

-----------------------------------------------------------------------------
(* Writing a section *)

Word(n, k) == [i \in 1 .. k |-> (n \div 256 ^ (i - 1)) % 256]
Leb(n) == <<128 + (n % 128), 128 + ((n \div 128) % 128),
            128 + ((n \div 16384) % 128), n \div 2097152>>

\* A word in an encoding's format, and a pointer to target.
Formatted(enc, n) ==
    LET f == PointerFormat(enc)
    IN  IF f \in Fixed THEN Word(n, FixedSize(f)) ELSE IF f = "bad" THEN <<>> ELSE Leb(n)
Pointer(enc, target, base) == Formatted(enc, Difference(target, base))

Length(wide, n) == IF wide THEN Word(Max32, U32) \o Word(n, U64) ELSE Word(n, U32)
LengthSize(wide) == IF wide THEN U32 + U64 ELSE U32
Id(wide, n) == Word(n, IF wide THEN U64 ELSE U32)

Handler == 90
Lead == <<7, 0>>        \* bytes before the CIE
CieProgram == <<12, 7>>
FdeProgram == <<65, 14, 16>>

CieFields(d) ==
    LET common == Id(d.cie64, d.cie_id) \o <<d.version>> \o d.aug \o <<0>>
                    \o (IF d.version = 4 THEN d.sizes ELSE <<>>)
                    \o d.code.bytes \o d.data.bytes \o d.ra.bytes
        start == Len(Lead) + LengthSize(d.cie64) + Len(common) + 1
        Add(data, ch) ==
            CASE ch = 82 -> Append(data, d.R)
              [] ch = 76 -> Append(data, d.L)
              [] ch = 80 -> Append(data, d.P)
                     \o Pointer(d.P, d.handler, Base(d.P, start + Len(data) + 1, 0, 0, 0))
              [] OTHER -> data
        data == FoldLeft(Add, <<>>, d.aug)
    IN  IF d.aug = <<>> THEN common ELSE common \o <<Len(data)>> \o data

Cie(d) == LET body == CieFields(d) \o CieProgram
          IN  Length(d.cie64, Len(body) + d.cie_change) \o body

FdeOffset(d) == Len(Lead) + Len(Cie(d))
FdeFields(d) ==
    LET id == FdeOffset(d) + LengthSize(d.fde64)
        pc == id + (IF d.fde64 THEN U64 ELSE U32)
        head == Id(d.fde64, IF d.cie_ptr = None THEN id - Len(Lead) ELSE d.cie_ptr)
                  \o Pointer(d.R, d.pc, Base(d.R, pc, TextBase, DataBase, 0))
                  \o Formatted(d.R, d.range)
        at == id + Len(head) + 1
        lsda == IF d.L = OMIT THEN <<>>
                ELSE Pointer(d.L, d.lsda, Base(d.L, at, TextBase, DataBase, d.pc))
    IN  IF d.aug = <<>> THEN head
        ELSE head \o (IF d.aug_len = <<>> THEN <<Len(lsda) + Len(d.pad)>> ELSE d.aug_len)
               \o lsda \o d.pad

Fde(d) == LET body == FdeFields(d) \o FdeProgram
          IN  Length(d.fde64, Len(body) + d.fde_change) \o body

Section(d) == Lead \o Cie(d) \o Fde(d) \o d.trail

-----------------------------------------------------------------------------
(* What a section means *)

\* The layout of what is written for d: the offsets add up the sizes of the fields.
LayoutOf(d) ==
    LET pointer(enc) == Len(Formatted(enc, 0))
        size(ch) == CASE ch \in {ChZ, 82, 76} -> 1 [] ch = 80 -> 1 + pointer(d.P) [] OTHER -> 0
        cie_id == Len(Lead) + LengthSize(d.cie64)
        version == cie_id + Len(Id(d.cie64, 0))
        sizes == version + Len(d.aug) + 2
        code_align == sizes + (IF d.version = 4 THEN 2 ELSE 0)
        ra == code_align + Len(d.code.bytes) + Len(d.data.bytes)
        data == [k \in 1 .. Len(d.aug) + 1 |->
                   FoldLeft(LAMBDA o, ch : o + size(ch), ra + Len(d.ra.bytes),
                            SubSeq(d.aug, 1, k - 1))]
        cie_ptr == FdeOffset(d) + LengthSize(d.fde64)
        initial_pc == cie_ptr + Len(Id(d.fde64, 0))
        range == initial_pc + pointer(d.R)
        fde_aug == range + pointer(d.R)
        lsda == fde_aug + (IF d.aug = <<>> THEN 0 ELSE 1)
        lsda_end == lsda + (IF d.L = OMIT THEN 0 ELSE pointer(d.L))
        fde_instr == lsda_end + (IF d.aug = <<>> THEN 0 ELSE Len(d.pad))
        handlers == {d.handler : k \in {j \in 1 .. Len(d.aug) : d.aug[j] = 80}}
        slots == {Difference(d.handler, Base(d.P, data[k] + 1, 0, 0, 0)) :
                    k \in {j \in 1 .. Len(d.aug) : d.aug[j] = 80}}
    IN  [at |-> [cie |-> Len(Lead), cie_id |-> cie_id, version |-> version,
                 aug |-> version + 1, sizes |-> sizes, code_align |-> code_align,
                 data_align |-> code_align + Len(d.code.bytes), ra |-> ra,
                 cie_end |-> Last(data) + Len(CieProgram) + d.cie_change,
                 fde |-> FdeOffset(d), cie_ptr |-> cie_ptr, initial_pc |-> initial_pc,
                 range |-> range, fde_aug |-> fde_aug, lsda |-> lsda, lsda_end |-> lsda_end,
                 fde_instr |-> fde_instr,
                 fde_end |-> fde_instr + Len(FdeProgram) + d.fde_change],
         data |-> data, aug |-> d.aug, version |-> d.version,
         cie_size |-> IF d.cie64 THEN "u64" ELSE "u32",
         fde_size |-> IF d.fde64 THEN "u64" ELSE "u32",
         code_align |-> d.code.val, data_align |-> d.data.val, ra |-> d.ra.val,
         cie_aug_len |-> IF d.aug = <<>> THEN 0 ELSE Last(data) - data[2],
         R |-> d.R, L |-> d.L, P |-> d.P,
         slot |-> Max({0} \cup slots),
         handler |-> IF IsIndirect(d.P) THEN 0 ELSE Max({0} \cup handlers),
         initial_pc |-> d.pc, range |-> d.range, lsda |-> d.lsda]

Err(kind) == [tag |-> "err", kind |-> kind]
Input(d) ==
    LET call == [bytes |-> Section(d), ip |-> d.ip, found |-> "entry",
                 fde_avma |-> MCEhFrameAvma + FdeOffset(d), meant |-> None]
    IN  [call EXCEPT !.meant = IF d.fault # None THEN Err(d.fault)
                               ELSE Meaning(call, LayoutOf(d))]

-----------------------------------------------------------------------------
(* Descriptions *)

N(bytes, n) == [bytes |-> bytes, val |-> Wrap(n + MaxU + 1)]

Plain ==
    [version |-> 3, aug |-> <<ChZ, 82>>, cie64 |-> FALSE, fde64 |-> FALSE, cie_id |-> 0,
     sizes |-> <<8, 0>>, code |-> N(<<1>>, 1), data |-> N(<<120>>, -8), ra |-> N(<<16>>, 16),
     R |-> 27, L |-> OMIT, P |-> OMIT, handler |-> 90, pc |-> 160, range |-> 10,
     lsda |-> 175, aug_len |-> <<>>, pad |-> <<>>, cie_ptr |-> None, cie_change |-> 0,
     fde_change |-> 0, trail |-> <<0, 0>>, ip |-> 165, fault |-> None]

\* Entries with a personality and an LSDA, and without any augmentation.
Full == [Plain EXCEPT !.aug = <<ChZ, 80, 76, 82, ChS>>, !.L = 27, !.P = 155]
Bare == [Plain EXCEPT !.aug = <<>>, !.R = 0]

\* Encodings whose format holds the pointers of Plain and Full: every format with
\* a signed or whole word, and the unsigned short ones with positive offsets.
Encodings(apps) ==
    {f + 16 * a : f \in {0, 1, 4, 9, 11, 12}, a \in apps}
      \cup {f + 16 * a : f \in {2, 3}, a \in apps \ {1, 3}}

Supported ==
    {[d EXCEPT !.version = v, !.cie64 = w, !.fde64 = x, !.ip = ip] :
        d \in {Plain, Full, Bare}, v \in {1, 3, 4}, w, x \in BOOLEAN,
        ip \in {159, 160, 169, 170}}
    \cup {[Full EXCEPT !.version = v, !.aug = <<ChZ>> \o a, !.R = e, !.L = l] :
             v \in {1, 4}, a \in {<<80, 76, 82>>, <<82, 80, ChG, 76>>},
             e \in {0, 9, 27, 43, 67}, l \in {3, 26, 27, 65, 58}}
    \cup {[Full EXCEPT !.R = e] : e \in Encodings(0 .. 4) \cup {26, 42, 58}}
    \cup {[Full EXCEPT !.L = e] : e \in Encodings(0 .. 4) \cup {26, 42, 58, 74}}
    \cup {[Full EXCEPT !.P = e] : e \in Encodings(0 .. 4) \cup {128 + 3, 128 + 9, 26}}
    \cup {[Full EXCEPT !.L = e, !.lsda = 0] : e \in {27, 91, 4 + 112}}
    \cup {[Full EXCEPT !.P = 91, !.handler = 0]}
    \cup {[Full EXCEPT !.aug = <<ChZ>> \o a] :
             a \in {<<82, 76, 80>>, <<ChB, 76, ChG, 82>>, <<ChS, 82, 76>>}}
    \cup {[d EXCEPT !.code = c, !.data = n] : d \in {Plain, Bare},
             c \in {N(<<0>>, 0), N(<<129, 0>>, 1), N(<<255, 255, 255, 7>>, -1),
                    N(<<129, 128, 128, 120>>, 1)},
             n \in {N(<<8>>, 8), N(<<64>>, -64), N(<<248, 127>>, -8), N(<<191, 0>>, 63),
                    N(<<255, 255, 255, 7>>, -1), N(<<128, 128, 128, 4>>, -8388608)}}
    \cup {[Plain EXCEPT !.ra = n] : n \in {N(<<144, 1>>, 144), N(<<200, 128, 0>>, 72)}}
    \cup {[d EXCEPT !.pad = p] : d \in {Plain, Full}, p \in {<<9>>, <<9, 9>>}}
    \cup {[d EXCEPT !.cie_change = c, !.fde_change = f] :
             d \in {Plain, Full, Bare}, c \in {-2, -1, 0, 4}, f \in {-3, -2, 0, 2}}

Faulty(d, kind) == [d EXCEPT !.fault = kind]

Defective ==
    {Faulty([Plain EXCEPT !.cie_id = 1], "BadCieId"),
     Faulty([Plain EXCEPT !.version = 2], "UnsupportedCieVersion"),
     Faulty([Plain EXCEPT !.aug = <<69, 72>>], "UnsupportedNonZAugmentation"),
     Faulty([Plain EXCEPT !.aug = <<ChZ, 82, 88>>], "UnsupportedAugmentation"),
     Faulty([Plain EXCEPT !.version = 4, !.sizes = <<4, 0>>], "UnsupportedCieAddressSize"),
     Faulty([Plain EXCEPT !.version = 4, !.sizes = <<8, 1>>], "UnsupportedCieAddressSize"),
     Faulty([Plain EXCEPT !.cie_ptr = 100], "CiePointerUnderflow"),
     Faulty([Plain EXCEPT !.cie_ptr = 0], "BadCieId"),
     \* The pointer leads back to itself, and what follows reads like a CIE.
     Faulty([Plain EXCEPT !.cie_ptr = 0, !.R = 3, !.pc = 0, !.range = 1],
            "FdeCiePointerIsZero"),
     Faulty([Plain EXCEPT !.pc = MaxU - 2, !.ip = MaxU - 1], "EhFrameHeaderLookupMiss"),
     Faulty([Plain EXCEPT !.cie_change = 40], "Truncated"),
     Faulty([Plain EXCEPT !.fde_change = 3], "Truncated"),
     Faulty([Plain EXCEPT !.cie64 = TRUE, !.cie_change = MaxU - 15], "EntryLengthOverflow"),
     Faulty([Plain EXCEPT !.fde64 = TRUE, !.fde_change = MaxU - 15], "EntryLengthOverflow"),
     Faulty([Plain EXCEPT !.aug_len = <<255, 255, 255, 7>>], "EntryLengthOverflow"),
     Faulty([Plain EXCEPT !.aug_len = <<4>>], "Truncated"),
     Faulty([Plain EXCEPT !.aug_len = <<60>>, !.fde_change = 100], "Truncated"),
     Faulty([Full EXCEPT !.aug_len = <<1>>], "Truncated")}
    \cup {Faulty([Plain EXCEPT ![n] = [bytes |-> b, val |-> 0]], "Leb128Overflow") :
            n \in {"code", "data", "ra"},
            b \in {<<128, 128, 128, 128, 0>>, <<255, 255, 255, 255, 127>>}}
    \cup {Faulty([Full EXCEPT ![p] = OMIT], "OmittedPointerEncoding") : p \in {"R", "P"}}
    \cup {Faulty([Full EXCEPT ![p] = 155], "IndirectPointerRequiresDereference") : p \in {"R", "L"}}
    \cup {Faulty([Full EXCEPT ![p] = e], "UnsupportedPointerEncoding") :
            p \in {"R", "L", "P"}, e \in {5, 31}}
    \cup {Faulty([Full EXCEPT ![p] = e], "UnsupportedPointerApplication") :
            p \in {"R", "L", "P"}, e \in {91, 107, 123}}

\* Entries shorter than their fields.
Short == {Faulty([d EXCEPT !.cie_change = c[1], !.fde_change = c[2]], "Truncated") :
            d \in {Plain, Full, Bare}, c \in {<<-4, 0>>, <<-4, -3>>, <<-3, -5>>, <<0, -5>>}}

\* A CIE pointer that leads back to itself, before bytes without any zero.
Unterminated ==
    Faulty([Plain EXCEPT !.cie_ptr = 0, !.R = 3, !.pc = 0, !.range = 257, !.pad = <<9>>,
                         !.trail = <<>>], "UnterminatedAugmentationString")

-----------------------------------------------------------------------------
(* The inputs *)

\* The sections that are also cut or changed.
Samples == {[d EXCEPT !.cie64 = w, !.fde64 = x] :
              d \in {Plain, Full, Bare}, w, x \in BOOLEAN}

Written ==
    {[desc |-> d, input |-> Input(d)] :
        d \in Supported \cup Defective \cup Short \cup {Unterminated} \cup Samples}

\* What is written without a defect has the layout that it was written for.
ASSUME LayoutsAssumption ==
    \A w \in Written :
        w.desc.fault = None =>
          LayoutOf(w.desc) \in Layouts /\ HasLayout(w.input, LayoutOf(w.desc))

\* The section w cut off after n bytes.  The CIE precedes the FDE, which is
\* therefore what a cut takes away.
Cut(w, n) ==
    LET rest == n - (w.input.fde_avma - MCEhFrameAvma)
        id == LengthSize(w.desc.fde64)
        kind == CASE rest <= 0 -> "FdeOffsetOutOfRange"
                  [] rest \in 1 .. U32 - 1 -> "FdeLengthPrefixTruncated"
                  [] rest >= U32 /\ rest < id + (IF w.desc.fde64 THEN U64 ELSE U32)
                       -> "CiePointerTruncated"
                  [] OTHER -> "Truncated"
    IN  [w.input EXCEPT !.bytes = SubSeq(@, 1, n), !.meant = Err(kind)]
Cuts(w) == {Cut(w, n) : n \in 0 .. Len(w.input.bytes) - 3}

\* A section with one byte changed, of which nothing is claimed.
Altered(w) ==
    {[w.input EXCEPT !.bytes[o] = b, !.meant = None] :
        o \in DOMAIN w.input.bytes, b \in {0, 1, 127, 128, 255}}

\* The lookup finds nothing, or a place where no FDE is.
Misses(w) ==
    {[w.input EXCEPT !.found = "no sections", !.meant = Err("MissingLocalUnwindSections")],
     [w.input EXCEPT !.found = "no entry", !.meant = Err("EhFrameHeaderLookupMiss")]}
    \cup {[w.input EXCEPT !.fde_avma = m[1], !.meant = Err(m[2])] :
             m \in {<<199, "FdeOffsetBeforeEhFrame">>, <<300, "FdeOffsetOutOfRange">>,
                    <<202, "BadCieId">>}}

MCInputs ==
    UNION {{w.input}
           \cup (IF w.desc \in Samples /\ w.desc.cie64 = w.desc.fde64 THEN Altered(w) ELSE {})
           \cup (IF w.desc \in Samples /\ ~w.desc.cie64 THEN Cuts(w) ELSE {})
           \cup (IF w.desc = Plain THEN Misses(w) ELSE {}) : w \in Written}
=============================================================================
