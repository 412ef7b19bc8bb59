----------------------------- MODULE DwarfTrack -----------------------------
(***************************************************************************)
(* Where the parser is in a section that has a layout: the invariant       *)
(* behind DwarfLayoutProofs.  At every field the parser has what the       *)
(* layout says of the fields before, and the cursor stands in the bytes of *)
(* the field.  k characters of the augmentation string are gone.           *)
(***************************************************************************)
EXTENDS DwarfLayout, DwarfFields

\* The order of the fields, one by one.
Phases ==
    /\ Phase["fde_offset"] = 0 /\ Phase["cie_length"] = 1 /\ Phase["cie_length64"] = 2
    /\ Phase["cie_id"] = 3 /\ Phase["cie_id64"] = 3 /\ Phase["version"] = 4
    /\ Phase["augmentation"] = 5 /\ Phase["address_size"] = 6 /\ Phase["segment_size"] = 7
    /\ Phase["code_align"] = 8 /\ Phase["data_align"] = 9 /\ Phase["ret_addr_column"] = 10
    /\ Phase["cie_aug_len"] = 11 /\ Phase["aug_char"] = 12 /\ Phase["R"] = 12
    /\ Phase["L"] = 12 /\ Phase["P"] = 12 /\ Phase["personality"] = 12
    /\ Phase["cie_end"] = 13 /\ Phase["fde_length"] = 14 /\ Phase["fde_length64"] = 15
    /\ Phase["cie_ptr"] = 16 /\ Phase["cie_ptr64"] = 16 /\ Phase["initial_pc"] = 17
    /\ Phase["range"] = 18 /\ Phase["fde_aug_len"] = 19 /\ Phase["lsda"] = 20
    /\ Phase["fde_end"] = 21 /\ Phase["details"] = 22

\* Of every call: its input is one of the inputs, and the parsed entries have their fields.
CieNames == {"version", "address_size", "code_align", "data_align", "ret_addr_column", "has_z",
             "fde_encoding", "lsda_encoding", "personality_encoding", "personality",
             "signal_frame", "instr_offset", "instr_len"}
FdeNames == {"initial_pc", "address_range", "lsda", "aug_data_end", "instr_offset", "instr_len"}
Shaped == input \in Inputs /\ DOMAIN cie = CieNames /\ DOMAIN fde = FdeNames
SameShape == input' = input /\ DOMAIN cie' = DOMAIN cie /\ DOMAIN fde' = DOMAIN fde

-----------------------------------------------------------------------------
(* A field in the section *)

\* The cursor is i bytes into the field of row r.
Inside(r, i) ==
    /\ r.at + i < r.to
    /\ r.fmt \in Fixed => i = 0
    /\ cur.pos = r.at + i /\ cur.weight = Weight(i)
    /\ cur.val = Digits(input.bytes, r.at, i) /\ cur.val \in 0 .. cur.weight - 1
Placed(r) ==
    /\ cur.start = r.at
    /\ \/ cur.stage = "use" /\ cur.pos = r.to /\ cur.val = r.word
       \/ cur.stage = "read" /\ \E i \in 0 .. 9 : Inside(r, i)

\* The section holds row r, and the cursor reads it or has read it.
Stand(r) ==
    /\ r.at \in Nat /\ r.to \in Nat /\ Holds(input.bytes, r)
    /\ Format = r.fmt /\ Refusal = "none"
    /\ Placed(r)

\* A read changes nothing but the place in the field.
ReadOn ==
    /\ cur'.field = cur.field /\ cur'.end = cur.end /\ cur'.todo = cur.todo
    /\ UNCHANGED <<input, cie, fde, result>>

\* The bytes of a LEB128 number: all but the last one are marked.
LebPlaces(r) ==
    LET last == r.to - r.at - 1 IN
    /\ r.at \in Nat /\ r.to \in Nat /\ last \in 0 .. 9 /\ r.to = r.at + last + 1
    /\ r.to <= Size /\ Weight(last) <= MaxU
    /\ \A i \in 0 .. last : At(r.at + i) \in Byte /\ At(r.at + i) = input.bytes[r.at + i + 1]
    /\ \A i \in 0 .. last : IF i < last THEN At(r.at + i) >= 128 ELSE At(r.at + i) < 128

\* What a digit x of weight w adds to the value v of the digits before it, and what the sign
\* takes from it.
DigitAdded(w, v, x) ==
    /\ v + Wrap(x * w) = Wrap(v + x * w)
    /\ w * 128 <= MaxU => /\ Wrap(v + x * w) = v + x * w
                          /\ v + x * w < w * 128
                          /\ (v + x * w) + ((MaxU + 1) - w * 128) = Wrap((v + x * w) - 128 * w)
    /\ w * 128 > MaxU => Wrap(v + x * w) = Wrap((v + x * w) - 128 * w)

\* The byte at the cursor is digit i of the number, the last one or not.
DigitAt(r, i, last) ==
    /\ r.at \in Nat /\ r.to = r.at + last + 1 /\ last \in 0 .. 9 /\ i \in 0 .. last
    /\ cur.pos = r.at + i /\ cur.pos < Size /\ Size \in Nat /\ MaxU \in Nat
    /\ At(cur.pos) \in Byte /\ At(cur.pos) = input.bytes[r.at + i + 1]
    /\ IF i < last THEN At(cur.pos) >= 128 ELSE At(cur.pos) < 128
    /\ cur.weight = Weight(i) /\ cur.weight \in Nat \ {0} /\ cur.weight <= MaxU
    /\ i < last => cur.weight * 128 <= MaxU /\ Weight(i + 1) = cur.weight * 128
DigitIs(r, i) ==
    /\ At(cur.pos) % 128 \in 0 .. 127 /\ cur.val \in 0 .. cur.weight - 1
    /\ Digits(input.bytes, r.at, i + 1) = cur.val + (At(cur.pos) % 128) * cur.weight
    /\ DigitAdded(cur.weight, cur.val, At(cur.pos) % 128)

-----------------------------------------------------------------------------
(* The rows of a layout *)

CharFields == {"cie_aug_len", "R", "L", "P", "personality"}
RowFields == {"cie_length", "cie_length64", "cie_id", "cie_id64", "version", "address_size",
              "segment_size", "code_align", "data_align", "ret_addr_column", "fde_length",
              "fde_length64", "cie_ptr", "cie_ptr64", "initial_pc", "range", "fde_aug_len",
              "lsda"}
RowOf(d, k, f) == IF f \in CharFields THEN CharRows(d, k)[f] ELSE Rows(d)[f]

PcBase(d) == Base(d.R, d.at.initial_pc, TextBase, DataBase, 0)
LsdaBase(d) == Base(d.L, d.at.lsda, TextBase, DataBase, d.initial_pc)
PersonalityBase(d, k) == Base(d.P, d.data[k] + 1, 0, 0, 0)

\* The row of field f is the given one.
IsRow(d, k, f, fmt, at, to, word) ==
    /\ RowOf(d, k, f).fmt = fmt /\ RowOf(d, k, f).word = word
    /\ RowOf(d, k, f).at = at /\ RowOf(d, k, f).to = to

\* The rows of the CIE, of its augmentation data, and of the FDE.
CieTable(d, k) ==
    /\ IsRow(d, k, "cie_length", "u32", d.at.cie, d.at.cie + U32,
             IF d.cie_size = "u64" THEN Max32 ELSE d.at.cie_end - d.at.cie_id)
    /\ IsRow(d, k, "cie_length64", "u64", d.at.cie + U32, d.at.cie_id,
             d.at.cie_end - d.at.cie_id)
    /\ IsRow(d, k, "cie_id", "u32", d.at.cie_id, d.at.version, 0)
    /\ IsRow(d, k, "cie_id64", "u64", d.at.cie_id, d.at.version, 0)
    /\ IsRow(d, k, "version", "u8", d.at.version, d.at.aug, d.version)
    /\ IsRow(d, k, "address_size", "u8", d.at.sizes, d.at.sizes + 1, 8)
    /\ IsRow(d, k, "segment_size", "u8", d.at.sizes + 1, d.at.code_align, 0)
    /\ IsRow(d, k, "code_align", "uleb", d.at.code_align, d.at.data_align, d.code_align)
    /\ IsRow(d, k, "data_align", "sleb", d.at.data_align, d.at.ra, d.data_align)
    /\ IsRow(d, k, "ret_addr_column", IF d.version = 1 THEN "u8" ELSE "uleb",
             d.at.ra, d.data[1], d.ra)
AugTable(d, k) ==
    /\ IsRow(d, k, "cie_aug_len", "uleb", d.data[k], d.data[k + 1], d.cie_aug_len)
    /\ IsRow(d, k, "R", "u8", d.data[k], d.data[k + 1], d.R)
    /\ IsRow(d, k, "L", "u8", d.data[k], d.data[k + 1], d.L)
    /\ IsRow(d, k, "P", "u8", d.data[k], d.data[k] + 1, d.P)
    /\ IsRow(d, k, "personality", PointerFormat(d.P), d.data[k] + 1, d.data[k + 1],
             IF IsIndirect(d.P) THEN d.slot ELSE Difference(d.handler, PersonalityBase(d, k)))
FdeTable(d, k) ==
    /\ IsRow(d, k, "fde_length", "u32", d.at.fde, d.at.fde + U32,
             IF d.fde_size = "u64" THEN Max32 ELSE d.at.fde_end - d.at.cie_ptr)
    /\ IsRow(d, k, "fde_length64", "u64", d.at.fde + U32, d.at.cie_ptr,
             d.at.fde_end - d.at.cie_ptr)
    /\ IsRow(d, k, "cie_ptr", "u32", d.at.cie_ptr, d.at.initial_pc, d.at.cie_ptr - d.at.cie)
    /\ IsRow(d, k, "cie_ptr64", "u64", d.at.cie_ptr, d.at.initial_pc, d.at.cie_ptr - d.at.cie)
    /\ IsRow(d, k, "initial_pc", PointerFormat(d.R), d.at.initial_pc, d.at.range,
             Difference(d.initial_pc, PcBase(d)))
    /\ IsRow(d, k, "range", PointerFormat(d.R), d.at.range, d.at.fde_aug, d.range)
    /\ IsRow(d, k, "fde_aug_len", "uleb", d.at.fde_aug, d.at.lsda, d.at.fde_instr - d.at.lsda)
    /\ IsRow(d, k, "lsda", PointerFormat(d.L), d.at.lsda, d.at.lsda_end,
             Difference(d.lsda, LsdaBase(d)))

\* What the section holds for the k-th character of the augmentation string.
CharTable(d, k) ==
    /\ d.aug[k] = 82 => Holds(input.bytes, RowOf(d, k, "R"))
    /\ d.aug[k] = 76 => Holds(input.bytes, RowOf(d, k, "L"))
    /\ d.aug[k] = 80 => /\ Holds(input.bytes, RowOf(d, k, "P"))
                        /\ Holds(input.bytes, RowOf(d, k, "personality"))
                        /\ d.P # OMIT
                        /\ IF IsIndirect(d.P) THEN d.handler = 0
                           ELSE Expressible(d.P, d.handler, PersonalityBase(d, k))
    /\ d.aug[k] \notin {80, 76, 82} =>
         d.aug[k] \in {ChS, ChB, ChG} /\ d.data[k + 1] = d.data[k]

\* The types of what is in a layout.
CieTyped(d) ==
    /\ d.at.cie \in Nat /\ d.at.cie_id \in Nat /\ d.at.version \in Nat
    /\ d.at.aug \in Nat /\ d.at.sizes \in Nat /\ d.at.code_align \in Nat
    /\ d.at.data_align \in Nat /\ d.at.ra \in Nat /\ d.at.cie_end \in Nat
    /\ d.cie_size \in {"u32", "u64"} /\ d.version \in {1, 3, 4}
FdeTyped(d) ==
    /\ d.at.fde \in Nat /\ d.at.cie_ptr \in Nat /\ d.at.initial_pc \in Nat
    /\ d.at.range \in Nat /\ d.at.fde_aug \in Nat /\ d.at.lsda \in Nat
    /\ d.at.lsda_end \in Nat /\ d.at.fde_instr \in Nat /\ d.at.fde_end \in Nat
    /\ d.fde_size \in {"u32", "u64"} /\ d.initial_pc \in Addr /\ d.range \in Addr
PointersTyped(d) ==
    /\ d.R \in Byte /\ d.L \in Byte /\ d.P \in Byte
    /\ d.handler \in Addr /\ d.initial_pc \in Addr /\ d.lsda \in Addr

AugTyped(d) ==
    /\ d.aug \in Seq(Byte \ {0}) /\ Len(d.aug) \in Nat
    /\ \A j \in 1 .. Len(d.aug) + 1 : d.data[j] \in Nat

\* Where the entries are in the section, and that the section fits in the address space.
Fits(d) ==
    /\ Size \in Nat /\ MaxU \in Nat /\ EhFrameAvma \in Nat /\ EhFrameAvma + Size <= MaxU
    /\ U32 \in Nat \ {0} /\ U64 \in Nat \ {0} /\ d.data[1] \in Nat
    /\ d.at.cie_end <= Size /\ d.at.fde_end <= Size
    /\ d.at.cie < d.at.cie_ptr /\ d.at.fde_instr <= d.at.fde_end
    /\ d.cie_size = "u32" => d.at.cie_id = d.at.cie + U32 /\ d.at.cie_end - d.at.cie_id # Max32
    /\ d.fde_size = "u32" => d.at.cie_ptr = d.at.fde + U32 /\ d.at.fde_end - d.at.cie_ptr # Max32
    /\ d.version # 4 => d.at.code_align = d.at.sizes

\* What is known of a layout of the section.
Known(d, k) ==
    /\ HasLayout(input, d) /\ Phases /\ Fits(d)
    /\ CieTyped(d) /\ FdeTyped(d) /\ PointersTyped(d) /\ AugTyped(d)
    /\ CieTable(d, k) /\ AugTable(d, k) /\ FdeTable(d, k)

-----------------------------------------------------------------------------
(* The invariant *)

CharOf == [R |-> 82, L |-> 76, P |-> 80, personality |-> 80]

\* What the characters before announce, and the rest of the string.
Among(d, k, c) == \E j \in 2 .. k : d.aug[j] = c
Seen(d, k) ==
    /\ cie.fde_encoding = IF Among(d, k, 82) THEN d.R ELSE 0
    /\ cie.lsda_encoding = IF Among(d, k, 76) THEN d.L ELSE OMIT
    /\ cie.personality = IF Among(d, k, 80) THEN d.handler ELSE 0
    /\ cie.signal_frame = IF Among(d, k, ChS) THEN "signal" ELSE "no"
Rest(d, k) ==
    /\ cur.todo \in Seq(Byte)
    /\ Len(cur.todo) = Len(d.aug) - k
    /\ \A j \in 1 .. Len(cur.todo) : cur.todo[j] = d.aug[k + j]
Chars(d, k, p) ==
    /\ p < 11 => k = 0
    /\ p = 11 => k = 1
    /\ p \in 11 .. 12 => k \in 1 .. Len(d.aug)
    /\ p > 12 => k = Len(d.aug)
    /\ p \in 6 .. 12 => Rest(d, k)
    /\ cur.field \notin DOMAIN CharOf => Seen(d, k)
    /\ cur.field \in DOMAIN CharOf =>
         k \in 2 .. Len(d.aug) /\ d.aug[k] = CharOf[cur.field] /\ Seen(d, k - 1)
    /\ cur.field = "personality" => cie.personality_encoding = d.P

\* The other fields of the CIE and the FDE, before the field of phase p.
Columns(d, p) ==
    /\ p > 4 => cie.version = d.version
    /\ p = 7 => cie.address_size = 8
    /\ p > 8 => cie.code_align = d.code_align
    /\ p > 9 => cie.data_align = d.data_align
    /\ p > 10 => cie.ret_addr_column = d.ra
    /\ cie.has_z = IF p > 10 /\ d.aug # <<>> THEN "z" ELSE "no"
    /\ p > 13 => /\ cie.instr_offset = d.data[Len(d.aug) + 1]
                 /\ cie.instr_len = Wrap(d.at.cie_end - d.data[Len(d.aug) + 1])
Function(d, p) ==
    /\ p > 17 => fde.initial_pc = d.initial_pc
    /\ p > 18 => fde.address_range = d.range
    /\ p = 20 => fde.aug_data_end = d.at.fde_instr
    /\ fde.lsda = IF p > 20 /\ d.L # OMIT THEN d.lsda ELSE 0
    /\ p > 21 => /\ fde.instr_offset = d.at.fde_instr
                 /\ fde.instr_len = Wrap(d.at.fde_end - d.at.fde_instr)
Groups(d, k, p) == Chars(d, k, p) /\ Columns(d, p) /\ Function(d, p)

\* Where the cursor is.
Marks(d, k) == [fde_offset |-> 0, augmentation |-> d.at.aug, aug_char |-> d.data[k + 1],
                cie_end |-> d.data[Len(d.aug) + 1], fde_end |-> d.at.fde_instr,
                details |-> d.at.fde_instr]
MarkFields == {"fde_offset", "augmentation", "aug_char", "cie_end", "fde_end", "details"}
Ends(d) ==
    /\ cur.field \in CieBody => cur.end = d.at.cie_end
    /\ cur.field \in FdeBody => cur.end = d.at.fde_end
Spot(d, k) ==
    /\ cur.field \in RowFields => cur.field \in Present(d)
    /\ cur.field \in MarkFields => cur.stage = "read" /\ cur.pos = Marks(d, k)[cur.field]
    /\ cur.field \notin MarkFields => Stand(RowOf(d, k, cur.field))

Gathered(d, k) == Groups(d, k, Phase[cur.field]) /\ Ends(d)
Track(d, k) == Gathered(d, k) /\ Spot(d, k)
Exact(d) ==
    HasLayout(input, d) => /\ \E k \in Nat : Track(d, k)
                           /\ result \in {None, Meaning(input, d)}

-----------------------------------------------------------------------------
(* Steps *)

\* The step goes on.
OnTrack(d) == result' = None /\ \E k \in Nat : Track(d, k)'
Keeps(A) ==
    \A d \in Layouts, k \in Nat : Shaped /\ Known(d, k) /\ Track(d, k) /\ A => OnTrack(d)

\* Field f was read: the cursor is after its row and has its word.
HasRead(d, k, f) ==
    /\ result = None /\ cur.field = f
    /\ cur.pos = RowOf(d, k, f).to /\ cur.val = RowOf(d, k, f).word
    /\ cur.start = RowOf(d, k, f).at /\ Format = RowOf(d, k, f).fmt /\ Refusal = "none"
    /\ f \in RowFields => f \in Present(d)

\* The step changes no fields of the CIE but those of S.
CieKeeps(S) ==
    /\ "version" \notin S => cie'.version = cie.version
    /\ "address_size" \notin S => cie'.address_size = cie.address_size
    /\ "code_align" \notin S => cie'.code_align = cie.code_align
    /\ "data_align" \notin S => cie'.data_align = cie.data_align
    /\ "ret_addr_column" \notin S => cie'.ret_addr_column = cie.ret_addr_column
    /\ "has_z" \notin S => cie'.has_z = cie.has_z
    /\ "fde_encoding" \notin S => cie'.fde_encoding = cie.fde_encoding
    /\ "lsda_encoding" \notin S => cie'.lsda_encoding = cie.lsda_encoding
    /\ "personality" \notin S => cie'.personality = cie.personality
    /\ "signal_frame" \notin S => cie'.signal_frame = cie.signal_frame
    /\ "instr_offset" \notin S => cie'.instr_offset = cie.instr_offset
    /\ "instr_len" \notin S => cie'.instr_len = cie.instr_len

\* Nor of the FDE.
FdeKeeps(S) ==
    /\ "initial_pc" \notin S => fde'.initial_pc = fde.initial_pc
    /\ "address_range" \notin S => fde'.address_range = fde.address_range
    /\ "lsda" \notin S => fde'.lsda = fde.lsda
    /\ "aug_data_end" \notin S => fde'.aug_data_end = fde.aug_data_end
    /\ "instr_offset" \notin S => fde'.instr_offset = fde.instr_offset
    /\ "instr_len" \notin S => fde'.instr_len = fde.instr_len

\* The step takes no character and sees none.
SameChars(p, q) ==
    /\ cur.field \notin DOMAIN CharOf /\ cur'.field \notin DOMAIN CharOf
    /\ cie'.fde_encoding = cie.fde_encoding /\ cie'.lsda_encoding = cie.lsda_encoding
    /\ cie'.personality = cie.personality /\ cie'.signal_frame = cie.signal_frame
    /\ \/ p \in 0 .. 5 /\ q \in 0 .. 5
       \/ p \in 6 .. 10 /\ q \in 6 .. 10 /\ cur'.todo = cur.todo
       \/ p \in 13 .. 22 /\ q \in 13 .. 22

\* The step is one to offset p and field f, with c and e for the CIE and the FDE.
NewField(f, p) ==
    /\ cur'.field = f /\ cur'.stage = "read" /\ cur'.pos = p /\ cur'.start = p
    /\ cur'.val = 0 /\ cur'.weight = 1
Moved(f, p, c, e) ==
    NewField(f, p) /\ cie' = c /\ fde' = e /\ input' = input /\ result' = None

\* Where the first pass finds what is at the head of the FDE.
HeadPlaces(d) ==
    /\ fde_offset = d.at.fde /\ d.at.fde + U32 <= Size
    /\ IsDwarf64 <=> d.fde_size = "u64"
    /\ CiePtrPos = d.at.cie_ptr /\ CiePtr = d.at.cie_ptr - d.at.cie
    /\ CiePtrLen \in Nat /\ CiePtrPos + CiePtrLen <= Size

\* The augmentation string and the zero after it.
AugPlaces(d) ==
    LET o == d.at.aug
        n == Len(d.aug)
    IN  /\ o \in Nat /\ n \in Nat /\ d.at.sizes = o + n + 1 /\ o + n < Size
        /\ At(o + n) = 0
        /\ \A j \in 0 .. n - 1 : At(o + j) # 0
        /\ \A j \in 1 .. n : input.bytes[o + j] = d.aug[j]

\* The next character of the augmentation string.
RestMoves(d, k) ==
    /\ cur.todo = <<>> <=> k = Len(d.aug)
    /\ cur.todo # <<>> => /\ k + 1 \in 1 .. Len(d.aug) /\ Head(cur.todo) = d.aug[k + 1]
                          /\ cur'.todo = Tail(cur.todo) => Rest(d, k + 1)'

\* After the CIE its encodings are those of the layout.
Encoded(d) ==
    /\ cie.fde_encoding = d.R /\ cie.lsda_encoding = d.L /\ cie.personality = d.handler
    /\ cie.signal_frame = IF AugHas(d, ChS) THEN "signal" ELSE "no"
    /\ d.aug = <<>> => d.L = OMIT

-----------------------------------------------------------------------------
(* Properties *)

\* The parser gives a section the meaning of its layout: whatever its fields, formats,
\* encodings and augmentation string, it either still runs or has returned the details
\* that the layout means, or the miss of an address outside of the function.  In
\* particular it refuses no such section, nor does it overrun an entry.
LayoutExact ==
    \A d \in Layouts : HasLayout(input, d) => result \in {None, Meaning(input, d)}

\* A call whose expected result is the meaning of a layout of its section.
Described == \E d \in Layouts : HasLayout(input, d) /\ input.meant = Meaning(input, d)
=============================================================================
