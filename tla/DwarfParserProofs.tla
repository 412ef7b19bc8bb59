------------------------- MODULE DwarfParserProofs -------------------------
(***************************************************************************)
(* For every section, every candidate and every word size: the cursor      *)
(* stays in the section, the instructions that are returned lie inside     *)
(* their entries, and every step comes nearer to the end.                  *)
(***************************************************************************)
EXTENDS DwarfFields, TLAPS

\* The range of a remainder.
LEMMA ModRange ==
    ASSUME NEW a \in Int, NEW b \in Nat, b > 0
    PROVE  a % b \in 0 .. b - 1
OBVIOUS

\* The remainder of numbers at most one period away.
LEMMA ModNear ==
    ASSUME NEW a \in Int, NEW b \in Nat, b > 0
    PROVE  /\ a \in 0 .. b - 1 => a % b = a
           /\ a \in b .. 2 * b - 1 => a % b = a - b
           /\ a \in -b .. -1 => a % b = a + b
OBVIOUS

-----------------------------------------------------------------------------
(* The inductive invariant *)

CieEndOffset == EntryEnd(CieOffset)
FdeEndOffset == EntryEnd(fde_offset)

\* Locate let only an FDE pass whose length and CIE pointer are in the section.
Located ==
    cur.field # "fde_offset" =>
      /\ fde_offset \in Nat /\ CiePtrPos \in Nat /\ CieOffset \in Nat
      /\ fde_offset + U32 <= Size /\ CiePtrPos <= Size /\ CieOffset <= CiePtrPos

\* A length is read at the start of its entry, or after the escape.
HeadRead ==
    /\ cur.field = "cie_length" => cur.start = CieOffset
    /\ cur.field = "fde_length" => cur.start = fde_offset
    /\ cur.field = "cie_length64" =>
         cur.start = CieOffset + U32 /\ LittleEndian(input.bytes, CieOffset, U32) = Max32
    /\ cur.field = "fde_length64" =>
         cur.start = fde_offset + U32 /\ LittleEndian(input.bytes, fde_offset, U32) = Max32
    /\ cur.stage = "read" /\ cur.field \in CieHeads \cup FdeHeads => cur.pos = cur.start
    /\ cur.stage = "use" /\ cur.field \in {"cie_length", "fde_length"} =>
         cur.pos = cur.start + U32 /\ cur.val = LittleEndian(input.bytes, cur.start, U32)
    /\ cur.stage = "use" /\ cur.field \in {"cie_length64", "fde_length64"} =>
         cur.pos = cur.start + U64 /\ cur.val = LittleEndian(input.bytes, cur.start, U64)

\* Where the fields of the entries are read, their end is the one the length says.
EndKnown ==
    /\ cur.field \in CieBody => cur.end = CieEndOffset /\ cur.pos > CieOffset
    /\ cur.field \in FdeBody => cur.end = FdeEndOffset /\ cur.pos > fde_offset
    /\ cur.field = "lsda" => fde.aug_data_end <= cur.end

\* A parsed entry lies in the section, and so does the start of its instructions.
CieParsed ==
    cur.field \in FdeHeads \cup FdeBody \cup {"details"} =>
      /\ CieEndOffset \in 0 .. Size
      /\ cie.instr_offset \in CieOffset + 1 .. Size
      /\ cie.instr_len = Wrap(CieEndOffset - cie.instr_offset)
FdeParsed ==
    cur.field = "details" =>
      /\ FdeEndOffset \in 0 .. Size
      /\ fde.instr_offset \in fde_offset + 1 .. Size
      /\ fde.instr_len = Wrap(FdeEndOffset - fde.instr_offset)

Book == Located /\ HeadRead /\ EndKnown /\ CieParsed /\ FdeParsed
IInv == input \in Inputs /\ TypeOK /\ ReadsInBounds /\ Book /\ InstructionsInEntry

-----------------------------------------------------------------------------
(* Words *)

\* Sizes of fixed fields are between one and eight bytes.
LEMMA Sizes == /\ U16 \in 1 .. 8 /\ U32 \in 1 .. 8 /\ U64 \in 1 .. 8
               /\ \A f : FixedSize(f) \in 1 .. 8
BY WidthAssumption DEF FixedSize

\* Wrapping arithmetic yields words.
LEMMA WrapType == ASSUME NEW n \in Int PROVE Wrap(n) \in Addr
<1>1. MaxU + 1 \in Nat /\ MaxU + 1 > 0
  BY WidthAssumption
<1>2. n % (MaxU + 1) \in 0 .. (MaxU + 1) - 1
  BY <1>1, ModRange, Zenon
<1> QED BY <1>1, <1>2, WidthAssumption DEF Wrap, Addr

\* An end that is stored as a start and a wrapped length is found again.
LEMMA WrappedLength ==
    ASSUME NEW a \in Addr, NEW s \in Nat, NEW e \in Nat, a + s <= MaxU, a + e <= MaxU
    PROVE  /\ Wrap(a + s) = a + s
           /\ Wrap(Wrap(a + s) + Wrap(e - s)) = a + e
<1> DEFINE M == MaxU + 1
<1>1. M \in Nat /\ M > 0 /\ MaxU \in Nat /\ a \in Nat
  BY WidthAssumption DEF Addr
<1>2. Wrap(a + s) = a + s
  BY <1>1, ModNear DEF Wrap
<1>3. CASE e >= s
  <2>1. Wrap(e - s) = e - s
    BY <1>1, <1>3, ModNear DEF Wrap
  <2>2. a + s + (e - s) = a + e
    BY <1>1
  <2>3. Wrap(a + e) = a + e
    BY <1>1, ModNear DEF Wrap
  <2> QED BY <1>2, <2>1, <2>2, <2>3, Zenon
<1>4. CASE e < s
  <2>1. Wrap(e - s) = e - s + M
    <3>1. e - s \in -M .. -1 /\ e - s \in Int
      BY <1>1, <1>4
    <3> QED BY <1>1, <3>1, ModNear, Zenon DEF Wrap
  <2>2. a + s + (e - s + M) = a + e + M
    BY <1>1
  <2>3. Wrap(a + e + M) = a + e
    <3>1. a + e + M \in M .. 2 * M - 1 /\ a + e + M \in Int
      BY <1>1
    <3>2. (a + e + M) % M = (a + e + M) - M
      BY <1>1, <3>1, ModNear, Zenon
    <3> QED BY <1>1, <3>2 DEF Wrap
  <2> QED BY <1>2, <2>1, <2>2, <2>3, Zenon
<1> QED BY <1>3, <1>4, <1>1

\* The section is a sequence that fits in the address space.
LEMMA SizeType ==
    ASSUME input \in Inputs
    PROVE  Size \in Nat /\ EhFrameAvma \in Nat /\ MaxU \in Nat /\ EhFrameAvma + Size <= MaxU
<1>1. input.bytes \in Seq(Byte) /\ EhFrameAvma + Len(input.bytes) <= MaxU
  BY InputsAssumption, Zenon
<1>2. Len(input.bytes) \in Nat
  BY <1>1
<1> QED BY <1>1, <1>2, WidthAssumption DEF Size, Addr

\* A byte inside the section.
LEMMA AtType ==
    ASSUME input \in Inputs, NEW o \in Nat, o < Size
    PROVE  At(o) \in Byte
<1>1. input.bytes \in Seq(Byte)
  BY InputsAssumption, Zenon
<1>2. o + 1 \in 1 .. Len(input.bytes)
  BY <1>1 DEF Size
<1> QED BY <1>1, <1>2 DEF At

\* One step of a Horner sum.
LEMMA HornerStep == \A x, y \in Nat : x + 256 * y \in Nat
OBVIOUS

\* A word inside the section is a number.
LEMMA LittleEndianType ==
    ASSUME input \in Inputs, NEW o \in Nat, NEW k \in 1 .. 8, o + k <= Size
    PROVE  LittleEndian(input.bytes, o, k) \in Nat
<1> DEFINE B(i) == IF i < k THEN input.bytes[o + i + 1] ELSE 0
           S(x, y) == x + 256 * y
<1>1. \A i \in Nat : B(i) \in Nat
  <2>1. ASSUME NEW i \in Nat, i < k PROVE input.bytes[o + i + 1] \in Nat
    <3>1. o + i \in Nat /\ o + i < Size
      BY <2>1, SizeType
    <3>2. At(o + i) \in Byte
      BY <3>1, AtType, Zenon
    <3> QED BY <3>2 DEF Byte, At
  <2> QED BY <2>1, Zenon
<1>2. LittleEndian(input.bytes, o, k) =
        S(B(0), S(B(1), S(B(2), S(B(3), S(B(4), S(B(5), S(B(6), B(7))))))))
  BY Zenon DEF LittleEndian
<1>3. \A x, y \in Nat : S(x, y) \in Nat
  BY HornerStep, Zenon
<1> HIDE DEF B, S
<1>4. S(B(5), S(B(6), B(7))) \in Nat
  BY <1>1, <1>3, Zenon
<1>5. S(B(2), S(B(3), S(B(4), S(B(5), S(B(6), B(7)))))) \in Nat
  BY <1>1, <1>3, <1>4, Zenon
<1>6. S(B(0), S(B(1), S(B(2), S(B(3), S(B(4), S(B(5), S(B(6), B(7)))))))) \in Nat
  BY <1>1, <1>3, <1>5, Zenon
<1> QED BY <1>2, <1>6, Zenon

\* A fixed-size field inside the section is a number.
LEMMA FixedValueType ==
    ASSUME input \in Inputs, NEW f, NEW o \in Nat, o + FixedSize(f) <= Size
    PROVE  FixedValue(f, o) \in Nat
<1>1. LittleEndian(input.bytes, o, FixedSize(f)) \in Nat
  BY LittleEndianType, Sizes, Zenon
<1>2. MaxU - Max16 \in Nat /\ MaxU - Max32 \in Nat
  BY WidthAssumption DEF Addr
<1> QED BY <1>1, <1>2 DEF FixedValue

-----------------------------------------------------------------------------
(* Steps that do not touch the section *)

\* The places in the section depend on the section alone.
LEMMA PlacesFixed ==
    ASSUME input' = input
    PROVE  /\ Size' = Size /\ fde_offset' = fde_offset /\ CiePtrPos' = CiePtrPos
           /\ CieOffset' = CieOffset /\ CieEndOffset' = CieEndOffset
           /\ FdeEndOffset' = FdeEndOffset
BY Zenon DEF Size, fde_offset, CiePtrPos, CieOffset, CiePtr, CiePtrLen, IsDwarf64,
       CieEndOffset, FdeEndOffset, EntryEnd

\* The invariant holds at the start.
LEMMA InitHolds == Init => IInv
<1> SUFFICES ASSUME Init PROVE IInv
  BY Zenon
<1>1. Size \in Nat /\ MaxU \in Nat
  BY SizeType, Zenon DEF Init
<1>2. TypeOK
  BY <1>1 DEF Init, TypeOK, Cursor, ParsedCie, ParsedFde, Start, NoCie, NoFde, Fields, Addr, OMIT
<1>3. ReadsInBounds
  BY <1>1 DEF Init, Start, ReadsInBounds
<1>4. Book
  BY Zenon DEF Init, Start, Book, Located, HeadRead, EndKnown, CieParsed, FdeParsed,
         CieBody, FdeBody, FdeHeads
<1> QED BY <1>2, <1>3, <1>4, Zenon DEF Init, IInv, InstructionsInEntry, Accepted

\* Steps that change nothing keep the invariant.
LEMMA StutterKeeps == IInv /\ UNCHANGED vars => IInv'
BY PlacesFixed DEF vars, IInv, TypeOK, ReadsInBounds, Book, Located,
   HeadRead, EndKnown, CieParsed, FdeParsed, InstructionsInEntry, Accepted,
   CieEndOffset, FdeEndOffset

\* What does not depend on the result stays when only the result changes.
LEMMA StillThere ==
    ASSUME IInv, UNCHANGED <<input, cur, cie, fde>>
    PROVE  input' \in Inputs /\ TypeOK' /\ ReadsInBounds' /\ Book'
<1>1. TypeOK'
  BY Zenon DEF IInv, TypeOK
<1>2. ReadsInBounds'
  BY PlacesFixed, Zenon DEF IInv, ReadsInBounds
<1>3. Located' /\ EndKnown'
  BY PlacesFixed, Zenon DEF IInv, Book, Located, EndKnown
<1>4. HeadRead'
  BY PlacesFixed, Zenon DEF IInv, Book, HeadRead
<1>5. CieParsed' /\ FdeParsed'
  BY PlacesFixed, Zenon DEF IInv, Book, CieParsed, FdeParsed, Wrap
<1> QED BY <1>1, <1>2, <1>3, <1>4, <1>5, Zenon DEF IInv, Book

\* A failure or a panic keeps the invariant.
LEMMA FailKeeps ==
    ASSUME IInv, NEW r, Return(r), r.tag # "ok"
    PROVE  IInv'
BY StillThere, Zenon DEF Return, IInv, InstructionsInEntry, Accepted

\* Moves from one field of an entry to a later place in it.
LEMMA BodyMove ==
    ASSUME IInv, result = None, UNCHANGED <<input, result>>, TypeOK', ReadsInBounds',
           \/ cur.field \in CieBody /\ cur'.field \in CieBody
           \/ cur.field \in FdeBody /\ cur'.field \in FdeBody /\ cie' = cie,
           cur'.pos >= cur.pos, cur'.end = cur.end,
           cur'.field = "lsda" => fde'.aug_data_end <= cur.end
    PROVE  IInv'
<1>1. Located'
  BY PlacesFixed, Zenon DEF IInv, Book, Located, CieBody, FdeBody
<1>2. HeadRead'
  BY Zenon DEF HeadRead, CieBody, FdeBody, CieHeads, FdeHeads
<1>3. EndKnown'
  <2>1. cur.pos \in Nat /\ cur'.pos \in Nat
    BY Zenon DEF IInv, TypeOK, Cursor
  <2>2. cur.field # "fde_offset"
    BY Zenon DEF CieBody, FdeBody
  <2>3. fde_offset \in Nat /\ CieOffset \in Nat
    BY <2>2, Zenon DEF IInv, Book, Located
  <2>4. CieBody \cap FdeBody = {}
    BY Zenon DEF CieBody, FdeBody
  <2> QED BY <2>1, <2>3, <2>4, PlacesFixed DEF IInv, Book, EndKnown
<1>4. CieParsed' /\ FdeParsed'
  BY PlacesFixed, Zenon
     DEF IInv, Book, CieParsed, FdeParsed, CieBody, FdeBody, FdeHeads, Wrap
<1>5. InstructionsInEntry'
  BY Zenon DEF InstructionsInEntry, Accepted
<1> QED BY <1>1, <1>2, <1>3, <1>4, <1>5, Zenon DEF IInv, Book

\* The cursor at the start of another field.
LEMMA GotoIs ==
    ASSUME cur \in Cursor, NEW f \in Fields, NEW p \in Nat
    PROVE  /\ Goto(f, p) \in Cursor
           /\ Goto(f, p).field = f /\ Goto(f, p).stage = "read" /\ Goto(f, p).pos = p
           /\ Goto(f, p).start = p /\ Goto(f, p).end = cur.end /\ Goto(f, p).todo = cur.todo
BY DEF Goto, Cursor

\* The same with another rest of the augmentation.
LEMMA GotoTodoIs ==
    ASSUME cur \in Cursor, NEW f \in Fields, NEW p \in Nat, NEW t \in Seq(Byte)
    PROVE  LET c == [Goto(f, p) EXCEPT !.todo = t]
           IN  /\ c \in Cursor /\ c.field = f /\ c.stage = "read"
               /\ c.pos = p /\ c.start = p /\ c.end = cur.end
<1>1. [Goto(f, p) EXCEPT !.todo = t] =
        [field |-> f, stage |-> "read", pos |-> p, start |-> p, val |-> 0, weight |-> 1,
         end |-> cur.end, todo |-> t]
  BY DEF Goto
<1>2. cur.end \in Nat
  BY Zenon DEF Cursor
<1> QED BY <1>1, <1>2 DEF Cursor

\* The same with another end of the entry.
LEMMA GotoEndIs ==
    ASSUME cur \in Cursor, NEW f \in Fields, NEW p \in Nat, NEW n \in Nat
    PROVE  LET c == [Goto(f, p) EXCEPT !.end = n]
           IN  /\ c \in Cursor /\ c.field = f /\ c.stage = "read"
               /\ c.pos = p /\ c.start = p /\ c.end = n
<1>1. [Goto(f, p) EXCEPT !.end = n] =
        [field |-> f, stage |-> "read", pos |-> p, start |-> p, val |-> 0, weight |-> 1,
         end |-> n, todo |-> cur.todo]
  BY DEF Goto
<1>2. cur.todo \in Seq(Byte)
  BY Zenon DEF Cursor
<1> QED BY <1>1, <1>2 DEF Cursor

\* Both outcomes of a checked step.
LEMMA ProceedCases ==
    ASSUME IInv, NEW bad, NEW kind, NEW c, NEW e, NEW d, Proceed(bad, kind, c, e, d)
    PROVE  IInv' \/ (~bad /\ cur' = c /\ cie' = e /\ fde' = d /\ UNCHANGED <<input, result>>)
BY FailKeeps, Zenon DEF Proceed, Fail, Go

\* A field of the CIE is done and the next one begins.
LEMMA CieMove ==
    ASSUME IInv, result = None, cur.field \in CieBody,
           cur' \in Cursor, cur'.field \in CieBody, cur'.start = cur'.pos,
           cur'.pos >= cur.pos, cur'.pos <= Size, cur'.end = cur.end,
           cie' \in ParsedCie, fde' = fde, UNCHANGED <<input, result>>
    PROVE  IInv'
<1>1. TypeOK'
  BY Zenon DEF IInv, TypeOK
<1>2. ReadsInBounds'
  BY PlacesFixed, SizeType DEF IInv, ReadsInBounds, Cursor
<1>3. cur'.field # "lsda"
  BY Zenon DEF CieBody
<1> QED BY <1>1, <1>2, <1>3, BodyMove, Zenon

\* A field of the FDE is done and the next one begins.
LEMMA FdeMove ==
    ASSUME IInv, result = None, cur.field \in FdeBody,
           cur' \in Cursor, cur'.field \in FdeBody, cur'.start = cur'.pos,
           cur'.pos >= cur.pos, cur'.end = cur.end,
           cur'.pos <= Size \/ (cur'.field = "fde_end" /\ cur'.pos <= cur.end),
           cur'.field = "lsda" => fde'.aug_data_end <= cur.end,
           cie' = cie, fde' \in ParsedFde, UNCHANGED <<input, result>>
    PROVE  IInv'
<1>1. TypeOK'
  BY Zenon DEF IInv, TypeOK
<1>2. ReadsInBounds'
  BY PlacesFixed, SizeType DEF IInv, ReadsInBounds, Cursor
<1> QED BY <1>1, <1>2, BodyMove, Zenon

\* A pointer that was read resolves to a word.
LEMMA ResolvedType ==
    ASSUME IInv, ~NotApplicable
    PROVE  Resolved \in Addr
<1>1. cur.val \in Nat /\ fde.initial_pc \in Nat /\ cur.start \in Nat
  BY DEF IInv, TypeOK, Cursor, ParsedFde, Addr
<1>2. 0 \in Addr
  BY WidthAssumption DEF Addr
<1>3. ASSUME ~Absent PROVE Resolved \in Addr
  <2>1. ApplicationOf(Encoding) \in 0 .. 4
    BY <1>3, Zenon DEF NotApplicable
  <2>2. \A a \in 0 .. 4 : PointerBase[a] \in Nat
    BY <1>1, WidthAssumption DEF PointerBase, Addr
  <2>3. cur.val + PointerBase[ApplicationOf(Encoding)] \in Int
    BY <1>1, <2>1, <2>2
  <2> QED BY <1>3, <2>3, WrapType, Zenon DEF Resolved
<1> QED BY <1>2, <1>3, Zenon DEF Resolved

-----------------------------------------------------------------------------
(* parse_cie *)

\* In a field that is not the skipped end of an FDE the cursor is in the section.
LEMMA CieFieldFacts ==
    ASSUME IInv, cur.field \in CieBody
    PROVE  /\ cur \in Cursor /\ cie \in ParsedCie /\ fde \in ParsedFde /\ input \in Inputs
           /\ cur.pos \in Nat /\ cur.pos <= Size /\ cur.val \in Nat /\ cur.todo \in Seq(Byte)
           /\ CieBody \subseteq Fields
BY SizeType DEF IInv, TypeOK, Cursor, ReadsInBounds, CieBody, Fields

\* The CIE fields that are checked or stored keep the invariant.
LEMMA CieFieldsKeep ==
    ASSUME IInv, NEW f,
           \/ f \in {"cie_id", "cie_id64"} /\ UseCieId(f)
           \/ f \in DOMAIN Target /\ StoreCieField(f)
           \/ UseVersion \/ UseSegmentSize \/ UseCieAugLen \/ UsePersonality
    PROVE  IInv'
<1>1. CASE f \in {"cie_id", "cie_id64"} /\ UseCieId(f)
  <2>1. cur.field \in CieBody /\ result = None
    BY <1>1, Zenon DEF UseCieId, Using, CieBody
  <2>2. SUFFICES ASSUME cur' = Goto("version", cur.pos), cie' = cie, fde' = fde,
                        UNCHANGED <<input, result>>
                 PROVE  IInv'
    BY <1>1, ProceedCases, Zenon DEF UseCieId
  <2>3. "version" \in CieBody
    BY Zenon DEF CieBody
  <2> QED BY <2>1, <2>2, <2>3, CieFieldFacts, GotoIs, CieMove
<1>2. CASE f \in DOMAIN Target /\ StoreCieField(f)
  <2> DEFINE e == [cie EXCEPT ![Target[f]] = cur.val]
  <2>1. f \in {"address_size", "code_align", "data_align", "R", "L", "P"}
    BY <1>2, Zenon DEF Target
  <2>2. cur.field \in CieBody /\ result = None /\ NextField[f] \in CieBody
    BY <1>2, <2>1 DEF StoreCieField, Using, CieBody, NextField
  <2>3. e \in ParsedCie
    <3>1. cie \in ParsedCie /\ cur.val \in Nat
      BY <2>2, CieFieldFacts, Zenon
    <3>2. Target[f] \in {"address_size", "code_align", "data_align", "fde_encoding",
                         "lsda_encoding", "personality_encoding"}
      BY <2>1 DEF Target
    <3>3. CASE Target[f] = "address_size"
      BY <3>1, <3>3, Zenon DEF ParsedCie
    <3>4. CASE Target[f] = "code_align"
      BY <3>1, <3>4, Zenon DEF ParsedCie
    <3>5. CASE Target[f] = "data_align"
      BY <3>1, <3>5, Zenon DEF ParsedCie
    <3>6. CASE Target[f] = "fde_encoding"
      BY <3>1, <3>6, Zenon DEF ParsedCie
    <3>7. CASE Target[f] = "lsda_encoding"
      BY <3>1, <3>7, Zenon DEF ParsedCie
    <3>8. CASE Target[f] = "personality_encoding"
      BY <3>1, <3>8, Zenon DEF ParsedCie
    <3> QED BY <3>2, <3>3, <3>4, <3>5, <3>6, <3>7, <3>8, Zenon
  <2> HIDE DEF e
  <2>4. SUFFICES ASSUME cur' = Goto(NextField[f], cur.pos), cie' = e, fde' = fde,
                        UNCHANGED <<input, result>>
                 PROVE  IInv'
    BY <1>2, ProceedCases, Zenon DEF StoreCieField, e, Go
  <2> QED BY <2>2, <2>3, <2>4, CieFieldFacts, GotoIs, CieMove
<1>3. CASE UseVersion
  <2> DEFINE e == [cie EXCEPT !.version = cur.val]
  <2>1. cur.field \in CieBody /\ result = None /\ "augmentation" \in CieBody
    BY <1>3, Zenon DEF UseVersion, Using, CieBody
  <2>2. e \in ParsedCie
    BY <2>1, CieFieldFacts, Zenon DEF ParsedCie
  <2> HIDE DEF e
  <2>3. SUFFICES ASSUME cur' = Goto("augmentation", cur.pos), cie' = e, fde' = fde,
                        UNCHANGED <<input, result>>
                 PROVE  IInv'
    BY <1>3, ProceedCases, Zenon DEF UseVersion, e
  <2> QED BY <2>1, <2>2, <2>3, CieFieldFacts, GotoIs, CieMove
<1>4. CASE UseSegmentSize
  <2>1. cur.field \in CieBody /\ result = None /\ "code_align" \in CieBody
    BY <1>4, Zenon DEF UseSegmentSize, Using, CieBody
  <2>2. SUFFICES ASSUME cur' = Goto("code_align", cur.pos), cie' = cie, fde' = fde,
                        UNCHANGED <<input, result>>
                 PROVE  IInv'
    BY <1>4, ProceedCases, Zenon DEF UseSegmentSize
  <2> QED BY <2>1, <2>2, CieFieldFacts, GotoIs, CieMove
<1>5. CASE UseCieAugLen
  <2>1. cur.field \in CieBody /\ result = None /\ "aug_char" \in CieBody
    BY <1>5, Zenon DEF UseCieAugLen, Using, CieBody
  <2>2. SUFFICES ASSUME cur' = Goto("aug_char", cur.pos), cie' = cie, fde' = fde,
                        UNCHANGED <<input, result>>
                 PROVE  IInv'
    BY <1>5, ProceedCases, Zenon DEF UseCieAugLen, Go
  <2> QED BY <2>1, <2>2, CieFieldFacts, GotoIs, CieMove
<1>6. CASE UsePersonality
  <2> DEFINE e == [cie EXCEPT !.personality = Resolved]
  <2>1. cur.field \in CieBody /\ result = None /\ "aug_char" \in CieBody
    BY <1>6, Zenon DEF UsePersonality, Using, CieBody
  <2>2. ~NotApplicable => e \in ParsedCie
    BY <2>1, CieFieldFacts, ResolvedType, Zenon DEF ParsedCie
  <2> HIDE DEF e
  <2>3. SUFFICES ASSUME ~NotApplicable, cur' = Goto("aug_char", cur.pos), cie' = e,
                        fde' = fde, UNCHANGED <<input, result>>
                 PROVE  IInv'
    BY <1>6, ProceedCases, Zenon DEF UsePersonality, e
  <2> QED BY <2>1, <2>2, <2>3, CieFieldFacts, GotoIs, CieMove
<1> QED BY <1>1, <1>2, <1>3, <1>4, <1>5, <1>6, Zenon

\* The augmentation string, the return address column and the characters of the
\* augmentation keep the invariant.
LEMMA AugmentationKeeps ==
    ASSUME IInv, ScanAugmentation \/ UseRetAddrColumn \/ AugChar
    PROVE  IInv'
<1>1. CASE ScanAugmentation
  <2>1. cur.field \in CieBody /\ result = None /\ {"address_size", "code_align"} \subseteq CieBody
    BY <1>1, Zenon DEF ScanAugmentation, Reading, CieBody
  <2>2. CASE Fail("UnterminatedAugmentationString")
    BY <2>2, FailKeeps, Zenon DEF Fail
  <2>3. ASSUME NEW e \in cur.pos .. Size - 1,
               Go([Goto(IF cie.version = 4 THEN "address_size" ELSE "code_align", e + 1)
                          EXCEPT !.todo = SubSeq(input.bytes, cur.pos + 1, e)], cie, fde)
        PROVE  IInv'
    <3> DEFINE g == IF cie.version = 4 THEN "address_size" ELSE "code_align"
               t == SubSeq(input.bytes, cur.pos + 1, e)
    <3>1. Size \in Nat /\ cur.pos \in Nat /\ e \in Nat /\ e + 1 <= Size /\ e >= cur.pos
      BY <2>1, CieFieldFacts, SizeType
    <3>2. t \in Seq(Byte)
      <4>1. input.bytes \in Seq(Byte) /\ Len(input.bytes) = Size
        BY <2>1, CieFieldFacts, InputsAssumption, Zenon DEF Size
      <4>2. \A i \in cur.pos + 1 .. e : input.bytes[i] \in Byte
        BY <3>1, <4>1
      <4> QED BY <3>1, <4>1, <4>2
    <3>3. g \in CieBody
      BY <2>1, Zenon
    <3> HIDE DEF g, t
    <3>4. SUFFICES ASSUME cur' = [Goto(g, e + 1) EXCEPT !.todo = t], cie' = cie,
                          fde' = fde, UNCHANGED <<input, result>>
                   PROVE  IInv'
      <4>1. Go([Goto(g, e + 1) EXCEPT !.todo = t], cie, fde)
        BY <2>3, Zenon DEF g, t
      <4> QED BY <4>1, Zenon DEF Go
    <3>5. cur' \in Cursor /\ cur'.field = g /\ cur'.start = e + 1 /\ cur'.pos = e + 1
          /\ cur'.end = cur.end
      <4>1. g \in Fields /\ e + 1 \in Nat /\ cur \in Cursor
        BY <2>1, <3>1, <3>3, CieFieldFacts
      <4> QED BY <3>2, <3>4, <4>1, GotoTodoIs
    <3> QED BY <2>1, <3>1, <3>3, <3>4, <3>5, CieFieldFacts, CieMove
  <2> QED BY <1>1, <2>2, <2>3, Zenon DEF ScanAugmentation
<1>2. CASE UseRetAddrColumn
  <2> DEFINE column == [cie EXCEPT !.ret_addr_column = cur.val]
             z == [column EXCEPT !.has_z = "z"]
             next == [Goto("cie_aug_len", cur.pos) EXCEPT !.todo = Tail(cur.todo)]
  <2>1. cur.field \in CieBody /\ result = None /\ {"cie_end", "cie_aug_len"} \subseteq CieBody
    BY <1>2, Zenon DEF UseRetAddrColumn, Using, CieBody
  <2>2. column \in ParsedCie /\ z \in ParsedCie
    BY <2>1, CieFieldFacts, Zenon DEF ParsedCie
  <2>3. cur.todo # <<>> => next \in Cursor /\ next.field = "cie_aug_len"
                           /\ next.start = cur.pos /\ next.pos = cur.pos /\ next.end = cur.end
    <3> DEFINE t == Tail(cur.todo)
    <3> SUFFICES ASSUME cur.todo # <<>>
                 PROVE  /\ next \in Cursor /\ next.field = "cie_aug_len"
                        /\ next.start = cur.pos /\ next.pos = cur.pos /\ next.end = cur.end
      BY Zenon
    <3>1. t \in Seq(Byte)
      BY <2>1, CieFieldFacts
    <3>2. "cie_aug_len" \in Fields /\ cur.pos \in Nat /\ cur \in Cursor
      BY <2>1, CieFieldFacts, Zenon
    <3>3. next = [Goto("cie_aug_len", cur.pos) EXCEPT !.todo = t]
      BY Zenon
    <3> HIDE DEF t, next
    <3> QED BY <3>1, <3>2, <3>3, GotoTodoIs
  <2> HIDE DEF column, z, next
  <2>4. CASE cur.todo = <<>>
    <3>1. SUFFICES ASSUME cur' = Goto("cie_end", cur.pos), cie' = column, fde' = fde,
                          UNCHANGED <<input, result>>
                   PROVE  IInv'
      BY <1>2, <2>4, ProceedCases, Zenon DEF UseRetAddrColumn, column, Go
    <3> QED BY <2>1, <2>2, <3>1, CieFieldFacts, GotoIs, CieMove
  <2>5. CASE cur.todo # <<>>
    <3>1. SUFFICES ASSUME cur' = next, cie' = z, fde' = fde, UNCHANGED <<input, result>>
                   PROVE  IInv'
      BY <1>2, <2>5, ProceedCases, Zenon DEF UseRetAddrColumn, column, z, next
    <3> QED BY <2>1, <2>2, <2>3, <2>5, <3>1, CieFieldFacts, CieMove
  <2> QED BY <2>4, <2>5, Zenon
<1>3. CASE AugChar
  <2> DEFINE rest(g) == [Goto(g, cur.pos) EXCEPT !.todo = Tail(cur.todo)]
             c == Head(cur.todo)
             s == IF c = ChS THEN [cie EXCEPT !.signal_frame = "signal"] ELSE cie
  <2>1. /\ cur.field \in CieBody /\ result = None
        /\ {"cie_end", "aug_char", "R", "L", "P"} \subseteq CieBody
    BY <1>3, Zenon DEF AugChar, Reading, CieBody
  <2>2. s \in ParsedCie
    BY <2>1, CieFieldFacts, Zenon DEF ParsedCie
  <2>3. ASSUME NEW g \in CieBody, cur.todo # <<>>
        PROVE  rest(g) \in Cursor /\ rest(g).field = g /\ rest(g).start = cur.pos
               /\ rest(g).pos = cur.pos /\ rest(g).end = cur.end
    <3> DEFINE t == Tail(cur.todo)
    <3>1. t \in Seq(Byte)
      BY <2>1, <2>3, CieFieldFacts
    <3>2. g \in Fields /\ cur.pos \in Nat /\ cur \in Cursor
      BY <2>1, CieFieldFacts, Zenon
    <3>3. rest(g) = [Goto(g, cur.pos) EXCEPT !.todo = t]
      BY Zenon
    <3> HIDE DEF t, rest
    <3> QED BY <3>1, <3>2, <3>3, GotoTodoIs
  <2>4. c \in DOMAIN AugField => AugField[c] \in {"R", "L", "P"}
    BY Zenon DEF AugField
  <2> HIDE DEF c, s, rest
  <2>5. CASE cur.todo = <<>>
    <3>1. SUFFICES ASSUME cur' = Goto("cie_end", cur.pos), cie' = cie, fde' = fde,
                          UNCHANGED <<input, result>>
                   PROVE  IInv'
      BY <1>3, <2>5, ProceedCases, Zenon DEF AugChar, Go
    <3> QED BY <2>1, <3>1, CieFieldFacts, GotoIs, CieMove
  <2>6. CASE cur.todo # <<>> /\ c \in DOMAIN AugField
    <3>1. SUFFICES ASSUME cur' = rest(AugField[c]), cie' = cie, fde' = fde,
                          UNCHANGED <<input, result>>
                   PROVE  IInv'
      BY <1>3, <2>6, ProceedCases, Zenon DEF AugChar, c, rest, Go
    <3> QED BY <2>1, <2>3, <2>4, <2>6, <3>1, CieFieldFacts, CieMove
  <2>7. CASE cur.todo # <<>> /\ c \notin DOMAIN AugField
    <3>1. SUFFICES ASSUME cur' = rest("aug_char"), cie' = s, fde' = fde,
                          UNCHANGED <<input, result>>
                   PROVE  IInv'
      BY <1>3, <2>7, ProceedCases DEF AugChar, c, s, rest
    <3> QED BY <2>1, <2>2, <2>3, <2>7, <3>1, CieFieldFacts, CieMove
  <2> QED BY <2>5, <2>6, <2>7, Zenon
<1> QED BY <1>1, <1>2, <1>3, Zenon

\* The place where the FDE starts is in the section once it was located.
LEMMA LocatedFacts ==
    ASSUME IInv, cur.field # "fde_offset"
    PROVE  /\ fde_offset \in Nat /\ fde_offset + U32 <= Size /\ fde_offset <= Size
           /\ CieOffset \in Nat /\ CieOffset <= Size /\ Size \in Nat
           /\ cur \in Cursor /\ cie \in ParsedCie /\ fde \in ParsedFde /\ input \in Inputs
           /\ cur.pos \in Nat /\ cur.end \in Nat /\ cur.val \in Nat
<1>1. input \in Inputs /\ cur \in Cursor /\ cie \in ParsedCie /\ fde \in ParsedFde
  BY Zenon DEF IInv, TypeOK
<1>2. cur.pos \in Nat /\ cur.end \in Nat /\ cur.val \in Nat
  BY <1>1, Zenon DEF Cursor
<1>3. Size \in Nat /\ U32 \in Nat
  BY <1>1, SizeType, Sizes
<1>4. /\ fde_offset \in Nat /\ fde_offset + U32 <= Size
      /\ CieOffset \in Nat /\ CiePtrPos \in Nat /\ CiePtrPos <= Size /\ CieOffset <= CiePtrPos
  BY Zenon DEF IInv, Book, Located
<1>5. fde_offset <= Size /\ CieOffset <= Size
  BY <1>3, <1>4
<1> QED BY <1>1, <1>2, <1>3, <1>4, <1>5, Zenon

\* At the end of a CIE its instructions are known, or the parser stops.
LEMMA CieEndKeeps ==
    ASSUME IInv, CieEnd
    PROVE  IInv'
<1>1. cur.field = "cie_end" /\ result = None /\ cur.field \in CieBody
  BY Zenon DEF CieEnd, Reading, CieBody
<1>2. CASE Overrun
  BY <1>2, FailKeeps, Zenon DEF Overrun
<1>3. CASE ~Overrun
  <2> DEFINE e == [cie EXCEPT !.instr_offset = cur.pos, !.instr_len = InstrLen]
  <2>1. SUFFICES ASSUME cur.end <= Size, cur' = Goto("fde_length", fde_offset), cie' = e,
                        fde' = fde, UNCHANGED <<input, result>>
                 PROVE  IInv'
    <3>1. ~(cur.end > Size) => cur.end <= Size
      BY <1>1, LocatedFacts
    <3> QED BY <1>3, <3>1, ProceedCases, Zenon DEF CieEnd
  <2>2. InstrLen \in Addr
    BY <1>1, LocatedFacts, WrapType DEF InstrLen
  <2>3. e \in ParsedCie /\ e.instr_offset = cur.pos /\ e.instr_len = InstrLen
    BY <1>1, <2>2, LocatedFacts, Zenon DEF ParsedCie
  <2> HIDE DEF e
  <2>4. "fde_length" \in Fields
    BY Zenon DEF Fields
  <2>5. cur' \in Cursor /\ cur'.field = "fde_length" /\ cur'.stage = "read"
        /\ cur'.pos = fde_offset /\ cur'.start = fde_offset
    BY <1>1, <2>1, <2>4, LocatedFacts, GotoIs
  <2>6. TypeOK'
    BY <1>1, <2>1, <2>3, <2>5, LocatedFacts, Zenon DEF TypeOK
  <2>7. ReadsInBounds'
    BY <1>1, <2>1, <2>5, LocatedFacts, PlacesFixed DEF ReadsInBounds
  <2>8. Located'
    BY <1>1, <2>1, PlacesFixed, Zenon DEF IInv, Book, Located
  <2>9. HeadRead' /\ EndKnown' /\ FdeParsed'
    BY <2>1, <2>5, PlacesFixed, Zenon DEF HeadRead, EndKnown, FdeParsed, CieBody, FdeBody
  <2>10. CieParsed'
    <3>1. cur.end = CieEndOffset /\ cur.pos > CieOffset /\ cur.pos <= Size
      BY <1>1, CieFieldFacts, Zenon DEF IInv, Book, EndKnown
    <3>2. Wrap(cur.end - cur.pos) = InstrLen
      BY Zenon DEF InstrLen
    <3>3. CieEndOffset' \in 0 .. Size' /\ cie'.instr_offset \in CieOffset' + 1 .. Size'
      BY <1>1, <2>1, <2>3, <3>1, LocatedFacts, PlacesFixed
    <3>4. cie'.instr_len = Wrap(CieEndOffset' - cie'.instr_offset)
      BY <2>1, <2>3, <3>1, <3>2, PlacesFixed, Zenon
    <3> QED BY <3>3, <3>4, Zenon DEF CieParsed, Wrap
  <2>11. InstructionsInEntry'
    BY <1>1, <2>1, Zenon DEF InstructionsInEntry, Accepted
  <2> QED BY <2>1, <2>6, <2>7, <2>8, <2>9, <2>10, <2>11, Zenon DEF IInv, Book
<1> QED BY <1>2, <1>3, Zenon

-----------------------------------------------------------------------------
(* parse_fde *)

\* Before its end is reached, the cursor of an FDE is in the section.
LEMMA FdeFieldFacts ==
    ASSUME IInv, cur.field \in FdeBody, cur.field # "fde_end"
    PROVE  /\ cur \in Cursor /\ cie \in ParsedCie /\ fde \in ParsedFde /\ input \in Inputs
           /\ cur.pos \in Nat /\ cur.pos <= Size /\ cur.val \in Nat /\ cur.end \in Nat
           /\ Size \in Nat /\ FdeBody \subseteq Fields
BY SizeType DEF IInv, TypeOK, Cursor, ReadsInBounds, FdeBody, Fields

\* The fields of an FDE keep the invariant.
LEMMA FdeFieldsKeep ==
    ASSUME IInv, NEW f,
           \/ f \in {"cie_ptr", "cie_ptr64"} /\ UseCiePtr(f)
           \/ UseInitialPc \/ UseRange \/ UseFdeAugLen \/ UseLsda
    PROVE  IInv'
<1> DEFINE Here(g, p) == /\ cur' \in Cursor /\ cur'.field = g /\ cur'.start = p
                       /\ cur'.pos = p /\ cur'.end = cur.end
<1>1. CASE f \in {"cie_ptr", "cie_ptr64"} /\ UseCiePtr(f)
  <2>1. cur.field \in FdeBody /\ result = None /\ "initial_pc" \in FdeBody
        /\ cur.field # "fde_end"
    BY <1>1, Zenon DEF UseCiePtr, Using, FdeBody
  <2>2. SUFFICES ASSUME cur' = Goto("initial_pc", cur.pos), cie' = cie, fde' = fde,
                        UNCHANGED <<input, result>>
                 PROVE  IInv'
    BY <1>1, ProceedCases, Zenon DEF UseCiePtr
  <2>3. Here("initial_pc", cur.pos)
    BY <2>1, <2>2, FdeFieldFacts, GotoIs
  <2> QED BY <2>1, <2>2, <2>3, FdeFieldFacts, FdeMove
<1>2. CASE UseInitialPc
  <2> DEFINE d == [fde EXCEPT !.initial_pc = Resolved]
  <2>1. cur.field \in FdeBody /\ result = None /\ "range" \in FdeBody
        /\ cur.field # "fde_end"
    BY <1>2, Zenon DEF UseInitialPc, Using, FdeBody
  <2>2. ~NotApplicable => d \in ParsedFde
    BY <2>1, FdeFieldFacts, ResolvedType, Zenon DEF ParsedFde
  <2> HIDE DEF d
  <2>3. SUFFICES ASSUME ~NotApplicable, cur' = Goto("range", cur.pos), cie' = cie,
                        fde' = d, UNCHANGED <<input, result>>
                 PROVE  IInv'
    BY <1>2, ProceedCases, Zenon DEF UseInitialPc, d
  <2>4. Here("range", cur.pos)
    BY <2>1, <2>3, FdeFieldFacts, GotoIs
  <2> QED BY <2>1, <2>2, <2>3, <2>4, FdeFieldFacts, FdeMove
<1>3. CASE UseRange
  <2> DEFINE d == [fde EXCEPT !.address_range = Resolved]
             g == IF cie.has_z = "z" THEN "fde_aug_len" ELSE "fde_end"
  <2>1. cur.field \in FdeBody /\ result = None /\ g \in FdeBody /\ cur.field = "range"
        /\ g # "lsda"
    BY <1>3, Zenon DEF UseRange, Using, FdeBody
  <2>2. ~NotApplicable
    <3>1. Encoding = FormatOf(cie.fde_encoding)
      BY <2>1, Zenon DEF Encoding
    <3>2. cie.fde_encoding \in Nat
      BY <2>1, FdeFieldFacts, Zenon DEF ParsedCie
    <3>3. FormatOf(cie.fde_encoding) \in 0 .. 15
      BY <3>2 DEF FormatOf
    <3>4. ApplicationOf(Encoding) = 0
      BY <3>1, <3>3 DEF ApplicationOf
    <3> QED BY <3>4 DEF NotApplicable
  <2>3. d \in ParsedFde
    BY <2>1, <2>2, FdeFieldFacts, ResolvedType, Zenon DEF ParsedFde
  <2> HIDE DEF d, g
  <2>4. SUFFICES ASSUME cur' = Goto(g, cur.pos), cie' = cie, fde' = d,
                        UNCHANGED <<input, result>>
                 PROVE  IInv'
    <3>1. Go(Goto(g, cur.pos), cie, d)
      BY <1>3, Zenon DEF UseRange, d, g
    <3> QED BY <3>1, Zenon DEF Go
  <2>5. Here(g, cur.pos)
    BY <2>1, <2>4, FdeFieldFacts, GotoIs
  <2> QED BY <2>1, <2>3, <2>4, <2>5, FdeFieldFacts, FdeMove
<1>4. CASE UseFdeAugLen
  <2> DEFINE end == cur.pos + cur.val
             d == [fde EXCEPT !.aug_data_end = end]
             g == IF cie.lsda_encoding = OMIT THEN Goto("fde_end", end)
                  ELSE Goto("lsda", cur.pos)
  <2>1. cur.field \in FdeBody /\ result = None /\ {"fde_end", "lsda"} \subseteq FdeBody
        /\ cur.field # "fde_end"
    BY <1>4, Zenon DEF UseFdeAugLen, Using, FdeBody
  <2>2. end \in Nat /\ end >= cur.pos /\ d \in ParsedFde /\ d.aug_data_end = end
    BY <2>1, FdeFieldFacts DEF ParsedFde
  <2>3. CASE Fail("EntryLengthOverflow")
    BY <2>3, FailKeeps, Zenon DEF Fail
  <2>4. CASE Proceed(end > cur.end, "Truncated", g, cie, d)
    <3> HIDE DEF d, end, g
    <3>1. SUFFICES ASSUME ~(end > cur.end), cur' = g, cie' = cie, fde' = d,
                          UNCHANGED <<input, result>>
                   PROVE  IInv'
      BY <2>4, ProceedCases, Zenon
    <3>2. end <= cur.end
      BY <2>1, <2>2, <3>1, FdeFieldFacts
    <3>3. CASE cie.lsda_encoding = OMIT
      <4>1. Here("fde_end", end)
        BY <2>1, <2>2, <3>1, <3>3, FdeFieldFacts, GotoIs DEF g
      <4> QED BY <2>1, <2>2, <3>1, <3>2, <4>1, FdeMove, Zenon
    <3>4. CASE cie.lsda_encoding # OMIT
      <4>1. Here("lsda", cur.pos)
        BY <2>1, <3>1, <3>4, FdeFieldFacts, GotoIs DEF g
      <4> QED BY <2>1, <2>2, <3>1, <3>2, <4>1, FdeFieldFacts, FdeMove
    <3> QED BY <3>3, <3>4, Zenon
  <2> QED BY <1>4, <2>3, <2>4, Zenon DEF UseFdeAugLen
<1>5. CASE UseLsda
  <2> DEFINE d == [fde EXCEPT !.lsda = Resolved]
  <2>1. cur.field \in FdeBody /\ result = None /\ cur.field = "lsda" /\ "fde_end" \in FdeBody
    BY <1>5, Zenon DEF UseLsda, Using, FdeBody
  <2>2. fde.aug_data_end \in Nat /\ fde.aug_data_end <= cur.end
    BY <2>1, FdeFieldFacts, Zenon DEF IInv, Book, EndKnown, ParsedFde
  <2>3. ~NotApplicable => d \in ParsedFde
    BY <2>1, FdeFieldFacts, ResolvedType, Zenon DEF ParsedFde
  <2> HIDE DEF d
  <2>4. CASE Fail("UnsupportedPointerApplication")
    BY <2>4, FailKeeps, Zenon DEF Fail
  <2>5. CASE ~Fail("UnsupportedPointerApplication")
    <3>1. SUFFICES ASSUME ~NotApplicable, ~(cur.pos > fde.aug_data_end),
                          cur' = Goto("fde_end", fde.aug_data_end), cie' = cie, fde' = d,
                          UNCHANGED <<input, result>>
                   PROVE  IInv'
      <4>1. ~NotApplicable /\ Proceed(cur.pos > fde.aug_data_end, "Truncated",
                                      Goto("fde_end", fde.aug_data_end), cie, d)
        BY <1>5, <2>5, Zenon DEF UseLsda, d
      <4> QED BY <4>1, ProceedCases, Zenon
    <3>2. cur.pos <= fde.aug_data_end
      BY <2>1, <2>2, <3>1, FdeFieldFacts
    <3>3. Here("fde_end", fde.aug_data_end)
      BY <2>1, <2>2, <3>1, FdeFieldFacts, GotoIs
    <3> QED BY <2>1, <2>2, <2>3, <3>1, <3>2, <3>3, FdeMove, Zenon
  <2> QED BY <2>4, <2>5, Zenon
<1> QED BY <1>1, <1>2, <1>3, <1>4, <1>5, Zenon

\* At the end of an FDE its instructions are known, or the parser stops.
LEMMA FdeEndKeeps ==
    ASSUME IInv, FdeEnd
    PROVE  IInv'
<1>1. cur.field = "fde_end" /\ result = None /\ cur.field \in FdeBody
      /\ cur.field # "fde_offset"
  BY Zenon DEF FdeEnd, Reading, FdeBody
<1>2. CASE Overrun
  BY <1>2, FailKeeps, Zenon DEF Overrun
<1>3. CASE ~Overrun
  <2> DEFINE d == [fde EXCEPT !.instr_offset = cur.pos, !.instr_len = InstrLen]
  <2>1. SUFFICES ASSUME cur.end <= Size, cur' = Goto("details", cur.pos), cie' = cie,
                        fde' = d, UNCHANGED <<input, result>>
                 PROVE  IInv'
    <3>1. ~(cur.end > Size) => cur.end <= Size
      BY <1>1, LocatedFacts
    <3>2. Proceed(cur.end > Size, "Truncated", Goto("details", cur.pos), cie, d)
      BY <1>3, Zenon DEF FdeEnd
    <3>3. IInv' \/ ( /\ ~(cur.end > Size) /\ cur' = Goto("details", cur.pos) /\ cie' = cie
                    /\ fde' = d /\ UNCHANGED <<input, result>> )
      BY <3>2, ProceedCases, Zenon
    <3> QED BY <3>1, <3>3, Zenon
  <2>2. InstrLen \in Addr
    BY <1>1, LocatedFacts, WrapType DEF InstrLen
  <2>3. d \in ParsedFde /\ d.instr_offset = cur.pos /\ d.instr_len = InstrLen
    BY <1>1, <2>2, LocatedFacts, Zenon DEF ParsedFde
  <2> HIDE DEF d
  <2>4. "details" \in Fields
    BY Zenon DEF Fields
  <2>5. cur' \in Cursor /\ cur'.field = "details" /\ cur'.stage = "read"
        /\ cur'.pos = cur.pos /\ cur'.start = cur.pos
    BY <1>1, <2>1, <2>4, LocatedFacts, GotoIs
  <2>6. cur.end = FdeEndOffset /\ cur.pos > fde_offset /\ cur.pos <= Size
    BY <1>1, <2>1, LocatedFacts DEF IInv, Book, EndKnown, ReadsInBounds
  <2>7. TypeOK'
    BY <1>1, <2>1, <2>3, <2>5, LocatedFacts, Zenon DEF TypeOK
  <2>8. ReadsInBounds'
    BY <1>1, <2>1, <2>5, <2>6, LocatedFacts, PlacesFixed DEF ReadsInBounds
  <2>9. Located'
    BY <1>1, <2>1, PlacesFixed, Zenon DEF IInv, Book, Located
  <2>10. HeadRead' /\ EndKnown'
    BY <2>1, <2>5, Zenon DEF HeadRead, EndKnown, CieBody, FdeBody
  <2>11. CieParsed'
    BY <1>1, <2>1, PlacesFixed, Zenon DEF IInv, Book, CieParsed, Wrap
  <2>12. FdeParsed'
    <3>1. Wrap(cur.end - cur.pos) = InstrLen
      BY Zenon DEF InstrLen
    <3>2. FdeEndOffset' \in 0 .. Size' /\ fde'.instr_offset \in fde_offset' + 1 .. Size'
      BY <1>1, <2>1, <2>3, <2>6, LocatedFacts, PlacesFixed
    <3>3. fde'.instr_len = Wrap(FdeEndOffset' - fde'.instr_offset)
      BY <2>1, <2>3, <2>6, <3>1, PlacesFixed, Zenon
    <3> QED BY <3>2, <3>3, Zenon DEF FdeParsed, Wrap
  <2>13. InstructionsInEntry'
    BY <1>1, <2>1, Zenon DEF InstructionsInEntry, Accepted
  <2> QED BY <2>1, <2>7, <2>8, <2>9, <2>10, <2>11, <2>12, <2>13, Zenon DEF IInv, Book
<1> QED BY <1>2, <1>3, Zenon

\* The details that are built have their instructions in their entries.
LEMMA BuildKeeps ==
    ASSUME IInv, BuildDetails
    PROVE  IInv'
<1>1. cur.field = "details" /\ result = None /\ UNCHANGED <<input, cur, cie, fde>>
  BY Zenon DEF BuildDetails, Reading, Fail, Return
<1>2. input' \in Inputs /\ TypeOK' /\ ReadsInBounds' /\ Book'
  BY <1>1, StillThere, Zenon
<1>3. CASE Fail("EhFrameHeaderLookupMiss")
  BY <1>3, FailKeeps, Zenon DEF Fail
<1>4. CASE ~Fail("EhFrameHeaderLookupMiss")
  <2>1. result'.info = build_dwarf_cie_info
    BY <1>4 DEF BuildDetails, Return
  <2>2. /\ EhFrameAvma \in Addr /\ cie.instr_offset \in Nat /\ fde.instr_offset \in Nat
        /\ CieEndOffset \in Nat /\ FdeEndOffset \in Nat /\ Size \in Nat
        /\ CieEndOffset <= Size /\ FdeEndOffset <= Size
        /\ cie.instr_offset <= Size /\ fde.instr_offset <= Size
        /\ cie.instr_offset > CieOffset /\ fde.instr_offset > fde_offset
        /\ EhFrameAvma + Size <= MaxU /\ MaxU \in Nat /\ EhFrameAvma \in Nat
        /\ fde_offset \in Nat /\ CieOffset \in Nat
    BY <1>1, LocatedFacts, SizeType, WidthAssumption
       DEF IInv, Book, CieParsed, FdeParsed, TypeOK, ParsedCie, ParsedFde
  <2>3. cie.instr_len = Wrap(CieEndOffset - cie.instr_offset)
        /\ fde.instr_len = Wrap(FdeEndOffset - fde.instr_offset)
    BY <1>1, Zenon DEF IInv, Book, CieParsed, FdeParsed
  <2>4. Wrap(EhFrameAvma + cie.instr_offset) = EhFrameAvma + cie.instr_offset
        /\ Wrap(Wrap(EhFrameAvma + cie.instr_offset) + cie.instr_len) = EhFrameAvma + CieEndOffset
    <3>1. EhFrameAvma + cie.instr_offset <= MaxU /\ EhFrameAvma + CieEndOffset <= MaxU
          /\ EhFrameAvma \in Addr /\ cie.instr_offset \in Nat /\ CieEndOffset \in Nat
      BY <2>2
    <3> QED BY <2>3, <3>1, WrappedLength
  <2>5. Wrap(EhFrameAvma + fde.instr_offset) = EhFrameAvma + fde.instr_offset
        /\ Wrap(Wrap(EhFrameAvma + fde.instr_offset) + fde.instr_len) = EhFrameAvma + FdeEndOffset
    <3>1. EhFrameAvma + fde.instr_offset <= MaxU /\ EhFrameAvma + FdeEndOffset <= MaxU
          /\ EhFrameAvma \in Addr /\ fde.instr_offset \in Nat /\ FdeEndOffset \in Nat
      BY <2>2
    <3> QED BY <2>3, <3>1, WrappedLength
  <2> DEFINE i == build_dwarf_cie_info
  <2>6. /\ i.cie_instr_start = EhFrameAvma + cie.instr_offset
        /\ i.cie_instr_end = EhFrameAvma + CieEndOffset
        /\ i.fde_instr_start = EhFrameAvma + fde.instr_offset
        /\ i.fde_instr_end = EhFrameAvma + FdeEndOffset
    BY <2>4, <2>5, Zenon DEF build_dwarf_cie_info
  <2> HIDE DEF i
  <2>7. /\ CieEndOffset <= Size /\ FdeEndOffset <= Size
        /\ i.cie_instr_start > EhFrameAvma + CieOffset
        /\ i.fde_instr_start > EhFrameAvma + fde_offset
    BY <2>2, <2>6
  <2>8. InstructionsInEntry'
    BY <1>1, <2>1, <2>6, <2>7, PlacesFixed
      , Zenon DEF InstructionsInEntry, i, CieEndOffset, FdeEndOffset
  <2> QED BY <1>2, <2>8, Zenon DEF IInv
<1> QED BY <1>3, <1>4, Zenon

-----------------------------------------------------------------------------
(* Locating the entries and reading their lengths *)

\* Only a candidate whose length and CIE pointer are in the section passes.
LEMMA LocateKeeps ==
    ASSUME IInv, Locate
    PROVE  IInv'
<1>1. cur.field = "fde_offset" /\ result = None
  BY Zenon DEF Locate, Reading
<1>2. SUFFICES ASSUME LocateError = "none", cur' = Goto("cie_length", CieOffset),
                      cie' = cie, fde' = fde, UNCHANGED <<input, result>>
               PROVE  IInv'
  BY ProceedCases, Zenon DEF Locate, CieOffset
<1>3. Size \in Nat /\ input \in Inputs /\ cur \in Cursor /\ cie \in ParsedCie
      /\ fde \in ParsedFde
  BY SizeType, Zenon DEF IInv, TypeOK
<1>4. fde_offset \in Int
  <2>1. input.fde_avma \in Addr /\ EhFrameAvma \in Addr
    BY <1>3, InputsAssumption, WidthAssumption, Zenon
  <2> QED BY <2>1 DEF fde_offset, Addr
<1>5. /\ fde_offset \in Nat /\ fde_offset + U32 <= Size /\ CiePtrPos + CiePtrLen <= Size
      /\ ~(CiePtr > CiePtrPos)
  <2>1. ~(fde_offset < 0) /\ ~(fde_offset + U32 > Size) /\ ~(CiePtrPos + CiePtrLen > Size)
        /\ ~(CiePtr > CiePtrPos)
    BY <1>2, Zenon DEF LocateError
  <2>2. fde_offset \in Nat
    BY <1>4, <2>1
  <2>3. CiePtrPos \in Nat /\ CiePtrLen \in 1 .. 8
    BY <2>2, Sizes DEF CiePtrPos, CiePtrLen
  <2> QED BY <1>3, <2>1, <2>2, <2>3, Sizes
<1>6. CiePtrPos \in Nat /\ CiePtrLen \in 1 .. 8
  BY <1>5, Sizes DEF CiePtrPos, CiePtrLen
<1>7. CiePtr \in Nat
  BY <1>3, <1>5, <1>6, LittleEndianType, Zenon DEF CiePtr
<1>8. CieOffset \in Nat /\ CieOffset <= CiePtrPos /\ CiePtrPos <= Size
  BY <1>3, <1>5, <1>6, <1>7 DEF CieOffset
<1>9. cur' \in Cursor /\ cur'.field = "cie_length" /\ cur'.stage = "read"
      /\ cur'.pos = CieOffset /\ cur'.start = CieOffset
  <2>1. "cie_length" \in Fields
    BY Zenon DEF Fields
  <2> QED BY <1>2, <1>3, <1>8, <2>1, GotoIs
<1>10. TypeOK'
  BY <1>2, <1>3, <1>9, Zenon DEF TypeOK
<1>11. ReadsInBounds'
  BY <1>2, <1>3, <1>6, <1>8, <1>9, PlacesFixed DEF ReadsInBounds
<1>12. Located'
  BY <1>2, <1>5, <1>6, <1>8, PlacesFixed, Zenon DEF Located
<1>13. HeadRead' /\ EndKnown' /\ CieParsed' /\ FdeParsed'
  BY <1>2, <1>9, PlacesFixed, Zenon
     DEF HeadRead, EndKnown, CieParsed, FdeParsed, CieBody, FdeBody, FdeHeads
<1>14. InstructionsInEntry'
  BY <1>1, <1>2, Zenon DEF InstructionsInEntry, Accepted
<1> QED BY <1>2, <1>3, <1>10, <1>11, <1>12, <1>13, <1>14, Zenon DEF IInv, Book

\* The length of the CIE gives the end of the entry, also after the escape.
LEMMA CieLengthKeeps ==
    ASSUME IInv, NEW f \in CieHeads, UseLength(f)
    PROVE  IInv'
<1>1. cur.field = f /\ cur.stage = "use" /\ result = None /\ f \in {"cie_length", "cie_length64"}
      /\ cur.field # "fde_offset" /\ cur.field # "fde_end"
  BY Zenon DEF UseLength, Using, CieHeads
<1>2. /\ cur \in Cursor /\ cur.pos \in Nat /\ cur.val \in Nat /\ Size \in Nat /\ cur.pos <= Size
      /\ CieOffset \in Nat /\ cie \in ParsedCie /\ fde \in ParsedFde
  BY <1>1, LocatedFacts DEF IInv, ReadsInBounds
<1>3. {"cie_length64", "cie_id", "cie_id64"} \subseteq Fields
  BY Zenon DEF Fields
<1>4. CASE f = "cie_length" /\ cur.val = Max32
  <2>1. /\ cur' = Goto("cie_length64", cur.pos)
        /\ cie' = cie /\ fde' = fde /\ UNCHANGED <<input, result>>
    BY <1>4, Zenon DEF UseLength, Go, Wide
  <2>2. cur' \in Cursor /\ cur'.field = "cie_length64" /\ cur'.stage = "read"
        /\ cur'.pos = cur.pos /\ cur'.start = cur.pos
    BY <1>2, <1>3, <2>1, GotoIs
  <2>3. cur.pos = CieOffset + U32 /\ LittleEndian(input.bytes, CieOffset, U32) = Max32
    BY <1>1, <1>4, Zenon DEF IInv, Book, HeadRead
  <2>4. TypeOK' /\ ReadsInBounds'
    BY <1>2, <2>1, <2>2, PlacesFixed DEF TypeOK, ReadsInBounds
  <2>5. Located'
    BY <1>1, <2>1, PlacesFixed, Zenon DEF IInv, Book, Located
  <2>6. HeadRead'
    BY <2>1, <2>2, <2>3, PlacesFixed, Zenon DEF HeadRead
  <2>7. EndKnown' /\ FdeParsed'
    BY <2>2, Zenon DEF EndKnown, FdeParsed, CieBody, FdeBody
  <2>8. CieParsed'
    BY <1>1, <2>1, <2>2, PlacesFixed, Zenon
       DEF IInv, Book, CieParsed, FdeHeads, FdeBody, Wrap
  <2>9. InstructionsInEntry'
    BY <1>1, <2>1, Zenon DEF InstructionsInEntry, Accepted
  <2> QED BY <2>1, <2>4, <2>5, <2>6, <2>7, <2>8, <2>9, Zenon DEF IInv, Book
<1>5. CASE ~(f = "cie_length" /\ cur.val = Max32)
  <2> DEFINE end == cur.pos + cur.val
             g == IdField[f]
  <2>1. g \in {"cie_id", "cie_id64"} /\ g \in CieBody /\ g \in Fields
    BY <1>1, <1>3 DEF IdField, CieBody
  <2>2. end \in Nat
    BY <1>2
  <2>3. end = CieEndOffset
    <3>1. CASE f = "cie_length"
      <4>1. cur.start = CieOffset /\ cur.pos = CieOffset + U32
            /\ cur.val = LittleEndian(input.bytes, CieOffset, U32)
        BY <1>1, <3>1, Zenon DEF IInv, Book, HeadRead
      <4> QED BY <1>5, <3>1, <4>1, Zenon DEF CieEndOffset, EntryEnd
    <3>2. CASE f = "cie_length64"
      <4>1. /\ cur.start = CieOffset + U32 /\ cur.pos = CieOffset + U32 + U64
            /\ LittleEndian(input.bytes, CieOffset, U32) = Max32
            /\ cur.val = LittleEndian(input.bytes, CieOffset + U32, U64)
        BY <1>1, <3>2, Zenon DEF IInv, Book, HeadRead
      <4> QED BY <3>2, <4>1, Zenon DEF CieEndOffset, EntryEnd
    <3> QED BY <1>1, <3>1, <3>2, Zenon
  <2>4. cur.pos > CieOffset
    <3>1. cur.pos = CieOffset + U32 \/ cur.pos = CieOffset + U32 + U64
      BY <1>1, Zenon DEF IInv, Book, HeadRead
    <3> QED BY <1>2, <3>1, Sizes
  <2>5. Proceed(end > MaxU, "EntryLengthOverflow", [Goto(g, cur.pos) EXCEPT !.end = end], cie, fde)
    BY <1>1, <1>5, Zenon DEF UseLength, Wide
  <2> HIDE DEF end, g
  <2>6. SUFFICES ASSUME cur' = [Goto(g, cur.pos) EXCEPT !.end = end], cie' = cie, fde' = fde,
                        UNCHANGED <<input, result>>
                 PROVE  IInv'
    BY <2>5, ProceedCases, Zenon
  <2>7. cur' \in Cursor /\ cur'.field = g /\ cur'.stage = "read"
        /\ cur'.pos = cur.pos /\ cur'.start = cur.pos /\ cur'.end = end
    BY <1>2, <2>1, <2>2, <2>6, GotoEndIs
  <2>8. TypeOK' /\ ReadsInBounds'
    BY <1>2, <2>6, <2>7, PlacesFixed DEF TypeOK, ReadsInBounds
  <2>9. Located'
    BY <1>1, <2>6, PlacesFixed, Zenon DEF IInv, Book, Located
  <2>10. HeadRead' /\ FdeParsed'
    BY <2>1, <2>7, Zenon DEF HeadRead, FdeParsed
  <2>11. EndKnown'
    <3>1. g \notin FdeBody /\ g # "lsda"
      BY <2>1, Zenon DEF FdeBody
    <3> QED BY <2>3, <2>4, <2>6, <2>7, <3>1, PlacesFixed, Zenon DEF EndKnown
  <2>12. CieParsed'
    BY <1>1, <2>1, <2>6, <2>7, PlacesFixed, Zenon
       DEF IInv, Book, CieParsed, FdeHeads, FdeBody, Wrap
  <2>13. InstructionsInEntry'
    BY <1>1, <2>6, Zenon DEF InstructionsInEntry, Accepted
  <2> QED BY <2>6, <2>8, <2>9, <2>10, <2>11, <2>12, <2>13, Zenon DEF IInv, Book
<1> QED BY <1>4, <1>5, Zenon

\* The length of the FDE gives the end of the entry, also after the escape.
LEMMA FdeLengthKeeps ==
    ASSUME IInv, NEW f \in FdeHeads, UseLength(f)
    PROVE  IInv'
<1>1. cur.field = f /\ cur.stage = "use" /\ result = None /\ f \in {"fde_length", "fde_length64"}
      /\ cur.field # "fde_offset" /\ cur.field # "fde_end"
  BY Zenon DEF UseLength, Using, FdeHeads
<1>2. /\ cur \in Cursor /\ cur.pos \in Nat /\ cur.val \in Nat /\ Size \in Nat /\ cur.pos <= Size
      /\ fde_offset \in Nat /\ cie \in ParsedCie /\ fde \in ParsedFde
  BY <1>1, LocatedFacts DEF IInv, ReadsInBounds
<1>3. {"fde_length64", "cie_ptr", "cie_ptr64"} \subseteq Fields
  BY Zenon DEF Fields
<1>4. CASE f = "fde_length" /\ cur.val = Max32
  <2>1. /\ cur' = Goto("fde_length64", cur.pos)
        /\ cie' = cie /\ fde' = fde /\ UNCHANGED <<input, result>>
    BY <1>4, Zenon DEF UseLength, Go, Wide
  <2>2. cur' \in Cursor /\ cur'.field = "fde_length64" /\ cur'.stage = "read"
        /\ cur'.pos = cur.pos /\ cur'.start = cur.pos
    BY <1>2, <1>3, <2>1, GotoIs
  <2>3. cur.pos = fde_offset + U32 /\ LittleEndian(input.bytes, fde_offset, U32) = Max32
    BY <1>1, <1>4, Zenon DEF IInv, Book, HeadRead
  <2>4. TypeOK' /\ ReadsInBounds'
    BY <1>2, <2>1, <2>2, PlacesFixed DEF TypeOK, ReadsInBounds
  <2>5. Located'
    BY <1>1, <2>1, PlacesFixed, Zenon DEF IInv, Book, Located
  <2>6. HeadRead'
    BY <2>1, <2>2, <2>3, PlacesFixed, Zenon DEF HeadRead
  <2>7. EndKnown' /\ FdeParsed'
    BY <2>2, Zenon DEF EndKnown, FdeParsed, CieBody, FdeBody
  <2>8. CieParsed'
    BY <1>1, <2>1, <2>2, PlacesFixed, Zenon
       DEF IInv, Book, CieParsed, FdeHeads, FdeBody, Wrap
  <2>9. InstructionsInEntry'
    BY <1>1, <2>1, Zenon DEF InstructionsInEntry, Accepted
  <2> QED BY <2>1, <2>4, <2>5, <2>6, <2>7, <2>8, <2>9, Zenon DEF IInv, Book
<1>5. CASE ~(f = "fde_length" /\ cur.val = Max32)
  <2> DEFINE end == cur.pos + cur.val
             g == IdField[f]
  <2>1. g \in {"cie_ptr", "cie_ptr64"} /\ g \in FdeBody /\ g \in Fields
    BY <1>1, <1>3 DEF IdField, FdeBody
  <2>2. end \in Nat
    BY <1>2
  <2>3. end = FdeEndOffset
    <3>1. CASE f = "fde_length"
      <4>1. cur.start = fde_offset /\ cur.pos = fde_offset + U32
            /\ cur.val = LittleEndian(input.bytes, fde_offset, U32)
        BY <1>1, <3>1, Zenon DEF IInv, Book, HeadRead
      <4> QED BY <1>5, <3>1, <4>1, Zenon DEF FdeEndOffset, EntryEnd
    <3>2. CASE f = "fde_length64"
      <4>1. /\ cur.start = fde_offset + U32 /\ cur.pos = fde_offset + U32 + U64
            /\ LittleEndian(input.bytes, fde_offset, U32) = Max32
            /\ cur.val = LittleEndian(input.bytes, fde_offset + U32, U64)
        BY <1>1, <3>2, Zenon DEF IInv, Book, HeadRead
      <4> QED BY <3>2, <4>1, Zenon DEF FdeEndOffset, EntryEnd
    <3> QED BY <1>1, <3>1, <3>2, Zenon
  <2>4. cur.pos > fde_offset
    <3>1. cur.pos = fde_offset + U32 \/ cur.pos = fde_offset + U32 + U64
      BY <1>1, Zenon DEF IInv, Book, HeadRead
    <3> QED BY <1>2, <3>1, Sizes
  <2>5. Proceed(end > MaxU, "EntryLengthOverflow", [Goto(g, cur.pos) EXCEPT !.end = end], cie, fde)
    BY <1>1, <1>5, Zenon DEF UseLength, Wide
  <2> HIDE DEF end, g
  <2>6. SUFFICES ASSUME cur' = [Goto(g, cur.pos) EXCEPT !.end = end], cie' = cie, fde' = fde,
                        UNCHANGED <<input, result>>
                 PROVE  IInv'
    BY <2>5, ProceedCases, Zenon
  <2>7. cur' \in Cursor /\ cur'.field = g /\ cur'.stage = "read"
        /\ cur'.pos = cur.pos /\ cur'.start = cur.pos /\ cur'.end = end
    BY <1>2, <2>1, <2>2, <2>6, GotoEndIs
  <2>8. TypeOK' /\ ReadsInBounds'
    BY <1>2, <2>6, <2>7, PlacesFixed DEF TypeOK, ReadsInBounds
  <2>9. Located'
    BY <1>1, <2>6, PlacesFixed, Zenon DEF IInv, Book, Located
  <2>10. HeadRead' /\ FdeParsed'
    BY <2>1, <2>7, Zenon DEF HeadRead, FdeParsed
  <2>11. EndKnown'
    <3>1. g \notin CieBody /\ g # "lsda"
      BY <2>1, Zenon DEF CieBody
    <3> QED BY <2>3, <2>4, <2>6, <2>7, <3>1, PlacesFixed, Zenon DEF EndKnown
  <2>12. CieParsed'
    BY <1>1, <2>1, <2>6, <2>7, PlacesFixed, Zenon
       DEF IInv, Book, CieParsed, FdeHeads, FdeBody, Wrap
  <2>13. InstructionsInEntry'
    BY <1>1, <2>6, Zenon DEF InstructionsInEntry, Accepted
  <2> QED BY <2>6, <2>8, <2>9, <2>10, <2>11, <2>12, <2>13, Zenon DEF IInv, Book
<1> QED BY <1>4, <1>5, Zenon

-----------------------------------------------------------------------------
(* Reading *)

\* A read leaves the cursor at the same field.
LEMMA AdvanceIs ==
    ASSUME cur \in Cursor, NEW s \in {"read", "use"}, NEW p \in Nat, NEW v \in Nat,
           NEW w \in Nat \ {0}
    PROVE  LET c == Advance(s, p, v, w)
           IN  /\ c \in Cursor /\ c.field = cur.field /\ c.start = cur.start
               /\ c.pos = p /\ c.end = cur.end /\ c.val = v /\ c.stage = s
BY Zenon DEF Cursor, Advance

\* What can be read is a field of an entry.
LEMMA ReadableField ==
    ASSUME cur \in Cursor, Format # "none"
    PROVE  cur.field \in CieHeads \cup FdeHeads \cup CieBody \cup FdeBody
<1>1. cur.field \in Fields
  BY Zenon DEF Cursor
<1> QED BY <1>1, Zenon DEF Format, Fields, CieHeads, FdeHeads, CieBody, FdeBody, Pointers

\* A read inside an entry's fields.
LEMMA BodyReadKeeps ==
    ASSUME IInv, result = None, cur.field \in CieBody \cup FdeBody,
           cur' \in Cursor, cur'.field = cur.field, cur'.start = cur.start,
           cur'.end = cur.end, cur'.pos >= cur.pos, cur'.pos <= Size,
           cie' = cie, fde' = fde, UNCHANGED <<input, result>>
    PROVE  IInv'
<1>1. TypeOK'
  BY Zenon DEF IInv, TypeOK
<1>2. ReadsInBounds'
  BY PlacesFixed, SizeType DEF IInv, TypeOK, ReadsInBounds, Cursor
<1>3. cur'.field = "lsda" => fde'.aug_data_end <= cur.end
  BY Zenon DEF IInv, Book, EndKnown
<1> QED BY <1>1, <1>2, <1>3, BodyMove, Zenon

\* How lengths are read.
LEMMA LengthFormats ==
    /\ cur.field \in {"cie_length", "fde_length"} => Format = "u32"
    /\ cur.field \in {"cie_length64", "fde_length64"} => Format = "u64"
<1>1. cur.field = "cie_length" => Format = "u32"
  BY Zenon DEF Format, Pointers
<1>2. cur.field = "fde_length" => Format = "u32"
  BY Zenon DEF Format, Pointers
<1>3. cur.field = "cie_length64" => Format = "u64"
  BY Zenon DEF Format, Pointers
<1>4. cur.field = "fde_length64" => Format = "u64"
  BY Zenon DEF Format, Pointers
<1> QED BY <1>1, <1>2, <1>3, <1>4, Zenon

\* The read of a length.
LEMMA HeadReadKeeps ==
    ASSUME IInv, result = None, cur.field \in CieHeads \cup FdeHeads, cur.stage = "read",
           cur'.stage = "use",
           cur' \in Cursor, cur'.field = cur.field, cur'.start = cur.start,
           cur'.pos = cur.pos + FixedSize(Format), cur'.val = FixedValue(Format, cur.pos),
           cur'.pos <= Size, cie' = cie, fde' = fde, UNCHANGED <<input, result>>
    PROVE  IInv'
<1>1. TypeOK'
  BY Zenon DEF IInv, TypeOK
<1>2. ReadsInBounds'
  <2>1. cur.start \in Nat /\ cur.pos \in Nat /\ cur.start <= cur.pos /\ FixedSize(Format) \in Nat
    <3>1. cur \in Cursor /\ cur.start <= cur.pos
      BY Zenon DEF IInv, TypeOK, ReadsInBounds
    <3>2. cur.start \in Nat /\ cur.pos \in Nat
      BY <3>1, Zenon DEF Cursor
    <3>3. FixedSize(Format) \in Nat
      BY Sizes
    <3> QED BY <3>1, <3>2, <3>3, Zenon
  <2>2. cur'.start <= cur'.pos
    BY <2>1
  <2> QED BY <2>1, <2>2, SizeType, Sizes, PlacesFixed DEF IInv, ReadsInBounds
<1>3. cur.field \in {"cie_length", "cie_length64", "fde_length", "fde_length64"}
  BY Zenon DEF CieHeads, FdeHeads
<1>4. Located'
  BY <1>3, PlacesFixed, Zenon DEF IInv, Book, Located
<1>5. HeadRead'
  <2>1. CASE cur.field \in {"cie_length", "fde_length"}
    <3>1. Format = "u32" /\ cur.pos = cur.start
      BY <2>1, LengthFormats, Zenon DEF IInv, Book, HeadRead
    <3>2. cur'.pos = cur.start + U32 /\ cur'.val = LittleEndian(input.bytes, cur.start, U32)
      BY <3>1, Zenon DEF FixedSize, FixedValue
    <3> QED BY <2>1, <3>2, PlacesFixed, Zenon DEF IInv, Book, HeadRead
  <2>2. CASE cur.field \in {"cie_length64", "fde_length64"}
    <3>1. Format = "u64" /\ cur.pos = cur.start
      BY <2>2, LengthFormats, Zenon DEF IInv, Book, HeadRead
    <3>2. cur'.pos = cur.start + U64 /\ cur'.val = LittleEndian(input.bytes, cur.start, U64)
      BY <3>1, Zenon DEF FixedSize, FixedValue
    <3> QED BY <2>2, <3>2, PlacesFixed, Zenon DEF IInv, Book, HeadRead
  <2> QED BY <1>3, <2>1, <2>2, Zenon
<1>6. EndKnown' /\ FdeParsed'
  BY <1>3, Zenon DEF EndKnown, FdeParsed, CieBody, FdeBody
<1>7. CieParsed'
  BY <1>3, PlacesFixed, Zenon DEF IInv, Book, CieParsed, FdeHeads, FdeBody, Wrap
<1>8. InstructionsInEntry'
  BY Zenon DEF InstructionsInEntry, Accepted
<1> QED BY <1>1, <1>2, <1>4, <1>5, <1>6, <1>7, <1>8, Zenon DEF IInv, Book

\* Reads of fixed-size fields keep the invariant.
LEMMA ReadFixedKeeps ==
    ASSUME IInv, ReadFixed
    PROVE  IInv'
<1> DEFINE v == FixedValue(Format, cur.pos)
           p == cur.pos + FixedSize(Format)
<1>1. result = None /\ cur.stage = "read" /\ Format \in Fixed /\ cur \in Cursor
      /\ input \in Inputs
  BY Zenon DEF ReadFixed, MayRead, IInv, TypeOK
<1>2. Proceed(p > Size, "Truncated", Advance("use", p, v, 1), cie, fde)
  BY Zenon DEF ReadFixed
<1>3. cur.pos \in Nat /\ Size \in Nat
  BY <1>1, SizeType, Zenon DEF Cursor
<1>4. p \in Nat /\ p >= cur.pos
  BY <1>3, Sizes
<1>5. p <= Size => v \in Nat
  BY <1>1, <1>3, FixedValueType, Zenon
<1> HIDE DEF v
<1>6. SUFFICES ASSUME ~(p > Size), cur' = Advance("use", p, v, 1), cie' = cie, fde' = fde,
                      UNCHANGED <<input, result>>
               PROVE  IInv'
  BY <1>2, ProceedCases, Zenon
<1>7. p <= Size
  BY <1>3, <1>4, <1>6
<1> HIDE DEF p
<1>8. /\ cur' \in Cursor /\ cur'.field = cur.field /\ cur'.start = cur.start
      /\ cur'.pos = p /\ cur'.end = cur.end /\ cur'.val = v /\ cur'.stage = "use"
  BY <1>1, <1>4, <1>5, <1>6, <1>7, AdvanceIs
<1>9. cur.field \in CieHeads \cup FdeHeads \cup CieBody \cup FdeBody
  BY <1>1, ReadableField, Zenon DEF Fixed
<1>10. CASE cur.field \in CieBody \cup FdeBody
  BY <1>1, <1>4, <1>6, <1>7, <1>8, <1>10, BodyReadKeeps, Zenon
<1>11. CASE cur.field \in CieHeads \cup FdeHeads
  BY <1>1, <1>6, <1>7, <1>8, <1>11, HeadReadKeeps, Zenon DEF p, v
<1> QED BY <1>9, <1>10, <1>11, Zenon

\* A byte of a LEB128 number: the value grows by less than a word.
LEMMA ReadLeb128Keeps ==
    ASSUME IInv, ReadLeb128
    PROVE  IInv'
<1> DEFINE byte == At(cur.pos)
           sum == cur.val + Wrap((byte % 128) * cur.weight)
           shifted == cur.weight * 128
           signed == Format = "sleb" /\ byte >= 64 /\ shifted <= MaxU
           v == IF signed THEN sum + (MaxU + 1 - shifted) ELSE sum
           p == cur.pos + 1
           last == Advance("use", p, v, 1)
           more == Advance("read", p, sum, shifted)
<1>1. result = None /\ cur.stage = "read" /\ Format \in {"uleb", "sleb"} /\ cur \in Cursor
      /\ input \in Inputs
  BY Zenon DEF ReadLeb128, MayRead, IInv, TypeOK
<1>2. cur.pos \in Nat /\ cur.val \in Nat /\ cur.weight \in Nat \ {0} /\ Size \in Nat
      /\ MaxU \in Nat
  BY <1>1, SizeType, Zenon DEF Cursor
<1>3. CASE Fail("Truncated")
  BY <1>3, FailKeeps, Zenon DEF Fail
<1>4. CASE ~Fail("Truncated")
  <2>1. cur.pos < Size /\ ((byte < 128 /\ Go(last, cie, fde))
                           \/ Proceed(shifted > MaxU, "Leb128Overflow", more, cie, fde))
    BY <1>4, Zenon DEF ReadLeb128
  <2>2. byte \in Nat
    BY <1>1, <1>2, <2>1, AtType DEF Byte
  <2>3. shifted \in Nat \ {0}
    BY <1>2
  <2>4. sum \in Nat
    <3>1. byte % 128 \in Nat
      BY <2>2
    <3> HIDE DEF byte
    <3>2. (byte % 128) * cur.weight \in Nat
      BY <1>2, <3>1
    <3>3. Wrap((byte % 128) * cur.weight) \in Addr
      BY <3>2, WrapType
    <3> QED BY <1>2, <3>3 DEF Addr
  <2> HIDE DEF sum, byte, shifted
  <2>5. v \in Nat
    BY <1>2, <2>3, <2>4
  <2>7. p \in Nat /\ p >= cur.pos /\ p <= Size
    BY <1>2, <2>1
  <2> HIDE DEF v, p, last, more
  <2>8. SUFFICES ASSUME cur' \in {last, more}, cie' = cie, fde' = fde,
                        UNCHANGED <<input, result>>
                 PROVE  IInv'
    BY <2>1, ProceedCases, Zenon DEF Go
  <2>9. /\ cur' \in Cursor /\ cur'.field = cur.field /\ cur'.start = cur.start
        /\ cur'.pos = p /\ cur'.end = cur.end
    <3>1. CASE cur' = last
      BY <1>1, <2>5, <2>7, <3>1, AdvanceIs DEF last
    <3>2. CASE cur' = more
      BY <1>1, <2>3, <2>4, <2>7, <3>2, AdvanceIs DEF more
    <3> QED BY <2>8, <3>1, <3>2, Zenon
  <2>10. cur.field \in CieBody \cup FdeBody
    <3>1. cur.field \in CieHeads \cup FdeHeads \cup CieBody \cup FdeBody
      BY <1>1, ReadableField, Zenon
    <3>2. cur.field \notin CieHeads \cup FdeHeads
      BY <1>1, LengthFormats, Zenon DEF CieHeads, FdeHeads
    <3> QED BY <3>1, <3>2, Zenon
  <2> QED BY <1>1, <2>7, <2>8, <2>9, <2>10, BodyReadKeeps, Zenon
<1> QED BY <1>3, <1>4, Zenon

-----------------------------------------------------------------------------
(* Theorems *)

\* Every step keeps the inductive invariant.
LEMMA NextKeeps == IInv /\ [Next]_vars => IInv'
<1> SUFFICES ASSUME IInv, [Next]_vars PROVE IInv'
  BY Zenon
<1>1. CASE UNCHANGED vars
  BY <1>1, StutterKeeps, Zenon
<1>2. CASE Locate \/ ReadFixed \/ ReadLeb128 \/ BuildDetails
  BY <1>2, LocateKeeps, ReadFixedKeeps, ReadLeb128Keeps, BuildKeeps, Zenon
<1>3. CASE Refuse
  BY <1>3, FailKeeps, Zenon DEF Refuse, Fail
<1>4. CASE ParseCie
  <2>1. ASSUME NEW f \in {"cie_length", "cie_length64"}, UseLength(f) PROVE IInv'
    BY <2>1, CieLengthKeeps, Zenon DEF CieHeads
  <2> QED BY <1>4, <2>1, CieFieldsKeep, AugmentationKeeps, CieEndKeeps, Zenon DEF ParseCie
<1>5. CASE ParseFde
  <2>1. ASSUME NEW f \in {"fde_length", "fde_length64"}, UseLength(f) PROVE IInv'
    BY <2>1, FdeLengthKeeps, Zenon DEF FdeHeads
  <2> QED BY <1>5, <2>1, FdeFieldsKeep, FdeEndKeeps, Zenon DEF ParseFde
<1> QED BY <1>1, <1>2, <1>3, <1>4, <1>5, Zenon DEF Next

\* The state of parse_cie and parse_fde has its types, for every section.
THEOREM ParserTypes == Spec => []TypeOK
<1>1. IInv => TypeOK
  BY Zenon DEF IInv
<1> QED BY <1>1, InitHolds, NextKeeps, PTL DEF Spec

\* For every section and candidate, no read starts behind the section and the
\* slice of the augmentation string cannot panic.
THEOREM CursorInSection == Spec => []ReadsInBounds
<1>1. IInv => ReadsInBounds
  BY Zenon DEF IInv
<1> QED BY <1>1, InitHolds, NextKeeps, PTL DEF Spec

\* For every section and candidate, the instruction ranges of the details that
\* parse_function_details returns end with their entries and inside the section,
\* although cie_instr_len and fde_instr_len may wrap.
THEOREM InstructionsStayInEntry == Spec => []InstructionsInEntry
<1>1. IInv => InstructionsInEntry
  BY Zenon DEF IInv
<1> QED BY <1>1, InitHolds, NextKeeps, PTL DEF Spec

-----------------------------------------------------------------------------
(* Progress *)

\* The order of the fields of one character of the augmentation string.
AugPhase ==
    [f \in Fields |-> IF f = "aug_char" THEN 2 ELSE IF f = "personality" THEN 1 ELSE 0]

\* Every step comes nearer to the end: it returns, goes on to a later field, consumes
\* a character of the augmentation string, goes on within what belongs to a character,
\* finishes the read of a field, or reads a LEB128 byte of a higher weight, of which
\* there are as many as a word has.
Forward ==
    /\ result = None
    /\ \/ result' # None
       \/ Phase[cur'.field] > Phase[cur.field]
       \/ /\ Phase[cur'.field] = Phase[cur.field]
          /\ \/ Len(cur'.todo) < Len(cur.todo)
             \/ cur'.todo = cur.todo /\ AugPhase[cur'.field] > AugPhase[cur.field]
       \/ /\ cur'.field = cur.field /\ cur'.todo = cur.todo
          /\ cur.stage = "read"
          /\ \/ cur'.stage = "use"
             \/ cur'.stage = "read" /\ cur.weight < cur'.weight /\ cur'.weight <= MaxU

\* The order of the fields.
LEMMA PhaseIs ==
    /\ Phase["fde_offset"] = 0 /\ Phase["cie_length"] = 1 /\ Phase["cie_length64"] = 2
    /\ Phase["cie_id"] = 3 /\ Phase["cie_id64"] = 3 /\ Phase["version"] = 4
    /\ Phase["augmentation"] = 5 /\ Phase["address_size"] = 6 /\ Phase["segment_size"] = 7
    /\ Phase["code_align"] = 8 /\ Phase["data_align"] = 9 /\ Phase["ret_addr_column"] = 10
    /\ Phase["cie_aug_len"] = 11 /\ Phase["aug_char"] = 12 /\ Phase["R"] = 12
    /\ Phase["L"] = 12 /\ Phase["P"] = 12 /\ Phase["personality"] = 12
    /\ Phase["cie_end"] = 13 /\ Phase["fde_length"] = 14 /\ Phase["fde_length64"] = 15
    /\ Phase["cie_ptr"] = 16 /\ Phase["cie_ptr64"] = 16 /\ Phase["initial_pc"] = 17
    /\ Phase["range"] = 18 /\ Phase["fde_aug_len"] = 19 /\ Phase["lsda"] = 20
    /\ Phase["fde_end"] = 21 /\ Phase["details"] = 22
BY DEF Phase, Fields

\* The fields of the augmentation share a phase.
LEMMA AugmentationPhase ==
    \A f \in {"aug_char", "R", "L", "P", "personality"} : Phase[f] = 12
BY PhaseIs

\* A step that returns leaves the cursor alone.
Returns == UNCHANGED <<input, cur, cie, fde>>

\* The two ways on from a checked step.
LEMMA ProceedReturns ==
    ASSUME NEW bad, NEW kind, NEW c, NEW e, NEW d, Proceed(bad, kind, c, e, d)
    PROVE  Returns \/ cur' = c
BY Zenon DEF Proceed, Fail, Return, Go, Returns

\* The field of a cursor, and the rest of the augmentation.
LEMMA GotoField ==
    /\ \A f, p : Goto(f, p).field = f /\ Goto(f, p).todo = cur.todo
    /\ \A f, p, t : LET c == [Goto(f, p) EXCEPT !.todo = t] IN c.field = f /\ c.todo = t
BY Zenon DEF Goto

\* A step to a field of a later phase, unless it returns.
Onward(f, g) ==
    /\ result = None /\ cur.field = f
    /\ Returns \/ (cur'.field = g /\ Phase[f] < Phase[g])

\* Such a step comes nearer to the end.
LEMMA OnwardForward ==
    ASSUME TypeOK, NEW f \in Fields, NEW g \in Fields, Onward(f, g)
    PROVE  [Forward]_vars
<1>1. Phase[f] \in Nat /\ Phase[g] \in Nat
  BY PhaseIs DEF Fields
<1>2. CASE Returns
  BY <1>2, Zenon DEF Returns, Onward, Forward, vars
<1>3. CASE cur'.field = g /\ Phase[f] < Phase[g]
  BY <1>1, <1>3, Zenon DEF Onward, Forward
<1> QED BY <1>2, <1>3, Zenon DEF Onward

\* Reads come nearer to the end.
LEMMA ReadForward ==
    ASSUME TypeOK, ReadFixed \/ ReadLeb128
    PROVE  [Forward]_vars
<1>1. result = None /\ cur.stage = "read"
  BY Zenon DEF ReadFixed, ReadLeb128, MayRead
<1>2. ASSUME Returns PROVE [Forward]_vars
  BY <1>1, <1>2, Zenon DEF Returns, Forward, vars
<1>3. ASSUME NEW p, NEW v, NEW w, cur' = Advance("use", p, v, w) PROVE Forward
  BY <1>1, <1>3, Zenon DEF Advance, Forward
<1>4. CASE ReadFixed
  <2>1. Returns \/ \E p, v, w : cur' = Advance("use", p, v, w)
    BY <1>4, ProceedReturns, Zenon DEF ReadFixed
  <2> QED BY <1>2, <1>3, <2>1, Zenon
<1>5. CASE ReadLeb128
  <2> DEFINE shifted == cur.weight * 128
  <2>1. \/ Returns
        \/ \E p, v, w : cur' = Advance("use", p, v, w)
        \/ ~(shifted > MaxU) /\ \E p, v : cur' = Advance("read", p, v, shifted)
    BY <1>5 DEF ReadLeb128, Proceed, Go, Fail, Return, Returns
  <2>2. ASSUME ~(shifted > MaxU), NEW p, NEW v, cur' = Advance("read", p, v, shifted)
        PROVE  Forward
    <3>1. cur.weight \in Nat \ {0} /\ MaxU \in Nat
      BY WidthAssumption, Zenon DEF TypeOK, Cursor
    <3>2. cur.weight < shifted /\ shifted <= MaxU
      BY <2>2, <3>1
    <3>3. /\ cur'.field = cur.field /\ cur'.todo = cur.todo
          /\ cur'.stage = "read" /\ cur'.weight = shifted
      BY <2>2, Zenon DEF Advance
    <3> QED BY <1>1, <3>2, <3>3, Zenon DEF Forward
  <2> QED BY <1>2, <1>3, <2>1, <2>2
<1> QED BY <1>4, <1>5, Zenon

\* The characters of the augmentation string are consumed one by one.
LEMMA AugmentationForward ==
    ASSUME TypeOK, \/ AugChar \/ UsePersonality
                   \/ \E f \in {"R", "L", "P"} : StoreCieField(f)
    PROVE  [Forward]_vars
<1>1. cur.todo \in Seq(Byte)
  BY Zenon DEF TypeOK, Cursor
<1>2. result = None
  BY Zenon DEF AugChar, UsePersonality, StoreCieField, Reading, Using
<1>3. ASSUME Returns PROVE [Forward]_vars
  BY <1>2, <1>3, Zenon DEF Returns, Forward, vars
<1>4. ASSUME cur.field = "aug_char",
             cur'.field \in {"aug_char", "R", "L", "P"}, cur'.todo = Tail(cur.todo),
             cur.todo # <<>>
      PROVE  Forward
  <2>1. Len(cur'.todo) < Len(cur.todo)
    BY <1>1, <1>4
  <2>2. Phase[cur'.field] = Phase[cur.field]
    BY <1>4, AugmentationPhase, Zenon
  <2> QED BY <1>2, <2>1, <2>2, Zenon DEF Forward
<1>5. CASE AugChar
  <2>1. cur.field = "aug_char"
    BY <1>5, Zenon DEF AugChar, Reading
  <2>2. CASE cur.todo = <<>>
    <3>1. cur'.field = "cie_end"
      BY <1>5, <2>2, GotoField DEF AugChar, Go
    <3> QED BY <1>2, <2>1, <3>1, PhaseIs DEF Forward
  <2>3. CASE cur.todo # <<>>
    <3>1. \A c \in DOMAIN AugField : AugField[c] \in {"R", "L", "P"}
      BY DEF AugField
    <3>2. \/ Returns
          \/ \E g \in {"aug_char", "R", "L", "P"} :
               cur' = [Goto(g, cur.pos) EXCEPT !.todo = Tail(cur.todo)]
      BY <1>5, <2>3, <3>1, Zenon DEF AugChar, Proceed, Go, Fail, Return, Returns
    <3>3. ASSUME NEW g \in {"aug_char", "R", "L", "P"},
                 cur' = [Goto(g, cur.pos) EXCEPT !.todo = Tail(cur.todo)]
          PROVE  Forward
      <4>1. cur'.field = g /\ cur'.todo = Tail(cur.todo)
        BY <3>3, GotoField
      <4> QED BY <1>4, <2>1, <2>3, <3>3, <4>1, Zenon
    <3> QED BY <1>3, <3>2, <3>3, Zenon
  <2> QED BY <2>2, <2>3, Zenon
<1>6. CASE UsePersonality
  <2>1. cur.field = "personality" /\ (Returns \/ cur' = Goto("aug_char", cur.pos))
    BY <1>6, ProceedReturns, Zenon DEF UsePersonality, Using
  <2>2. ASSUME cur' = Goto("aug_char", cur.pos) PROVE Forward
    <3>1. cur'.field = "aug_char" /\ cur'.todo = cur.todo
      BY <2>2, GotoField, Zenon
    <3>2. Phase[cur'.field] = Phase[cur.field]
      BY <2>1, <3>1, AugmentationPhase, Zenon
    <3>3. AugPhase[cur'.field] > AugPhase[cur.field]
      BY <2>1, <3>1 DEF AugPhase, Fields
    <3> QED BY <1>2, <3>1, <3>2, <3>3, Zenon DEF Forward
  <2> QED BY <1>3, <2>1, <2>2, Zenon
<1>7. ASSUME NEW f \in {"R", "L", "P"}, StoreCieField(f) PROVE Forward
  <2>1. cur.field = f /\ cur' = Goto(NextField[f], cur.pos)
    BY <1>7, Zenon DEF StoreCieField, Using, Go
  <2>2. NextField[f] = IF f = "P" THEN "personality" ELSE "aug_char"
    BY <1>7 DEF NextField
  <2>3. cur'.field = NextField[f] /\ cur'.todo = cur.todo
    BY <2>1, GotoField
  <2> QED BY <1>2, <1>7, <2>1, <2>2, <2>3, PhaseIs DEF Forward, AugPhase, Fields
<1> QED BY <1>5, <1>6, <1>7, Zenon

\* Lengths lead to the identifier of their entry.
LEMMA LengthForward ==
    ASSUME TypeOK, NEW f \in CieHeads \cup FdeHeads, UseLength(f)
    PROVE  [Forward]_vars
<1>1. result = None /\ cur.field = f
  BY Zenon DEF UseLength, Using
<1>2. f \in {"cie_length", "cie_length64", "fde_length", "fde_length64"}
  BY Zenon DEF CieHeads, FdeHeads
<1>3. CASE f \in DOMAIN Wide /\ cur.val = Max32
  <2>1. cur'.field = Wide[f]
    BY <1>3, GotoField DEF UseLength, Go
  <2>2. f \in {"cie_length", "fde_length"} /\ Phase[f] < Phase[Wide[f]] /\ Wide[f] \in Fields
    BY <1>3, PhaseIs DEF Wide, Fields
  <2>3. Onward(f, Wide[f])
    BY <1>1, <2>1, <2>2, Zenon DEF Onward
  <2> QED BY <2>2, <2>3, OnwardForward DEF Fields
<1>4. CASE ~(f \in DOMAIN Wide /\ cur.val = Max32)
  <2>1. Returns \/ cur' = [Goto(IdField[f], cur.pos) EXCEPT !.end = cur.pos + cur.val]
    BY <1>4, ProceedReturns, Zenon DEF UseLength
  <2>2. Returns \/ cur'.field = IdField[f]
    BY <2>1, Zenon DEF Goto
  <2>3. Phase[f] < Phase[IdField[f]] /\ IdField[f] \in Fields /\ f \in Fields
    BY <1>2, PhaseIs DEF IdField, Fields
  <2> QED BY <1>1, <2>2, <2>3, OnwardForward, Zenon DEF Onward
<1> QED BY <1>3, <1>4, Zenon

\* The other fields of a CIE lead to later ones.
LEMMA CieForward ==
    ASSUME TypeOK, ParseCie
    PROVE  [Forward]_vars
<1>1. CASE \E f \in {"cie_length", "cie_length64"} : UseLength(f)
  BY <1>1, LengthForward, Zenon DEF CieHeads
<1>2. CASE \/ AugChar \/ UsePersonality
           \/ \E f \in {"R", "L", "P"} : StoreCieField(f)
  BY <1>2, AugmentationForward, Zenon
<1>3. ASSUME NEW f \in {"cie_id", "cie_id64"}, UseCieId(f) PROVE [Forward]_vars
  <2>1. Onward(f, "version")
    BY <1>3, ProceedReturns, GotoField, PhaseIs DEF UseCieId, Using, Onward
  <2> QED BY <2>1, OnwardForward DEF Fields
<1>4. ASSUME NEW f \in {"address_size", "code_align", "data_align"}, StoreCieField(f)
      PROVE  [Forward]_vars
  <2>1. cur' = Goto(NextField[f], cur.pos) /\ result = None /\ cur.field = f
    BY <1>4, Zenon DEF StoreCieField, Using, Go
  <2>2. NextField[f] \in Fields /\ Phase[f] < Phase[NextField[f]]
    BY <1>4, PhaseIs DEF NextField, Fields
  <2>3. Onward(f, NextField[f])
    BY <2>1, <2>2, GotoField, Zenon DEF Onward
  <2> QED BY <2>2, <2>3, OnwardForward DEF Fields
<1>5. CASE UseVersion
  <2>1. Onward("version", "augmentation")
    BY <1>5, ProceedReturns, GotoField, PhaseIs DEF UseVersion, Using, Onward
  <2> QED BY <2>1, OnwardForward, Zenon DEF Fields
<1>6. CASE ScanAugmentation
  <2>1. Returns \/ cur'.field \in {"address_size", "code_align"}
    <3>1. \/ Returns
          \/ \E g \in {"address_size", "code_align"} : \E q, t :
               cur' = [Goto(g, q) EXCEPT !.todo = t]
      BY <1>6, Zenon DEF ScanAugmentation, Fail, Return, Go, Returns
    <3> QED BY <3>1, Zenon DEF Goto
  <2>2. \E g \in {"address_size", "code_align"} : Onward("augmentation", g)
    <3>1. /\ Phase["augmentation"] < Phase["address_size"]
          /\ Phase["augmentation"] < Phase["code_align"]
      BY PhaseIs
    <3>2. result = None /\ cur.field = "augmentation"
      BY <1>6, Zenon DEF ScanAugmentation, Reading
    <3> QED BY <2>1, <3>1, <3>2, Zenon DEF Onward
  <2> QED BY <2>2, OnwardForward, Zenon DEF Fields
<1>7. CASE UseSegmentSize
  <2>1. Onward("segment_size", "code_align")
    BY <1>7, ProceedReturns, GotoField, PhaseIs DEF UseSegmentSize, Using, Onward
  <2> QED BY <2>1, OnwardForward, Zenon DEF Fields
<1>8. CASE UseRetAddrColumn
  <2>1. Returns \/ cur'.field \in {"cie_end", "cie_aug_len"}
    <3>1. \/ Returns
          \/ cur' = Goto("cie_end", cur.pos)
          \/ cur' = [Goto("cie_aug_len", cur.pos) EXCEPT !.todo = Tail(cur.todo)]
      BY <1>8, Zenon DEF UseRetAddrColumn, Proceed, Fail, Return, Go, Returns
    <3> QED BY <3>1 DEF Goto
  <2>2. \E g \in {"cie_end", "cie_aug_len"} : Onward("ret_addr_column", g)
    <3>1. /\ Phase["ret_addr_column"] < Phase["cie_end"]
          /\ Phase["ret_addr_column"] < Phase["cie_aug_len"]
      BY PhaseIs
    <3>2. result = None /\ cur.field = "ret_addr_column"
      BY <1>8, Zenon DEF UseRetAddrColumn, Using
    <3> QED BY <2>1, <3>1, <3>2, Zenon DEF Onward
  <2> QED BY <2>2, OnwardForward DEF Fields
<1>9. CASE UseCieAugLen
  <2>1. Onward("cie_aug_len", "aug_char")
    BY <1>9, GotoField, PhaseIs DEF UseCieAugLen, Go, Using, Onward
  <2> QED BY <2>1, OnwardForward, Zenon DEF Fields
<1>10. CASE CieEnd
  <2>1. Onward("cie_end", "fde_length")
    BY <1>10, ProceedReturns, GotoField, PhaseIs
    DEF CieEnd, Overrun, Return, Returns, Reading, Onward
  <2> QED BY <2>1, OnwardForward, Zenon DEF Fields
<1>11. DOMAIN Target = {"R", "L", "P"} \cup {"address_size", "code_align", "data_align"}
  BY Zenon DEF Target
<1> QED BY <1>1, <1>2, <1>3, <1>4, <1>5, <1>6, <1>7, <1>8, <1>9, <1>10, <1>11, Zenon DEF ParseCie

\* The fields of an FDE lead to later ones.
LEMMA FdeForward ==
    ASSUME TypeOK, ParseFde
    PROVE  [Forward]_vars
<1>1. CASE \E f \in {"fde_length", "fde_length64"} : UseLength(f)
  BY <1>1, LengthForward, Zenon DEF FdeHeads
<1>2. ASSUME NEW f \in {"cie_ptr", "cie_ptr64"}, UseCiePtr(f) PROVE [Forward]_vars
  <2>1. Onward(f, "initial_pc")
    BY <1>2, ProceedReturns, GotoField, PhaseIs DEF UseCiePtr, Using, Onward
  <2> QED BY <2>1, OnwardForward DEF Fields
<1>3. CASE UseInitialPc
  <2>1. Onward("initial_pc", "range")
    BY <1>3, ProceedReturns, GotoField, PhaseIs DEF UseInitialPc, Using, Onward
  <2> QED BY <2>1, OnwardForward, Zenon DEF Fields
<1>4. CASE UseRange
  <2>1. cur'.field \in {"fde_aug_len", "fde_end"}
    BY <1>4, GotoField, Zenon DEF UseRange, Go
  <2>2. \E g \in {"fde_aug_len", "fde_end"} : Onward("range", g)
    BY <1>4, <2>1, PhaseIs DEF UseRange, Using, Onward
  <2> QED BY <2>2, OnwardForward DEF Fields
<1>5. CASE UseFdeAugLen
  <2>1. Returns \/ cur'.field \in {"fde_end", "lsda"}
    BY <1>5, GotoField DEF UseFdeAugLen, Proceed, Fail, Return, Go, Returns
  <2>2. \E g \in {"fde_end", "lsda"} : Onward("fde_aug_len", g)
    BY <1>5, <2>1, PhaseIs DEF UseFdeAugLen, Using, Onward
  <2> QED BY <2>2, OnwardForward DEF Fields
<1>6. CASE UseLsda
  <2>1. Onward("lsda", "fde_end")
    BY <1>6, ProceedReturns, GotoField, PhaseIs
    DEF UseLsda, Fail, Return, Returns, Using, Onward
  <2> QED BY <2>1, OnwardForward, Zenon DEF Fields
<1>7. CASE FdeEnd
  <2>1. Onward("fde_end", "details")
    BY <1>7, ProceedReturns, GotoField, PhaseIs
    DEF FdeEnd, Overrun, Return, Returns, Reading, Onward
  <2> QED BY <2>1, OnwardForward, Zenon DEF Fields
<1> QED BY <1>1, <1>2, <1>3, <1>4, <1>5, <1>6, <1>7, Zenon DEF ParseFde

\* Whatever the bytes of the section, the parser cannot go round in circles: each of
\* its steps comes nearer to the end in a well-founded order, although the CIE pointer
\* may lead anywhere before it.  With the fairness of FairSpec that is why every parse
\* ends.
THEOREM ParserProgress == Spec => [][Forward]_vars
<1>1. TypeOK /\ [Next]_vars => [Forward]_vars
  <2> SUFFICES ASSUME TypeOK, [Next]_vars PROVE [Forward]_vars
    BY Zenon
  <2>1. CASE UNCHANGED vars
    BY <2>1, Zenon
  <2>2. CASE Locate
    <3>1. Onward("fde_offset", "cie_length")
      BY <2>2, ProceedReturns, GotoField, PhaseIs DEF Locate, Reading, Onward
    <3> QED BY <3>1, OnwardForward, Zenon DEF Fields
  <2>3. CASE Refuse \/ BuildDetails
    BY <2>3, Zenon DEF Refuse, BuildDetails, Reading, Fail, Return, Forward, vars
  <2> QED BY <2>1, <2>2, <2>3, ReadForward, CieForward, FdeForward, Zenon DEF Next
<1> QED BY <1>1, ParserTypes, PTL DEF Spec
=============================================================================
