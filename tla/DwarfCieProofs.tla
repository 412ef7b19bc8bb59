--------------------------- MODULE DwarfCieProofs ---------------------------
(***************************************************************************)
(* Second of three modules on parse_function_details: finding the CIE, and *)
(* parse_cie up to the end of its augmentation data.  Each step keeps the  *)
(* parser on the track of the layout (Keeps, in DwarfTrack).               *)
(***************************************************************************)
EXTENDS DwarfReadProofs

-----------------------------------------------------------------------------
(* Up to the CIE *)

\* The word of a held row of fixed size.
LEMMA FixedHeld ==
    ASSUME input \in Inputs, NEW r, Holds(input.bytes, r), r.fmt \in {"u8", "u32", "u64"},
           r.at \in Nat
    PROVE  /\ r.to = r.at + FixedSize(r.fmt) /\ r.to <= Size
           /\ r.word = LittleEndian(input.bytes, r.at, FixedSize(r.fmt)) /\ r.word \in Nat
<1>1. r.fmt \in Fixed /\ r.fmt \notin {"uleb", "sleb", "s16", "s32"}
  BY Zenon DEF Fixed
<1>2. r.to = r.at + FixedSize(r.fmt) /\ r.to <= Size /\ IsFixed(input.bytes, r)
  BY <1>1, Zenon DEF Holds, Size
<1> DEFINE v == LittleEndian(input.bytes, r.at, FixedSize(r.fmt))
<1>3. v \in Nat
  BY <1>2, LittleEndianType, Sizes, Zenon
<1>4. r.word = v + 0
  BY <1>1, <1>2, Zenon DEF IsFixed
<1> HIDE DEF v
<1>5. r.word = v
  BY <1>3, <1>4
<1> QED BY <1>2, <1>3, <1>5, Zenon DEF v

\* The head of the FDE: how long it is, and where its CIE is.
LEMMA FdeHead ==
    ASSUME input \in Inputs, NEW d, NEW k, Known(d, k)
    PROVE  HeadPlaces(d)
<1> DEFINE Row1 == RowOf(d, k, "fde_length")
           Row2 == RowOf(d, k, "fde_length64")
           Row3 == RowOf(d, k, IF d.fde_size = "u64" THEN "cie_ptr64" ELSE "cie_ptr")
<1>1. /\ d.at.fde \in Nat /\ d.at.cie_ptr \in Nat /\ d.at.fde_end \in Nat /\ d.at.cie \in Nat
      /\ d.fde_size \in {"u32", "u64"}
  BY Zenon DEF Known, CieTyped, FdeTyped
<1>2. /\ U32 \in Nat /\ U64 \in Nat /\ EhFrameAvma \in Nat
      /\ d.fde_size = "u32" => d.at.cie_ptr = d.at.fde + U32 /\ d.at.fde_end - d.at.cie_ptr # Max32
  BY Zenon DEF Known, Fits
<1>3. fde_offset = d.at.fde /\ d.at.fde + U32 \in Nat
  <2>1. input.fde_avma = EhFrameAvma + d.at.fde
    BY Zenon DEF Known, HasLayout
  <2> QED BY <1>1, <1>2, <2>1 DEF fde_offset
<1>4. FixedSize("u32") = U32 /\ FixedSize("u64") = U64
  BY Zenon DEF FixedSize
<1>5. /\ Row1.fmt = "u32" /\ Row1.at = d.at.fde /\ Row1.to = d.at.fde + U32
      /\ Row1.word = IF d.fde_size = "u64" THEN Max32 ELSE d.at.fde_end - d.at.cie_ptr
      /\ Row2.fmt = "u64" /\ Row2.at = d.at.fde + U32 /\ Row2.to = d.at.cie_ptr
      /\ Row3.fmt = IF d.fde_size = "u64" THEN "u64" ELSE "u32"
      /\ Row3.at = d.at.cie_ptr /\ Row3.word = d.at.cie_ptr - d.at.cie
  BY Zenon DEF IsRow, Known, FdeTable
<1>6. /\ Holds(input.bytes, Row1) /\ Holds(input.bytes, Row3)
      /\ d.fde_size = "u64" => Holds(input.bytes, Row2)
  BY <1>1, PresentHolds DEF Present, Known
<1> HIDE DEF Row1, Row2, Row3
<1>7. /\ d.at.fde + U32 <= Size
      /\ LittleEndian(input.bytes, d.at.fde, U32) =
           IF d.fde_size = "u64" THEN Max32 ELSE d.at.fde_end - d.at.cie_ptr
  BY <1>1, <1>4, <1>5, <1>6, FixedHeld, Zenon
<1>8. CASE d.fde_size = "u64"
  <2>1. d.at.cie_ptr = d.at.fde + U32 + U64
    BY <1>3, <1>4, <1>5, <1>6, <1>8, FixedHeld, Zenon
  <2>2. /\ d.at.cie_ptr + U64 <= Size
        /\ LittleEndian(input.bytes, d.at.cie_ptr, U64) = d.at.cie_ptr - d.at.cie
    BY <1>1, <1>4, <1>5, <1>6, <1>8, FixedHeld, Zenon
  <2> QED BY <1>2, <1>3, <1>7, <1>8, <2>1, <2>2, Zenon
         DEF HeadPlaces, IsDwarf64, CiePtrPos, CiePtr, CiePtrLen
<1>9. CASE d.fde_size = "u32"
  <2>1. /\ d.at.cie_ptr + U32 <= Size
        /\ LittleEndian(input.bytes, d.at.cie_ptr, U32) = d.at.cie_ptr - d.at.cie
    BY <1>1, <1>4, <1>5, <1>6, <1>9, FixedHeld, Zenon
  <2>2. ~IsDwarf64 /\ d.at.fde + U32 + 0 = d.at.cie_ptr
    BY <1>1, <1>2, <1>3, <1>7, <1>9 DEF IsDwarf64
  <2> QED BY <1>2, <1>3, <1>7, <1>9, <2>1, <2>2, Zenon DEF HeadPlaces, CiePtrPos, CiePtr, CiePtrLen
<1> QED BY <1>1, <1>8, <1>9, Zenon

\* The steps before the version store nothing.
LEMMA NothingStored ==
    ASSUME NEW d, NEW k, NEW p \in 0 .. 4, NEW q \in 0 .. 4, Groups(d, k, p),
           cie' = cie, fde' = fde,
           cur.field \notin DOMAIN CharOf, cur'.field \notin DOMAIN CharOf
    PROVE  Groups(d, k, q)'
<1>1. Chars(d, k, q)'
  BY CharsKept DEF Groups, SameChars
<1>2. Columns(d, q)' /\ Function(d, q)'
  BY DEF Groups, Columns, Function
<1> QED BY <1>1, <1>2, Zenon DEF Groups

\* The first pass finds the CIE.
LEMMA LocateTrack == Keeps(Locate)
<1> SUFFICES ASSUME Shaped, NEW d \in Layouts, NEW k \in Nat, Known(d, k), Track(d, k), Locate
             PROVE  OnTrack(d)
  BY Zenon DEF Keeps
<1>1. Groups(d, k, 0) /\ result = None /\ cur.field = "fde_offset"
  BY Zenon DEF Locate, Reading, Track, Gathered, Known, Phases
<1>2. LocateError = "none" /\ CiePtrPos - CiePtr = RowOf(d, k, "cie_length").at
  <2>1. HeadPlaces(d)
    BY FdeHead, Zenon DEF Shaped
  <2>2. /\ d.at.fde \in Nat /\ d.at.cie \in Nat /\ d.at.cie_ptr \in Nat
        /\ d.at.cie = RowOf(d, k, "cie_length").at
    BY Zenon DEF Known, CieTyped, FdeTyped, CieTable, IsRow
  <2>3. U32 \in Nat \ {0} /\ Size \in Nat /\ d.at.cie < d.at.cie_ptr /\ input.found = "entry"
    BY Zenon DEF Known, Fits, HasLayout
  <2> QED BY <2>1, <2>2, <2>3 DEF HeadPlaces, LocateError
<1>3. Moved("cie_length", RowOf(d, k, "cie_length").at, cie, fde)
  BY <1>1, <1>2 DEF Locate, Proceed, Go, Goto, Moved, NewField
<1>4. Gathered(d, k)'
  <2>1. cie' = cie /\ fde' = fde /\ cur'.field = "cie_length" /\ Phase["cie_length"] = 1
    BY <1>3, Zenon DEF Moved, NewField, Known, Phases
  <2>2. cur.field \notin DOMAIN CharOf /\ cur'.field \notin DOMAIN CharOf
    BY <1>1, <2>1, Zenon DEF CharOf
  <2>3. Groups(d, k, 1)'
    BY <1>1, <2>1, <2>2, NothingStored
  <2> QED BY <2>1, <2>3, Zenon DEF Gathered, Ends, CieBody, FdeBody
<1> QED BY <1>3, <1>4, PlainTrack, Zenon DEF Present, Pointers

\* The length of the CIE leads to its first field and says where it ends.
LEMMA CieLengthTrack == Keeps(\E f \in {"cie_length", "cie_length64"} : UseLength(f))
<1> SUFFICES ASSUME Shaped, NEW d \in Layouts, NEW k \in Nat, Known(d, k), Track(d, k),
                    NEW f \in {"cie_length", "cie_length64"}, UseLength(f)
             PROVE  OnTrack(d)
  BY Zenon DEF Keeps
<1>1. HasRead(d, k, f) /\ Groups(d, k, Phase[f])
  BY TrackRead, Zenon DEF UseLength
<1>2. /\ result = None /\ cur.field = f /\ f \in Present(d) /\ Phase[f] \in {1, 2}
      /\ d.cie_size \in {"u32", "u64"}
  BY <1>1, Zenon DEF HasRead, RowFields, Known, Phases, CieTyped
<1>3. /\ DOMAIN Wide = {"cie_length", "fde_length"} /\ Wide["cie_length"] = "cie_length64"
      /\ IdField["cie_length"] = "cie_id" /\ IdField["cie_length64"] = "cie_id64"
  BY Zenon DEF Wide, IdField
<1>4. ASSUME NEW g \in {"cie_length64", "cie_id", "cie_id64"}, NEW p, Moved(g, p, cie, fde),
             g = "cie_length64" \/ cur'.end = d.at.cie_end
      PROVE  Gathered(d, k)'
  <2>1. /\ cie' = cie /\ fde' = fde /\ cur'.field = g /\ Phase[g] \in {2, 3}
        /\ g \notin FdeBody /\ "cie_length64" \notin CieBody
    BY <1>4, Zenon DEF Moved, NewField, Known, Phases, FdeBody, CieBody
  <2>2. cur.field \notin DOMAIN CharOf /\ cur'.field \notin DOMAIN CharOf
    BY <1>2, <2>1, Zenon DEF CharOf
  <2>3. Phase[f] \in 0 .. 4 /\ Phase[g] \in 0 .. 4
    BY <1>2, <2>1
  <2>4. Groups(d, k, Phase[g])'
    BY <1>1, <2>1, <2>2, <2>3, NothingStored, Zenon
  <2> QED BY <1>4, <2>1, <2>4, Zenon DEF Gathered, Ends
<1>5. CASE f = "cie_length" /\ d.cie_size = "u64"
  <2>1. cur.pos = RowOf(d, k, "cie_length64").at /\ cur.val = Max32
    BY <1>1, <1>5 DEF HasRead, Known, CieTable, IsRow
  <2>2. Moved("cie_length64", RowOf(d, k, "cie_length64").at, cie, fde)
    BY <1>2, <1>3, <1>5, <2>1 DEF UseLength, Go, Goto, Moved, NewField
  <2> QED BY <1>4, <1>5, <2>2, PlainTrack, Zenon DEF Present, Pointers
<1>6. CASE ~(f = "cie_length" /\ d.cie_size = "u64")
  <2>1. PICK g \in {"cie_id", "cie_id64"} : g = IdField[f] /\ g \in Present(d)
    BY <1>2, <1>3, <1>6, Zenon DEF Present
  <2>2. /\ d.at.cie_id \in Nat /\ d.at.cie_end \in Nat /\ d.at.cie_end <= MaxU
        /\ d.cie_size = "u32" => d.at.cie_id = d.at.cie + U32 /\ d.at.cie_end - d.at.cie_id # Max32
    BY DEF Known, CieTyped, Fits
  <2>3. /\ cur.pos = d.at.cie_id /\ cur.val = d.at.cie_end - d.at.cie_id
        /\ d.at.cie_id = RowOf(d, k, g).at
    <3>1. /\ RowOf(d, k, "cie_length").to = d.at.cie + U32
          /\ RowOf(d, k, "cie_length").word =
               IF d.cie_size = "u64" THEN Max32 ELSE d.at.cie_end - d.at.cie_id
          /\ RowOf(d, k, "cie_length64").to = d.at.cie_id
          /\ RowOf(d, k, "cie_length64").word = d.at.cie_end - d.at.cie_id
          /\ RowOf(d, k, "cie_id").at = d.at.cie_id /\ RowOf(d, k, "cie_id64").at = d.at.cie_id
      BY Zenon DEF Known, CieTable, IsRow
    <3>2. cur.pos = RowOf(d, k, f).to /\ cur.val = RowOf(d, k, f).word
      BY <1>1, Zenon DEF HasRead
    <3> QED BY <1>2, <1>6, <2>1, <2>2, <3>1, <3>2, Zenon
  <2>4. /\ ~(f \in DOMAIN Wide /\ cur.val = Max32)
        /\ cur.pos + cur.val = d.at.cie_end /\ ~(d.at.cie_end > MaxU)
    BY <1>2, <1>3, <1>6, <2>2, <2>3 DEF Known, Fits
  <2>5. Go([Goto(g, RowOf(d, k, g).at) EXCEPT !.end = d.at.cie_end], cie, fde)
    BY <2>1, <2>3, <2>4, Zenon DEF UseLength, Proceed
  <2>6. Moved(g, RowOf(d, k, g).at, cie, fde) /\ cur'.end = d.at.cie_end
    BY <1>2, <2>5, Zenon DEF Go, Goto, Moved, NewField
  <2> QED BY <1>4, <2>1, <2>6, PlainTrack, Zenon DEF Pointers
<1> QED BY <1>5, <1>6, Zenon

-----------------------------------------------------------------------------
(* parse_cie *)

\* The CIE id is zero, and the version follows.
LEMMA CieIdTrack == Keeps(\E f \in {"cie_id", "cie_id64"} : UseCieId(f))
<1> SUFFICES ASSUME Shaped, NEW d \in Layouts, NEW k \in Nat, Known(d, k), Track(d, k),
                    NEW f \in {"cie_id", "cie_id64"}, UseCieId(f)
             PROVE  OnTrack(d)
  BY Zenon DEF Keeps
<1>1. HasRead(d, k, f) /\ Groups(d, k, Phase[f]) /\ Ends(d)
  BY TrackRead, Zenon DEF UseCieId
<1>2. /\ result = None /\ cur.field = f /\ Phase[f] = 3 /\ cur.end = d.at.cie_end
      /\ cur.pos = RowOf(d, k, "version").at /\ cur.val = 0
  BY <1>1 DEF HasRead, Known, Phases, CieTable, IsRow, Ends, CieBody
<1>3. Moved("version", RowOf(d, k, "version").at, cie, fde) /\ cur'.end = d.at.cie_end
  BY <1>2 DEF UseCieId, Proceed, Go, Goto, Moved, NewField
<1>4. Gathered(d, k)'
  <2>1. /\ cie' = cie /\ fde' = fde /\ cur'.field = "version" /\ Phase["version"] = 4
        /\ "version" \notin FdeBody
    BY <1>3, Zenon DEF Moved, NewField, Known, Phases, FdeBody
  <2>2. cur.field \notin DOMAIN CharOf /\ cur'.field \notin DOMAIN CharOf
    BY <1>2, <2>1, Zenon DEF CharOf
  <2>3. Groups(d, k, 4)'
    BY <1>1, <1>2, <2>1, <2>2, NothingStored
  <2> QED BY <1>3, <2>1, <2>3, Zenon DEF Gathered, Ends
<1> QED BY <1>3, <1>4, PlainTrack, Zenon DEF Present, Pointers

\* The version is stored, and the augmentation string follows.
LEMMA VersionTrack == Keeps(UseVersion)
<1> SUFFICES ASSUME Shaped, NEW d \in Layouts, NEW k \in Nat, Known(d, k), Track(d, k), UseVersion
             PROVE  OnTrack(d)
  BY Zenon DEF Keeps
<1>1. HasRead(d, k, "version") /\ Groups(d, k, Phase["version"]) /\ Ends(d)
  BY TrackRead, Zenon DEF UseVersion
<1>2. /\ result = None /\ cur.field = "version" /\ Phase["version"] = 4 /\ cur.end = d.at.cie_end
      /\ cur.pos = d.at.aug /\ cur.val = d.version /\ d.version \in {1, 3, 4}
  BY <1>1, Zenon DEF HasRead, Known, Phases, CieTable, IsRow, Ends, CieBody, CieTyped
<1>3. /\ Moved("augmentation", d.at.aug, [cie EXCEPT !.version = d.version], fde)
      /\ cur'.end = d.at.cie_end
  BY <1>2 DEF UseVersion, Proceed, Go, Goto, Moved, NewField
<1>4. cie'.version = d.version /\ CieKeeps({"version"})
  BY <1>3, CieChange, Zenon DEF Moved, CieNames
<1>5. Gathered(d, k)'
  <2>1. /\ fde' = fde /\ cur'.field = "augmentation" /\ Phase["augmentation"] = 5
        /\ "augmentation" \notin FdeBody
    BY <1>3, Zenon DEF Moved, NewField, Known, Phases, FdeBody
  <2>2. Chars(d, k, 5)'
    BY <1>1, <1>2, <1>4, <2>1, CharsKept DEF Groups, SameChars, CharOf, CieKeeps
  <2> QED BY <1>1, <1>2, <1>3, <1>4, <2>1, <2>2
          DEF Gathered, Groups, Columns, Function, Ends, CieKeeps
<1> QED BY <1>3, <1>5, MarkTrack, Zenon DEF MarkFields, Marks

\* The augmentation string and the zero after it.
LEMMA AugString ==
    ASSUME input \in Inputs, NEW d, NEW k, Known(d, k)
    PROVE  AugPlaces(d)
<1> DEFINE o == d.at.aug
           n == Len(d.aug)
<1>1. /\ d.at.sizes = o + n + 1 /\ d.at.sizes <= Len(input.bytes)
      /\ input.bytes[d.at.sizes] = 0 /\ \A j \in 1 .. n : input.bytes[o + j] = d.aug[j]
  BY Zenon DEF Known, HasLayout, AugHolds
<1>2. o \in Nat /\ n \in Nat /\ Len(input.bytes) \in Nat /\ d.aug \in Seq(Byte \ {0})
  BY SizeType, Zenon DEF Known, CieTyped, AugTyped, Size
<1>3. \A j \in 1 .. n : d.aug[j] # 0
  BY <1>2
<1> HIDE DEF o, n
<1>4. ASSUME NEW j \in 0 .. n - 1 PROVE At(o + j) # 0
  <2>1. j + 1 \in 1 .. n /\ o + j + 1 = o + (j + 1)
    BY <1>2
  <2>2. input.bytes[o + (j + 1)] # 0
    BY <1>1, <1>3, <2>1, Zenon
  <2> QED BY <2>1, <2>2, Zenon DEF At
<1>5. o + n < Size /\ At(o + n) = 0
  BY <1>1, <1>2 DEF At, Size
<1> QED BY <1>1, <1>2, <1>4, <1>5, Zenon DEF AugPlaces, o, n

\* A part of a sequence of bytes.
LEMMA BytesFrom ==
    ASSUME NEW S, NEW b \in Seq(S), NEW o \in Nat, NEW n \in Nat, o + n <= Len(b)
    PROVE  /\ SubSeq(b, o + 1, o + n) \in Seq(S) /\ Len(SubSeq(b, o + 1, o + n)) = n
           /\ \A j \in 1 .. n : SubSeq(b, o + 1, o + n)[j] = b[o + j]
<1>1. Len(SubSeq(b, o + 1, o + n)) = n
  OBVIOUS
<1>2. ASSUME NEW j \in 1 .. n PROVE SubSeq(b, o + 1, o + n)[j] = b[o + j]
  OBVIOUS
<1>3. SubSeq(b, o + 1, o + n) \in Seq(S)
  BY SMTT(20)
<1> QED BY <1>1, <1>2, <1>3, Zenon

\* The string that is found is the one of the layout.
LEMMA ScanTrack == Keeps(ScanAugmentation)
<1> SUFFICES ASSUME Shaped, NEW d \in Layouts, NEW k \in Nat, Known(d, k), Track(d, k),
                    ScanAugmentation
             PROVE  OnTrack(d)
  BY Zenon DEF Keeps
<1> DEFINE g == IF d.version = 4 THEN "address_size" ELSE "code_align"
           o == d.at.aug
           n == Len(d.aug)
           r == RowOf(d, k, g)
<1>1. result = None /\ cur.field = "augmentation" /\ cur.stage = "read" /\ Phase["augmentation"] = 5
  BY Zenon DEF ScanAugmentation, Reading, Known, Phases
<1>2. Groups(d, k, 5) /\ cur.pos = o /\ cur.end = d.at.cie_end
  BY <1>1 DEF Track, Gathered, Spot, MarkFields, Marks, Ends, CieBody
<1>3. cie.version = d.version /\ k = 0
  BY <1>2 DEF Groups, Chars, Columns
<1>4. /\ o \in Nat /\ n \in Nat /\ r.at = o + n + 1 /\ o + n < Size /\ At(o + n) = 0
      /\ \A j \in 0 .. n - 1 : At(o + j) # 0
      /\ \A j \in 1 .. n : input.bytes[o + j] = d.aug[j]
      /\ Size \in Nat
  <2>1. r.at = d.at.sizes
    BY Zenon DEF Known, Fits, CieTable, IsRow
  <2>2. AugPlaces(d) /\ Size \in Nat
    BY AugString, SizeType, Zenon DEF Shaped
  <2> QED BY <2>1, <2>2, Zenon DEF AugPlaces
<1> HIDE DEF g, o, n, r
<1>5. Go([Goto(g, r.at) EXCEPT !.todo = SubSeq(input.bytes, o + 1, o + n)], cie, fde)
  <2>1. o + n \in cur.pos .. Size - 1
    BY <1>2, <1>4
  <2>2. PICK e \in cur.pos .. Size - 1 :
          /\ At(e) = 0
          /\ \A x \in cur.pos .. e - 1 : At(x) # 0
          /\ Go([Goto(g, e + 1) EXCEPT !.todo = SubSeq(input.bytes, cur.pos + 1, e)], cie, fde)
    BY <1>3, <1>4, <2>1, Zenon DEF ScanAugmentation, g
  <2>3. e \in Int /\ e >= o
    BY <1>2, <1>4
  <2>4. ~(e < o + n)
    <3>1. e < o + n => e - o \in 0 .. n - 1 /\ o + (e - o) = e
      BY <1>4, <2>3
    <3> QED BY <1>4, <2>2, <3>1, Zenon
  <2>5. ~(e > o + n)
    <3>1. e > o + n => o + n \in cur.pos .. e - 1
      BY <1>2, <1>4, <2>3
    <3> QED BY <1>4, <2>2, <3>1, Zenon
  <2>6. e = o + n /\ e + 1 = r.at
    BY <1>4, <2>3, <2>4, <2>5
  <2> QED BY <1>2, <2>2, <2>6, Zenon
<1>6. PICK t : /\ t = SubSeq(input.bytes, o + 1, o + n)
               /\ Go([Goto(g, r.at) EXCEPT !.todo = t], cie, fde)
  BY <1>5, Zenon
<1>7. Moved(g, r.at, cie, fde) /\ cur'.todo = t /\ cur'.end = d.at.cie_end
  <2>1. Go([Goto(g, r.at) EXCEPT !.todo = t], cie, fde)
    BY <1>6, Zenon
  <2> QED BY <1>1, <1>2, <2>1, Zenon DEF Go, Goto, Moved, NewField
<1>8. Rest(d, 0)'
  <2>1. input.bytes \in Seq(Byte)
    BY InputsAssumption, Zenon DEF Shaped
  <2>2. o + n <= Len(input.bytes)
    BY <1>4 DEF Size
  <2> DEFINE s == SubSeq(input.bytes, o + 1, o + n)
  <2>3. s \in Seq(Byte) /\ Len(s) = n /\ \A j \in 1 .. n : s[j] = input.bytes[o + j]
    BY <1>4, <2>1, <2>2, BytesFrom
  <2>4. cur'.todo = s
    BY <1>6, <1>7, Zenon
  <2> HIDE DEF s
  <2>5. n - 0 = n /\ \A j \in 1 .. n : s[j] = d.aug[0 + j]
    <3>1. n - 0 = n /\ \A j \in 1 .. n : 0 + j = j
      BY <1>4
    <3> QED BY <1>4, <2>3, <3>1, Zenon
  <2> QED BY <2>3, <2>4, <2>5, Zenon DEF Rest, n
<1>9. /\ g \in Present(d) \ (Pointers \cup FdeBody) /\ g \notin DOMAIN CharOf
      /\ Phase[g] \in {6, 8} /\ Phase[g] # 7
  BY DEF Present, Pointers, FdeBody, CharOf, g, Known, Phases
<1>10. Gathered(d, k)'
  <2>1. cie' = cie /\ fde' = fde /\ cur'.field = g
    BY <1>7, Zenon DEF Moved, NewField
  <2>2. Chars(d, k, Phase[g])'
    BY <1>1, <1>2, <1>3, <1>8, <1>9, <2>1 DEF Groups, Chars, Seen, CharOf
  <2>3. Columns(d, Phase[g])' /\ Function(d, Phase[g])'
    BY <1>2, <1>9, <2>1 DEF Groups, Columns, Function
  <2>4. Ends(d)'
    BY <1>7, <1>9, <2>1, Zenon DEF Ends
  <2> QED BY <2>1, <2>2, <2>3, <2>4, Zenon DEF Gathered, Groups
<1> QED BY <1>7, <1>9, <1>10, PlainTrack, Zenon DEF r

\* The address size and the alignments are stored.
LEMMA StoreTrack == Keeps(\E f \in {"address_size", "code_align", "data_align"} : StoreCieField(f))
<1> SUFFICES ASSUME Shaped, NEW d \in Layouts, NEW k \in Nat, Known(d, k), Track(d, k),
                    NEW f \in {"address_size", "code_align", "data_align"}, StoreCieField(f)
             PROVE  OnTrack(d)
  BY Zenon DEF Keeps
<1> DEFINE v == RowOf(d, k, f).word
<1>1. HasRead(d, k, f) /\ Groups(d, k, Phase[f]) /\ Ends(d)
  BY TrackRead, Zenon DEF StoreCieField
<1>2. PICK g \in {"segment_size", "data_align", "ret_addr_column"} :
        g = NextField[f] /\ Target[f] = f /\ f \in CieNames
  BY DEF NextField, Target, CieNames
<1>3. /\ Phase[f] \in {6, 8, 9} /\ Phase[g] = Phase[f] + 1 /\ g \in Present(d)
      /\ RowOf(d, k, f).to = RowOf(d, k, g).at
  <2>1. Phase[f] \in {6, 8, 9} /\ Phase[g] = Phase[f] + 1
    BY <1>2 DEF NextField, Known, Phases
  <2>2. g \in Present(d)
    BY <1>1, <1>2 DEF NextField, HasRead, RowFields, Present
  <2>3. /\ RowOf(d, k, "address_size").to = RowOf(d, k, "segment_size").at
        /\ RowOf(d, k, "code_align").to = RowOf(d, k, "data_align").at
        /\ RowOf(d, k, "data_align").to = RowOf(d, k, "ret_addr_column").at
    BY Zenon DEF Known, CieTable, IsRow
  <2>4. RowOf(d, k, f).to = RowOf(d, k, g).at
    BY <1>2, <2>3 DEF NextField
  <2> QED BY <2>1, <2>2, <2>4, Zenon
<1>4. result = None /\ cur.field = f /\ cur.pos = RowOf(d, k, g).at /\ cur.val = v
      /\ cur.end = d.at.cie_end
  BY <1>1, <1>3, Zenon DEF HasRead, Ends, CieBody
<1> HIDE DEF v
<1>5. Go(Goto(g, RowOf(d, k, g).at), [cie EXCEPT ![f] = v], fde)
  BY <1>2, <1>4, Zenon DEF StoreCieField
<1>6. /\ Moved(g, RowOf(d, k, g).at, [cie EXCEPT ![f] = v], fde)
      /\ cur'.end = d.at.cie_end /\ cur'.todo = cur.todo
  BY <1>4, <1>5, Zenon DEF Go, Goto, Moved, NewField
<1>7. cie'[f] = v /\ CieKeeps({f})
  BY <1>2, <1>6, CieChange, Zenon DEF Moved
<1>8. Gathered(d, k)'
  <2>1. fde' = fde /\ cur'.field = g /\ g \notin FdeBody
    BY <1>6, Zenon DEF Moved, NewField, FdeBody
  <2>2. Chars(d, k, Phase[g])'
    BY <1>1, <1>3, <1>4, <1>6, <1>7, <2>1, CharsKept DEF Groups, SameChars, CharOf, CieKeeps
  <2>3. /\ f = "address_size" => Phase[f] = 6 /\ v = 8
        /\ f = "code_align" => Phase[f] = 8 /\ v = d.code_align
        /\ f = "data_align" => Phase[f] = 9 /\ v = d.data_align
    <3>1. Phase["address_size"] = 6 /\ Phase["code_align"] = 8 /\ Phase["data_align"] = 9
      BY Zenon DEF Known, Phases
    <3>2. /\ RowOf(d, k, "address_size").word = 8
          /\ RowOf(d, k, "code_align").word = d.code_align
          /\ RowOf(d, k, "data_align").word = d.data_align
      BY Zenon DEF Known, CieTable, IsRow
    <3> QED BY <3>1, <3>2, Zenon DEF v
  <2>4. Columns(d, Phase[g])'
    BY <1>1, <1>3, <1>7, <2>3 DEF Groups, Columns, CieKeeps
  <2> QED BY <1>1, <1>3, <1>6, <2>1, <2>2, <2>4 DEF Gathered, Groups, Function, Ends
<1> QED BY <1>3, <1>6, <1>8, PlainTrack, Zenon DEF Pointers

\* The sizes are those of a 64-bit target without segments.
LEMMA SegmentTrack == Keeps(UseSegmentSize)
<1> SUFFICES ASSUME Shaped, NEW d \in Layouts, NEW k \in Nat, Known(d, k), Track(d, k),
                    UseSegmentSize
             PROVE  OnTrack(d)
  BY Zenon DEF Keeps
<1> DEFINE o == RowOf(d, k, "code_align").at
<1>1. HasRead(d, k, "segment_size") /\ Groups(d, k, Phase["segment_size"]) /\ Ends(d)
  BY TrackRead, Zenon DEF UseSegmentSize
<1>2. /\ result = None /\ cur.field = "segment_size" /\ Phase["segment_size"] = 7
      /\ cur.end = d.at.cie_end /\ cur.pos = o /\ cur.val = 0
  <2>1. RowOf(d, k, "segment_size").to = o /\ RowOf(d, k, "segment_size").word = 0
    BY Zenon DEF Known, CieTable, IsRow
  <2>2. Phase["segment_size"] = 7
    BY Zenon DEF Known, Phases
  <2> QED BY <1>1, <2>1, <2>2, Zenon DEF HasRead, Ends, CieBody
<1>3. cie.address_size = 8
  BY <1>1, <1>2, Zenon DEF Groups, Columns
<1>4. /\ Moved("code_align", o, cie, fde)
      /\ cur'.end = d.at.cie_end /\ cur'.todo = cur.todo
  BY <1>2, <1>3 DEF UseSegmentSize, Proceed, Go, Goto, Moved, NewField
<1>5. Gathered(d, k)'
  <2>1. /\ cie' = cie /\ fde' = fde /\ cur'.field = "code_align" /\ Phase["code_align"] = 8
        /\ "code_align" \notin FdeBody
    BY <1>4, Zenon DEF Moved, NewField, Known, Phases, FdeBody
  <2>2. Chars(d, k, 8)'
    BY <1>1, <1>2, <1>4, <2>1, CharsKept DEF Groups, SameChars, CharOf
  <2> QED BY <1>1, <1>2, <1>4, <2>1, <2>2 DEF Gathered, Groups, Columns, Function, Ends
<1> QED BY <1>4, <1>5, PlainTrack, Zenon DEF Present, Pointers

\* The next character of the augmentation string.
LEMMA RestNext ==
    ASSUME NEW d, NEW k \in 0 .. Len(d.aug), Len(d.aug) \in Nat, Rest(d, k)
    PROVE  RestMoves(d, k)
<1> DEFINE n == Len(d.aug)
           s == cur.todo
           m == Len(s)
<1>1. /\ s \in Seq(Byte) /\ n \in Nat /\ m \in Nat /\ m = n - k
      /\ \A j \in 1 .. m : s[j] = d.aug[k + j]
  BY DEF Rest
<1> HIDE DEF n, s
<1>2. (s = <<>> <=> m = 0) /\ (k = n <=> m = 0)
  BY <1>1 DEF n
<1>3. s # <<>> => /\ Head(s) = s[1] /\ Tail(s) \in Seq(Byte) /\ Len(Tail(s)) = m - 1
                  /\ \A j \in 1 .. m - 1 : Tail(s)[j] = s[j + 1]
  BY <1>1
<1> HIDE DEF m
<1>4. ASSUME s # <<>> PROVE k + 1 \in 1 .. n /\ Head(s) = d.aug[k + 1]
  BY <1>1, <1>2, <1>3, <1>4
<1>5. ASSUME s # <<>>, cur'.todo = Tail(s) PROVE Rest(d, k + 1)'
  <2>1. ASSUME NEW j \in 1 .. m - 1 PROVE Tail(s)[j] = d.aug[k + 1 + j]
    <3>1. j + 1 \in 1 .. m /\ k + (j + 1) = k + 1 + j
      BY <1>1
    <3>2. Tail(s)[j] = s[j + 1] /\ s[j + 1] = d.aug[k + (j + 1)]
      BY <1>1, <1>3, <1>5, <3>1, Zenon
    <3> QED BY <3>1, <3>2, Zenon
  <2>2. m - 1 = n - (k + 1)
    BY <1>1 DEF n
  <2>3. PICK t : t = Tail(s)
    BY Zenon
  <2>4. t \in Seq(Byte) /\ Len(t) = m - 1 /\ \A j \in 1 .. m - 1 : t[j] = d.aug[k + 1 + j]
    BY <1>3, <1>5, <2>1, <2>3, Zenon
  <2> QED BY <1>5, <2>2, <2>3, <2>4, Zenon DEF Rest, n
<1> QED BY <1>2, <1>4, <1>5, Zenon DEF RestMoves, n, s

\* What is among the characters.
LEMMA AmongNext ==
    ASSUME NEW d, NEW c
    PROVE  /\ ~Among(d, 0, c) /\ ~Among(d, 1, c)
           /\ \A k \in Nat \ {0, 1} : Among(d, k, c) <=> (Among(d, k - 1, c) \/ d.aug[k] = c)
<1>1. ~Among(d, 0, c) /\ ~Among(d, 1, c)
  BY DEF Among
<1>2. ASSUME NEW k \in Nat \ {0, 1}
      PROVE  Among(d, k, c) <=> (Among(d, k - 1, c) \/ d.aug[k] = c)
  <2>1. \A j : j \in 2 .. k <=> (j \in 2 .. k - 1 \/ j = k)
    BY <1>2
  <2> QED BY <2>1, Zenon DEF Among
<1> QED BY <1>1, <1>2, Zenon

\* After the return address column the augmentation begins, if there is one.
LEMMA ColumnTrack == Keeps(UseRetAddrColumn)
<1> SUFFICES ASSUME Shaped, NEW d \in Layouts, NEW k \in Nat, Known(d, k), Track(d, k),
                    UseRetAddrColumn
             PROVE  OnTrack(d)
  BY Zenon DEF Keeps
<1> DEFINE column == [cie EXCEPT !.ret_addr_column = d.ra]
           z == [column EXCEPT !.has_z = "z"]
<1>1. HasRead(d, k, "ret_addr_column") /\ Groups(d, k, Phase["ret_addr_column"]) /\ Ends(d)
  BY TrackRead, Zenon DEF UseRetAddrColumn
<1>2. /\ result = None /\ cur.field = "ret_addr_column" /\ Phase["ret_addr_column"] = 10
      /\ cur.end = d.at.cie_end /\ cur.pos = d.data[1] /\ cur.val = d.ra
  BY <1>1, Zenon DEF HasRead, Known, Phases, CieTable, IsRow, Ends, CieBody
<1>3. Chars(d, k, 10) /\ Columns(d, 10) /\ Function(d, 10) /\ k = 0 /\ Rest(d, 0) /\ Seen(d, 0)
  BY <1>1, <1>2 DEF Groups, Chars, CharOf
<1>4. Len(d.aug) \in Nat /\ (d.aug = <<>> <=> Len(d.aug) = 0)
  BY DEF Known, AugTyped
<1>5. RestMoves(d, 0)
  <2>1. 0 \in 0 .. Len(d.aug)
    BY <1>4
  <2> QED BY <1>3, <1>4, <2>1, RestNext, Zenon
<1>6. /\ cur.todo = <<>> <=> d.aug = <<>>
      /\ cur.todo # <<>> => /\ 1 \in 1 .. Len(d.aug) /\ Head(cur.todo) = d.aug[1]
                            /\ cur'.todo = Tail(cur.todo) => Rest(d, 1)'
  <2>1. 0 + 1 = 1
    OBVIOUS
  <2> QED BY <1>4, <1>5, <2>1, Zenon DEF RestMoves
<1>7. ASSUME CieKeeps({"ret_addr_column", "has_z"}) PROVE Seen(d, 0)' /\ Seen(d, 1)'
  BY <1>3, <1>7, AmongNext DEF Seen, CieKeeps
<1>8. CASE cur.todo = <<>>
  <2>1. Moved("cie_end", d.data[1], column, fde) /\ cur'.end = d.at.cie_end
    BY <1>2, <1>8 DEF UseRetAddrColumn, Go, Goto, Moved, NewField
  <2>2. cie'.ret_addr_column = d.ra /\ CieKeeps({"ret_addr_column"})
    BY <2>1, CieChange, Zenon DEF Moved, CieNames
  <2>3. /\ fde' = fde /\ cur'.field = "cie_end" /\ Phase["cie_end"] = 13
        /\ "cie_end" \notin FdeBody /\ "cie_end" \notin DOMAIN CharOf
    BY <2>1, Zenon DEF Moved, NewField, Known, Phases, FdeBody, CharOf
  <2>4. Chars(d, 0, 13)'
    BY <1>4, <1>6, <1>7, <1>8, <2>2, <2>3 DEF Chars, CieKeeps
  <2>5. Columns(d, 13)'
    BY <1>3, <1>6, <1>8, <2>2 DEF Columns, CieKeeps
  <2>6. Gathered(d, 0)'
    BY <1>3, <2>1, <2>3, <2>4, <2>5 DEF Gathered, Groups, Function, Ends
  <2>7. "cie_end" \in MarkFields /\ Marks(d, 0)["cie_end"] = d.data[1]
    BY <1>4, <1>6, <1>8 DEF MarkFields, Marks
  <2> QED BY <2>1, <2>6, <2>7, MarkTrack, Zenon
<1>9. CASE cur.todo # <<>>
  <2>1. d.aug[1] = ChZ /\ Holds(input.bytes, RowOf(d, 1, "cie_aug_len"))
    <3>1. Len(d.aug) > 0
      BY <1>4, <1>6, <1>9
    <3> QED BY <3>1, Zenon DEF Known, HasLayout, AugHolds, RowOf, CharFields
  <2>2. PICK t : t = Tail(cur.todo)
    BY Zenon
  <2>3. Go([Goto("cie_aug_len", d.data[1]) EXCEPT !.todo = t], z, fde)
    BY <1>2, <1>6, <1>9, <2>1, <2>2, Zenon DEF UseRetAddrColumn, Proceed
  <2> HIDE DEF z
  <2>4. Moved("cie_aug_len", d.data[1], z, fde) /\ cur'.todo = t /\ cur'.end = d.at.cie_end
    BY <1>2, <2>3, Zenon DEF Go, Goto, Moved, NewField
  <2>5. /\ cie'.ret_addr_column = d.ra /\ cie'.has_z = "z"
        /\ CieKeeps({"ret_addr_column", "has_z"})
    <3>1. cie' = [column EXCEPT !.has_z = "z"] /\ DOMAIN column = CieNames
      BY <2>4, Zenon DEF Moved, Shaped, z
    <3> QED BY <3>1, Zenon DEF CieNames, CieKeeps
  <2>6. /\ fde' = fde /\ cur'.field = "cie_aug_len" /\ Phase["cie_aug_len"] = 11
        /\ "cie_aug_len" \notin FdeBody /\ "cie_aug_len" \notin DOMAIN CharOf
    BY <2>4, Zenon DEF Moved, NewField, Known, Phases, FdeBody, CharOf
  <2>7. Chars(d, 1, 11)'
    <3>1. Rest(d, 1)'
      BY <1>6, <1>9, <2>2, <2>4, Zenon
    <3> QED BY <1>6, <1>7, <1>9, <2>5, <2>6, <3>1 DEF Chars
  <2>8. Columns(d, 11)'
    BY <1>3, <1>6, <1>9, <2>5 DEF Columns, CieKeeps
  <2>9. Gathered(d, 1)'
    BY <1>3, <2>4, <2>6, <2>7, <2>8 DEF Gathered, Groups, Function, Ends
  <2> DEFINE r == RowOf(d, 1, "cie_aug_len")
  <2>10. r.at = d.data[1] /\ r.to = d.data[1 + 1] /\ r.fmt = "uleb"
    <3>1. Known(d, 1)
      BY LayoutKnown, Zenon DEF Known, Shaped
    <3> QED BY <3>1, Zenon DEF Known, AugTable, IsRow
  <2>11. d.data[1] \in Nat /\ d.data[1 + 1] \in Nat
    BY <1>4, <1>6, <1>9 DEF Known, AugTyped
  <2>12. Format' = "uleb" /\ Refusal' = "none" /\ "cie_aug_len" \notin MarkFields \cup RowFields
    BY <2>6, Zenon DEF Format, Refusal, Pointers, MarkFields, RowFields
  <2> QED BY <2>1, <2>4, <2>9, <2>10, <2>11, <2>12, RowTrack, Zenon
<1> QED BY <1>8, <1>9, Zenon

\* After the length of the augmentation data come the characters after the z.
LEMMA AugLenTrack == Keeps(UseCieAugLen)
<1> SUFFICES ASSUME Shaped, NEW d \in Layouts, NEW k \in Nat, Known(d, k), Track(d, k),
                    UseCieAugLen
             PROVE  OnTrack(d)
  BY Zenon DEF Keeps
<1>1. HasRead(d, k, "cie_aug_len") /\ Groups(d, k, Phase["cie_aug_len"]) /\ Ends(d)
  BY TrackRead, Zenon DEF UseCieAugLen
<1>2. /\ result = None /\ cur.field = "cie_aug_len" /\ Phase["cie_aug_len"] = 11
      /\ cur.end = d.at.cie_end /\ cur.pos = d.data[k + 1]
  BY <1>1, Zenon DEF HasRead, Known, Phases, AugTable, IsRow, Ends, CieBody
<1>3. Moved("aug_char", d.data[k + 1], cie, fde) /\ cur'.end = d.at.cie_end /\ cur'.todo = cur.todo
  BY <1>2, Zenon DEF UseCieAugLen, Go, Goto, Moved, NewField
<1>4. Gathered(d, k)'
  <2>1. /\ cie' = cie /\ fde' = fde /\ cur'.field = "aug_char" /\ Phase["aug_char"] = 12
        /\ "aug_char" \notin FdeBody
    BY <1>3, Zenon DEF Moved, NewField, Known, Phases, FdeBody
  <2>2. Rest(d, k)'
    <3>1. Rest(d, k)
      BY <1>1, <1>2 DEF Groups, Chars
    <3> QED BY <1>3, <3>1, Zenon DEF Rest
  <2>3. Chars(d, k, 12)'
    BY <1>1, <1>2, <2>1, <2>2 DEF Groups, Chars, CharOf, Seen
  <2> QED BY <1>1, <1>2, <1>3, <2>1, <2>3 DEF Gathered, Groups, Columns, Function, Ends
<1> QED BY <1>3, <1>4, MarkTrack, Zenon DEF MarkFields, Marks

\* The other columns do not change with the characters.
LEMMA CharColumns ==
    ASSUME NEW d, Columns(d, 12), Function(d, 12), fde' = fde, NEW q \in {12, 13},
           CieKeeps({"fde_encoding", "lsda_encoding", "personality", "signal_frame"})
    PROVE  Columns(d, q)' /\ Function(d, q)'
BY DEF Columns, Function, CieKeeps

\* The cursor arrives at what belongs to a character.
LEMMA CharTrack ==
    ASSUME NEW d, NEW k \in 2 .. Len(d.aug), Len(d.aug) \in Nat, Known(d, k),
           NEW f \in {"R", "L", "P", "personality"}, d.aug[k] = CharOf[f],
           NEW c, NEW e, Moved(f, RowOf(d, k, f).at, c, e), Gathered(d, k)'
    PROVE  OnTrack(d)
<1> DEFINE r == RowOf(d, k, f)
<1>1. f \notin MarkFields \cup RowFields /\ cur'.field = f /\ k \in Nat
  BY DEF MarkFields, RowFields, Moved, NewField
<1>2. Holds(input.bytes, r) /\ (f = "personality" => d.P # OMIT)
  BY CharHeld DEF CharOf, CharTable
<1>3. r.at \in Nat /\ r.to \in Nat
  <2>1. d.data[k] \in Nat /\ d.data[k + 1] \in Nat
    BY DEF Known, AugTyped
  <2>2. /\ RowOf(d, k, "R").at = d.data[k] /\ RowOf(d, k, "R").to = d.data[k + 1]
        /\ RowOf(d, k, "L").at = d.data[k] /\ RowOf(d, k, "L").to = d.data[k + 1]
        /\ RowOf(d, k, "P").at = d.data[k] /\ RowOf(d, k, "P").to = d.data[k] + 1
        /\ RowOf(d, k, "personality").at = d.data[k] + 1
        /\ RowOf(d, k, "personality").to = d.data[k + 1]
    BY Zenon DEF Known, AugTable, IsRow
  <2> QED BY <2>1, <2>2
<1>4. CASE f # "personality"
  <2>1. Format' = r.fmt /\ Refusal' = "none"
    BY <1>1, <1>4, Zenon DEF Format, Refusal, Pointers, Known, AugTable, IsRow
  <2> QED BY <1>1, <1>2, <1>3, <2>1, RowTrack, Zenon
<1>5. CASE f = "personality"
  <2>1. r.fmt = PointerFormat(d.P)
    BY <1>5, Zenon DEF Known, AugTable, IsRow
  <2>2. PointerFormat(d.P) # "bad"
    BY <1>2, <2>1, Zenon DEF Holds, Fixed
  <2>3. Encoding' = d.P
    BY <1>1, <1>5, Zenon DEF Encoding, Gathered, Groups, Chars
  <2>4. Format' = PointerFormat(d.P) /\ Refusal' = "none"
    BY <1>1, <1>2, <1>5, <2>2, <2>3, Zenon DEF Format, Refusal, Pointers
  <2> QED BY <1>1, <1>2, <1>3, <2>1, <2>4, RowTrack, Zenon
<1> QED BY <1>4, <1>5, Zenon

\* A character of the augmentation string is taken, or its end is found.
LEMMA AugCharTrack == Keeps(AugChar)
<1> SUFFICES ASSUME Shaped, NEW d \in Layouts, NEW k \in Nat, Known(d, k), Track(d, k), AugChar
             PROVE  OnTrack(d)
  BY Zenon DEF Keeps
<1> DEFINE n == Len(d.aug)
           o == d.data[k + 1]
           j == k + 1
           c == Head(cur.todo)
<1>1. result = None /\ cur.field = "aug_char" /\ Phase["aug_char"] = 12 /\ n \in Nat
  BY Zenon DEF AugChar, Reading, Known, Phases, AugTyped
<1>2. Groups(d, k, 12) /\ cur.pos = o /\ cur.end = d.at.cie_end
  BY <1>1 DEF Track, Gathered, Spot, MarkFields, Marks, Ends, CieBody
<1>3. Columns(d, 12) /\ Function(d, 12) /\ k \in 1 .. n /\ Rest(d, k) /\ Seen(d, k)
  BY <1>1, <1>2 DEF Groups, Chars, CharOf
<1>4. RestMoves(d, k)
  <2>1. k \in 0 .. n
    BY <1>1, <1>3
  <2> QED BY <1>1, <1>3, <2>1, RestNext, Zenon
<1> HIDE DEF o
<1>5. CASE cur.todo = <<>>
  <2>1. Moved("cie_end", o, cie, fde) /\ cur'.end = d.at.cie_end
    BY <1>1, <1>2, <1>5 DEF AugChar, Go, Goto, Moved, NewField
  <2>2. /\ cie' = cie /\ fde' = fde /\ cur'.field = "cie_end" /\ Phase["cie_end"] = 13
        /\ "cie_end" \notin FdeBody /\ k = n
    BY <1>4, <1>5, <2>1, Zenon DEF Moved, NewField, Known, Phases, FdeBody, RestMoves
  <2>3. Chars(d, k, 13)'
    BY <1>3, <2>2 DEF Chars, CharOf, Seen
  <2>4. Gathered(d, k)'
    BY <1>3, <2>1, <2>2, <2>3 DEF Gathered, Groups, Columns, Function, Ends
  <2>5. "cie_end" \in MarkFields /\ Marks(d, k)["cie_end"] = o
    BY <2>2, Zenon DEF MarkFields, Marks, o
  <2> QED BY <2>1, <2>4, <2>5, MarkTrack, Zenon
<1>6. CASE cur.todo # <<>>
  <2>1. j \in 1 .. n /\ c = d.aug[j] /\ (cur'.todo = Tail(cur.todo) => Rest(d, j)')
    BY <1>4, <1>6, Zenon DEF RestMoves
  <2>2. j \in 2 .. n /\ j \in Nat \ {0, 1} /\ j - 1 = k
    BY <1>1, <1>3, <2>1
  <2>3. o = d.data[j] /\ Known(d, j)
    BY LayoutKnown, Zenon DEF Known, Shaped, o
  <2>4. PICK t : t = Tail(cur.todo)
    BY Zenon
  <2> HIDE DEF j, c
  <2>5. CASE c \in {82, 76, 80}
    <3>1. PICK f \in {"R", "L", "P"} : AugField[c] = f /\ CharOf[f] = c /\ f \in DOMAIN CharOf
      BY <2>5 DEF AugField, CharOf
    <3>2. c \in DOMAIN AugField /\ f # "personality" /\ f \notin FdeBody /\ Phase[f] = 12
      BY <2>5, Zenon DEF AugField, FdeBody, Known, Phases
    <3>3. Go([Goto(f, o) EXCEPT !.todo = t], cie, fde)
      BY <1>2, <1>6, <2>4, <3>1, <3>2, Zenon DEF AugChar, c
    <3>4. Moved(f, o, cie, fde) /\ cur'.todo = t /\ cur'.end = d.at.cie_end
      BY <1>1, <1>2, <3>3, Zenon DEF Go, Goto, Moved, NewField
    <3>5. cie' = cie /\ fde' = fde /\ cur'.field = f
      BY <3>4, Zenon DEF Moved, NewField
    <3>6. Chars(d, j, 12)'
      <4>1. Seen(d, j - 1)' /\ Rest(d, j)'
        BY <1>3, <2>1, <2>2, <2>4, <3>4, <3>5, Zenon DEF Seen
      <4> QED BY <2>1, <2>2, <3>1, <3>2, <3>5, <4>1 DEF Chars
    <3>7. Gathered(d, j)'
      BY <1>3, <3>2, <3>4, <3>5, <3>6 DEF Gathered, Groups, Columns, Function, Ends
    <3>8. RowOf(d, j, f).at = o
      BY <2>3, Zenon DEF Known, AugTable, IsRow
    <3> QED BY <1>1, <2>1, <2>2, <2>3, <3>1, <3>4, <3>7, <3>8, CharTrack, Zenon
  <2>6. CASE c \notin {82, 76, 80}
    <3>1. c \in {ChS, ChB, ChG} /\ d.data[j + 1] = o
      BY <2>1, <2>2, <2>3, <2>6, CharHeld DEF CharTable
    <3>2. PICK e : e = IF c = ChS THEN [cie EXCEPT !.signal_frame = "signal"] ELSE cie
      BY Zenon
    <3>3. c \notin DOMAIN AugField
      BY <2>6, Zenon DEF AugField
    <3>4. Go([Goto("aug_char", o) EXCEPT !.todo = t], e, fde)
      BY <1>2, <1>6, <2>4, <3>1, <3>2, <3>3, Zenon DEF AugChar, Proceed, c
    <3>5. Moved("aug_char", o, e, fde) /\ cur'.todo = t /\ cur'.end = d.at.cie_end
      BY <1>1, <1>2, <3>4, Zenon DEF Go, Goto, Moved, NewField
    <3>6. fde' = fde /\ cur'.field = "aug_char" /\ cie' = e /\ "aug_char" \notin FdeBody
      BY <3>5, Zenon DEF Moved, NewField, FdeBody
    <3>7. /\ cie'.signal_frame = IF c = ChS THEN "signal" ELSE cie.signal_frame
          /\ CieKeeps({"signal_frame"})
      <4>1. CASE c = ChS
        BY <3>2, <3>6, <4>1, CieChange, Zenon DEF CieNames
      <4>2. CASE c # ChS
        BY <3>2, <3>6, <4>2, Zenon DEF CieKeeps
      <4> QED BY <4>1, <4>2, Zenon
    <3>8. Seen(d, j)'
      <4>1. \A x : Among(d, j, x) <=> (Among(d, k, x) \/ c = x)
        BY <2>1, <2>2, AmongNext, Zenon
      <4> QED BY <1>3, <2>6, <3>7, <4>1 DEF Seen, CieKeeps, ChS
    <3>9. Chars(d, j, 12)'
      <4>1. Rest(d, j)'
        BY <2>1, <2>4, <3>5, Zenon
      <4> QED BY <2>1, <3>6, <3>8, <4>1 DEF Chars, CharOf
    <3>10. Gathered(d, j)'
      BY <1>1, <1>3, <3>5, <3>6, <3>7, <3>9, CharColumns, Zenon DEF Gathered, Groups, CieKeeps, Ends
    <3> QED BY <2>2, <3>1, <3>5, <3>10, MarkTrack, Zenon DEF MarkFields, Marks
  <2> QED BY <2>5, <2>6, Zenon
<1> QED BY <1>5, <1>6, Zenon

\* What belongs to a character is stored: an encoding, before the personality or the
\* next character.
LEMMA EncodingTrack == Keeps(\E f \in {"R", "L", "P"} : StoreCieField(f))
<1> SUFFICES ASSUME Shaped, NEW d \in Layouts, NEW k \in Nat, Known(d, k), Track(d, k),
                    NEW f \in {"R", "L", "P"}, StoreCieField(f)
             PROVE  OnTrack(d)
  BY Zenon DEF Keeps
<1>1. HasRead(d, k, f) /\ Groups(d, k, Phase[f]) /\ Ends(d)
  BY TrackRead, Zenon DEF StoreCieField
<1>2. /\ result = None /\ cur.field = f /\ Phase[f] = 12 /\ cur.end = d.at.cie_end
      /\ Len(d.aug) \in Nat /\ f \in DOMAIN CharOf
  <2>1. Len(d.aug) \in Nat
    BY Zenon DEF Known, AugTyped
  <2>2. f \in DOMAIN CharOf /\ f \in CieBody /\ Phase[f] = 12
    BY Zenon DEF CharOf, CieBody, Known, Phases
  <2> QED BY <1>1, <2>1, <2>2, Zenon DEF HasRead, Ends
<1>3. /\ k \in 2 .. Len(d.aug) /\ d.aug[k] = CharOf[f] /\ Seen(d, k - 1) /\ Rest(d, k)
      /\ Columns(d, 12) /\ Function(d, 12)
  BY <1>1, <1>2 DEF Groups, Chars
<1>4. k \in 1 .. Len(d.aug) /\ k \in Nat \ {0, 1}
  BY <1>2, <1>3
<1>5. \A x : Among(d, k, x) <=> (Among(d, k - 1, x) \/ d.aug[k] = x)
  BY <1>4, AmongNext, Zenon
<1>6. ASSUME NEW g \in {"aug_char", "personality"}, NEW p, NEW y \in CieNames, NEW v,
             g = NextField[f], y = Target[f], cur.pos = p, cur.val = v
      PROVE  /\ Moved(g, p, [cie EXCEPT ![y] = v], fde) /\ cur'.end = d.at.cie_end
             /\ cie'[y] = v /\ CieKeeps({y}) /\ fde' = fde /\ cur'.field = g
             /\ g \notin FdeBody /\ Phase[g] = 12 /\ Rest(d, k)'
  <2>1. Go(Goto(g, p), [cie EXCEPT ![y] = v], fde)
    BY <1>6, Zenon DEF StoreCieField
  <2>2. /\ Moved(g, p, [cie EXCEPT ![y] = v], fde) /\ cur'.end = d.at.cie_end
        /\ cur'.todo = cur.todo
    BY <1>2, <2>1, Zenon DEF Go, Goto, Moved, NewField
  <2>3. cie'[y] = v /\ CieKeeps({y}) /\ fde' = fde /\ cur'.field = g
    BY <2>2, CieChange, Zenon DEF Moved, NewField
  <2>4. Rest(d, k)'
    BY <1>3, <2>2, Zenon DEF Rest
  <2>5. g \notin FdeBody /\ Phase[g] = 12
    BY Zenon DEF FdeBody, Known, Phases
  <2> QED BY <2>2, <2>3, <2>4, <2>5, Zenon
<1>7. ASSUME f \in {"R", "L"}, cur.pos = d.data[k + 1], NEW y \in CieNames, y = Target[f],
             NEW v, cur.val = v, NextField[f] = "aug_char", Seen(d, k)',
             y \in {"fde_encoding", "lsda_encoding"}
      PROVE  OnTrack(d)
  <2>1. /\ Moved("aug_char", d.data[k + 1], [cie EXCEPT ![y] = v], fde)
        /\ cur'.end = d.at.cie_end /\ CieKeeps({y}) /\ fde' = fde /\ cur'.field = "aug_char"
        /\ "aug_char" \notin FdeBody /\ Phase["aug_char"] = 12 /\ Rest(d, k)'
    BY <1>6, <1>7, Zenon
  <2>2. Chars(d, k, 12)'
    BY <1>4, <1>7, <2>1 DEF Chars, CharOf
  <2>3. Columns(d, 12)' /\ Function(d, 12)'
    BY <1>3, <1>7, <2>1, CharColumns, Zenon DEF CieKeeps
  <2>4. Gathered(d, k)'
    BY <2>1, <2>2, <2>3, Zenon DEF Gathered, Groups, Ends
  <2> QED BY <2>1, <2>4, MarkTrack, Zenon DEF MarkFields, Marks
<1>8. CASE f = "R"
  <2>1. NextField[f] = "aug_char" /\ Target[f] = "fde_encoding" /\ d.aug[k] = 82
    BY <1>3, <1>8, Zenon DEF NextField, Target, CharOf
  <2>2. cur.pos = d.data[k + 1] /\ cur.val = d.R /\ "fde_encoding" \in CieNames
    BY <1>1, <1>8, Zenon DEF HasRead, Known, AugTable, IsRow, CieNames
  <2>3. cie'.fde_encoding = d.R /\ CieKeeps({"fde_encoding"})
    BY <1>6, <2>1, <2>2, Zenon
  <2>4. Seen(d, k)'
    BY <1>3, <1>5, <2>1, <2>3 DEF Seen, CieKeeps, ChS
  <2> QED BY <1>7, <1>8, <2>1, <2>2, <2>4, Zenon
<1>9. CASE f = "L"
  <2>1. NextField[f] = "aug_char" /\ Target[f] = "lsda_encoding" /\ d.aug[k] = 76
    BY <1>3, <1>9, Zenon DEF NextField, Target, CharOf
  <2>2. cur.pos = d.data[k + 1] /\ cur.val = d.L /\ "lsda_encoding" \in CieNames
    BY <1>1, <1>9, Zenon DEF HasRead, Known, AugTable, IsRow, CieNames
  <2>3. cie'.lsda_encoding = d.L /\ CieKeeps({"lsda_encoding"})
    BY <1>6, <2>1, <2>2, Zenon
  <2>4. Seen(d, k)'
    BY <1>3, <1>5, <2>1, <2>3 DEF Seen, CieKeeps, ChS
  <2> QED BY <1>7, <1>9, <2>1, <2>2, <2>4, Zenon
<1>10. CASE f = "P"
  <2> DEFINE r == RowOf(d, k, "personality")
  <2>1. /\ NextField[f] = "personality" /\ Target[f] = "personality_encoding" /\ d.aug[k] = 80
        /\ "personality" \in DOMAIN CharOf /\ CharOf["personality"] = 80
    BY <1>3, <1>10, Zenon DEF NextField, Target, CharOf
  <2>2. cur.pos = r.at /\ cur.val = d.P /\ "personality_encoding" \in CieNames
    BY <1>1, <1>10, Zenon DEF HasRead, Known, AugTable, IsRow, CieNames
  <2> HIDE DEF r
  <2>3. /\ Moved("personality", r.at, [cie EXCEPT !["personality_encoding"] = d.P], fde)
        /\ cur'.end = d.at.cie_end /\ cie'.personality_encoding = d.P
        /\ CieKeeps({"personality_encoding"}) /\ fde' = fde /\ cur'.field = "personality"
        /\ "personality" \notin FdeBody /\ Phase["personality"] = 12 /\ Rest(d, k)'
    BY <1>6, <2>1, <2>2
  <2>4. Chars(d, k, 12)'
    <3>1. Seen(d, k - 1)'
      BY <1>3, <2>3 DEF Seen, CieKeeps
    <3> QED BY <1>3, <1>4, <2>1, <2>3, <3>1 DEF Chars
  <2>5. Gathered(d, k)'
    BY <1>3, <2>3, <2>4, CharColumns, Zenon DEF Gathered, Groups, CieKeeps, Ends
  <2> QED BY <1>2, <1>3, <2>1, <2>3, <2>5, CharTrack DEF r
<1> QED BY <1>8, <1>9, <1>10, Zenon
=============================================================================
