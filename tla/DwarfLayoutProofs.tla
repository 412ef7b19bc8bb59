-------------------------- MODULE DwarfLayoutProofs -------------------------
(***************************************************************************)
(* parse_function_details returns what the section means, for every layout *)
(* of a CIE and an FDE: every version, length format, augmentation string, *)
(* pointer encoding and LEB128 number, at every place of the section.  On  *)
(* top of DwarfReadProofs and DwarfCieProofs: the pointers, parse_fde, the *)
(* details, and the theorems.                                              *)
(***************************************************************************)
EXTENDS DwarfCieProofs

-----------------------------------------------------------------------------
(* Pointers *)

\* A word plus its difference to another one is the other one.
LEMMA DifferenceAdds ==
    ASSUME NEW t \in Addr, NEW b \in Addr
    PROVE  /\ Wrap(Wrap(t - b) + b) = t
           /\ t # b => Wrap(t - b) # 0
<1> DEFINE M == MaxU + 1
<1>1. M \in Nat /\ M > 0 /\ t \in 0 .. M - 1 /\ b \in 0 .. M - 1 /\ MaxU \in Nat
  BY WidthAssumption DEF Addr
<1>2. CASE t >= b
  <2>1. t - b \in 0 .. M - 1 /\ t - b \in Int /\ t \in Int
    BY <1>1, <1>2
  <2>2. (t - b) % M = t - b /\ t % M = t
    <3> HIDE DEF M
    <3> QED BY <1>1, <2>1, ModNear, Zenon
  <2>3. (t - b) + b = t
    BY <1>1
  <2> QED BY <1>1, <2>2, <2>3 DEF Wrap
<1>3. CASE t < b
  <2>1. t - b \in -M .. -1 /\ t - b \in Int /\ t + M \in M .. 2 * M - 1 /\ t + M \in Int
    BY <1>1, <1>3
  <2>2. (t - b) % M = t - b + M /\ (t + M) % M = t + M - M
    <3> HIDE DEF M
    <3> QED BY <1>1, <2>1, ModNear
  <2>3. (t - b + M) + b = t + M /\ t + M - M = t /\ t - b + M # 0
    BY <1>1
  <2> QED BY <2>2, <2>3, Zenon DEF Wrap
<1> QED BY <1>1, <1>2, <1>3

\* A pointer that is stored as the difference to its base resolves to its target.
LEMMA ResolvedIs ==
    ASSUME NEW t \in Addr, NEW b \in Addr, ~IsIndirect(Encoding), cur.val = Difference(t, b),
           Expressible(Encoding, t, b),
           ApplicationOf(Encoding) \in 0 .. 4 => PointerBase[ApplicationOf(Encoding)] = b
    PROVE  ~NotApplicable /\ Resolved = t
<1>1. CASE t = 0
  BY <1>1, Zenon DEF Difference, NotApplicable, Absent, Resolved
<1>2. CASE t # 0
  <2>1. /\ ApplicationOf(Encoding) \in 0 .. 4 /\ t # b /\ cur.val = Wrap(t - b)
        /\ PointerBase[ApplicationOf(Encoding)] = b
    BY <1>2, Zenon DEF Expressible, Difference
  <2>2. cur.val # 0 /\ Wrap(cur.val + b) = t
    BY <2>1, DifferenceAdds
  <2> QED BY <2>1, <2>2, Zenon DEF NotApplicable, Absent, Resolved
<1> QED BY <1>1, <1>2, Zenon

\* Bases are words.
LEMMA BaseType ==
    ASSUME input \in Inputs, NEW enc \in Byte, NEW at \in Nat, at <= Size, NEW text \in Addr,
           NEW data \in Addr, NEW func \in Addr
    PROVE  Base(enc, at, text, data, func) \in Addr
<1>1. EhFrameAvma + at \in Addr /\ 0 \in Addr
  BY SizeType DEF Addr
<1> QED BY <1>1, Zenon DEF Base

\* Where a field was read, its start is in the section.
LEMMA StartInside ==
    ASSUME input \in Inputs, NEW d, NEW k, Track(d, k), cur.field \notin MarkFields
    PROVE  cur.start \in Nat /\ cur.start <= Size
<1>1. PICK r : Stand(r)
  BY Zenon DEF Track, Spot
<1>2. cur.start = r.at /\ r.at \in Nat /\ r.to \in Nat /\ Holds(input.bytes, r)
  BY <1>1, Zenon DEF Stand, Placed
<1>3. r.at < r.to /\ r.to <= Size /\ Size \in Nat
  BY <1>2, RowForward, SizeType, Zenon DEF Holds, Size
<1> QED BY <1>2, <1>3

\* The base that the parser adds is the one that the layout subtracted.
LEMMA BaseIs ==
    ASSUME NEW enc, ApplicationOf(enc) \in 0 .. 4,
           cur.field \in {"personality", "initial_pc", "lsda"}
    PROVE  PointerBase[ApplicationOf(enc)] =
             IF cur.field = "personality" THEN Base(enc, cur.start, 0, 0, 0)
             ELSE Base(enc, cur.start, TextBase, DataBase,
                       IF cur.field = "lsda" THEN fde.initial_pc ELSE 0)
<1> DEFINE x == ApplicationOf(enc)
<1>1. PointerBase[x] =
        CASE x = 1 -> EhFrameAvma + cur.start
          [] x = 2 /\ cur.field # "personality" -> TextBase
          [] x = 3 /\ cur.field # "personality" -> DataBase
          [] x = 4 /\ cur.field = "lsda" -> fde.initial_pc
          [] OTHER -> 0
  BY Zenon DEF PointerBase
<1> HIDE DEF x
<1>2. x \in {0, 1, 2, 3, 4}
  BY DEF x
<1>3. CASE cur.field = "personality"
  BY <1>1, <1>2, <1>3 DEF Base, x
<1>4. CASE cur.field # "personality"
  BY <1>1, <1>2, <1>4 DEF Base, x
<1> QED BY <1>3, <1>4, Zenon

\* The personality is the handler of the layout.
LEMMA PersonalityTrack == Keeps(UsePersonality)
<1> SUFFICES ASSUME Shaped, NEW d \in Layouts, NEW k \in Nat, Known(d, k), Track(d, k),
                    UsePersonality
             PROVE  OnTrack(d)
  BY Zenon DEF Keeps
<1>1. HasRead(d, k, "personality") /\ Groups(d, k, Phase["personality"]) /\ Ends(d)
  BY TrackRead, Zenon DEF UsePersonality
<1>2. /\ result = None /\ cur.field = "personality" /\ Phase["personality"] = 12
      /\ cur.end = d.at.cie_end /\ cur.pos = d.data[k + 1] /\ cur.start = d.data[k] + 1
      /\ cur.val = IF IsIndirect(d.P) THEN d.slot ELSE Difference(d.handler, PersonalityBase(d, k))
  <2>1. /\ RowOf(d, k, "personality").at = d.data[k] + 1
        /\ RowOf(d, k, "personality").to = d.data[k + 1]
        /\ RowOf(d, k, "personality").word
             = IF IsIndirect(d.P) THEN d.slot ELSE Difference(d.handler, PersonalityBase(d, k))
    BY Zenon DEF Known, AugTable, IsRow
  <2> QED BY <1>1, <2>1, Zenon DEF HasRead, Known, Phases, Ends, CieBody
<1>3. Len(d.aug) \in Nat /\ "personality" \in DOMAIN CharOf /\ CharOf["personality"] = 80
  BY Zenon DEF Known, AugTyped, CharOf
<1>4. /\ k \in 2 .. Len(d.aug) /\ d.aug[k] = 80 /\ Seen(d, k - 1) /\ Rest(d, k)
      /\ Columns(d, 12) /\ Function(d, 12) /\ cie.personality_encoding = d.P
  BY <1>1, <1>2, <1>3 DEF Groups, Chars
<1>5. k \in 1 .. Len(d.aug) /\ k \in Nat \ {0, 1}
  BY <1>3, <1>4
<1>6. ~NotApplicable /\ Resolved = d.handler
  <2>1. Encoding = d.P
    BY <1>2, <1>4, Zenon DEF Encoding
  <2>2. IF IsIndirect(d.P) THEN d.handler = 0
        ELSE Expressible(d.P, d.handler, PersonalityBase(d, k))
    BY <1>4, CharHeld, Zenon DEF CharTable
  <2>3. CASE IsIndirect(d.P)
    BY <2>1, <2>2, <2>3, Zenon DEF NotApplicable, Absent, Resolved
  <2>4. CASE ~IsIndirect(d.P)
    <3>1. d.handler \in Addr /\ d.P \in Byte /\ 0 \in Addr /\ cur.start \in Nat /\ cur.start <= Size
      BY <1>2, WidthAssumption, StartInside DEF Known, PointersTyped, Addr, Shaped, MarkFields
    <3>2. PersonalityBase(d, k) = Base(d.P, cur.start, 0, 0, 0)
      BY <1>2, Zenon DEF PersonalityBase
    <3>3. PersonalityBase(d, k) \in Addr
      BY <3>1, <3>2, BaseType DEF Shaped
    <3>4. ApplicationOf(d.P) \in 0 .. 4 => PointerBase[ApplicationOf(d.P)] = PersonalityBase(d, k)
      BY <1>2, <3>2, BaseIs, Zenon
    <3> QED BY <1>2, <2>1, <2>2, <2>4, <3>1, <3>3, <3>4, ResolvedIs
  <2> QED BY <2>3, <2>4, Zenon
<1>7. /\ Moved("aug_char", d.data[k + 1], [cie EXCEPT !.personality = d.handler], fde)
      /\ cur'.end = d.at.cie_end /\ cur'.todo = cur.todo
  BY <1>2, <1>6 DEF UsePersonality, Proceed, Go, Goto, Moved, NewField
<1>8. cie'.personality = d.handler /\ CieKeeps({"personality"})
  BY <1>7, CieChange, Zenon DEF Moved, CieNames
<1>9. Gathered(d, k)'
  <2>1. /\ fde' = fde /\ cur'.field = "aug_char" /\ Phase["aug_char"] = 12
        /\ "aug_char" \notin FdeBody
    BY <1>7, Zenon DEF Moved, NewField, Known, Phases, FdeBody
  <2>2. Rest(d, k)'
    BY <1>4, <1>7, Zenon DEF Rest
  <2>3. Seen(d, k)'
    <3>1. \A x : Among(d, k, x) <=> (Among(d, k - 1, x) \/ d.aug[k] = x)
      BY <1>5, AmongNext, Zenon
    <3> QED BY <1>4, <1>8, <3>1 DEF Seen, CieKeeps, ChS
  <2>4. Chars(d, k, 12)'
    BY <1>5, <2>1, <2>2, <2>3 DEF Chars, CharOf
  <2>5. Columns(d, 12)' /\ Function(d, 12)'
    BY <1>4, <1>8, <2>1, CharColumns DEF CieKeeps
  <2> QED BY <1>7, <2>1, <2>4, <2>5, Zenon DEF Gathered, Groups, Ends
<1> QED BY <1>7, <1>9, MarkTrack, Zenon DEF MarkFields, Marks

\* The CIE ends where its length says, after its fields.
LEMMA CieEndTrack == Keeps(CieEnd)
<1> SUFFICES ASSUME Shaped, NEW d \in Layouts, NEW k \in Nat, Known(d, k), Track(d, k), CieEnd
             PROVE  OnTrack(d)
  BY Zenon DEF Keeps
<1> DEFINE p == d.data[Len(d.aug) + 1]
           o == RowOf(d, k, "fde_length").at
           c == [cie EXCEPT !.instr_offset = p, !.instr_len = Wrap(d.at.cie_end - p)]
<1>1. result = None /\ cur.field = "cie_end" /\ Phase["cie_end"] = 13
  BY Zenon DEF CieEnd, Reading, Known, Phases
<1>2. Groups(d, k, 13) /\ cur.pos = p /\ cur.end = d.at.cie_end
  BY <1>1 DEF Track, Gathered, Spot, MarkFields, Marks, Ends, CieBody
<1>3. p \in Nat /\ p <= d.at.cie_end
  <2>1. Len(d.aug) + 1 \in 1 .. Len(d.aug) + 1
    BY DEF Known, AugTyped
  <2> QED BY <2>1, Zenon DEF Known, AugTyped, HasLayout
<1> HIDE DEF p
<1>4. ~(cur.end < cur.pos) /\ ~(cur.end > Size) /\ fde_offset = o
  <2>1. d.at.cie_end \in Nat /\ d.at.cie_end <= Size /\ Size \in Nat
    BY Zenon DEF Known, CieTyped, Fits
  <2>2. fde_offset = d.at.fde /\ o = d.at.fde
    BY FdeHead, Zenon DEF Shaped, HeadPlaces, Known, FdeTable, IsRow
  <2> QED BY <1>2, <1>3, <2>1, <2>2
<1>5. Go(Goto("fde_length", o), c, fde)
  BY <1>2, <1>4, Zenon DEF CieEnd, Overrun, Proceed, InstrLen
<1>6. /\ cie'.instr_offset = p /\ cie'.instr_len = Wrap(d.at.cie_end - p)
      /\ CieKeeps({"instr_offset", "instr_len"})
  BY <1>5, Zenon DEF Go, Shaped, CieNames, CieKeeps
<1> HIDE DEF c
<1>7. Moved("fde_length", o, c, fde)
  BY <1>1, <1>5, Zenon DEF Go, Goto, Moved, NewField
<1>8. Gathered(d, k)'
  <2>1. /\ fde' = fde /\ cur'.field = "fde_length" /\ Phase["fde_length"] = 14
        /\ "fde_length" \notin FdeBody /\ "fde_length" \notin CieBody
    BY <1>7, Zenon DEF Moved, NewField, Known, Phases, FdeBody, CieBody
  <2>2. Chars(d, k, 14)'
    BY <1>1, <1>2, <1>6, <2>1, CharsKept DEF Groups, SameChars, CharOf, CieKeeps
  <2>3. Columns(d, 14)'
    BY <1>2, <1>6 DEF Groups, Columns, CieKeeps, p
  <2> QED BY <1>2, <2>1, <2>2, <2>3 DEF Gathered, Groups, Function, Ends
<1> QED BY <1>7, <1>8, PlainTrack DEF Present, Pointers

-----------------------------------------------------------------------------
(* parse_fde *)

\* What is known of the CIE does not change in the FDE.
LEMMA CieKept ==
    ASSUME NEW d, NEW k, NEW p \in 14 .. 22, NEW q \in 14 .. 22, Groups(d, k, p), cie' = cie,
           cur.field \notin DOMAIN CharOf, cur'.field \notin DOMAIN CharOf
    PROVE  Chars(d, k, q)' /\ Columns(d, q)'
<1>1. Chars(d, k, q)'
  BY CharsKept DEF Groups, SameChars
<1> QED BY <1>1 DEF Groups, Columns

\* The fields of the FDE after one was stored.
LEMMA FdeChange ==
    ASSUME Shaped, NEW x \in FdeNames, NEW v, fde' = [fde EXCEPT ![x] = v]
    PROVE  fde'[x] = v /\ FdeKeeps({x})
BY Zenon DEF Shaped, FdeNames, FdeKeeps

\* The length of the FDE leads to its first field and says where it ends.
LEMMA FdeLengthTrack == Keeps(\E f \in {"fde_length", "fde_length64"} : UseLength(f))
<1> SUFFICES ASSUME Shaped, NEW d \in Layouts, NEW k \in Nat, Known(d, k), Track(d, k),
                    NEW f \in {"fde_length", "fde_length64"}, UseLength(f)
             PROVE  OnTrack(d)
  BY Zenon DEF Keeps
<1>1. HasRead(d, k, f) /\ Groups(d, k, Phase[f])
  BY TrackRead, Zenon DEF UseLength
<1>2. /\ result = None /\ cur.field = f /\ f \in Present(d) /\ Phase[f] \in {14, 15}
      /\ d.fde_size \in {"u32", "u64"}
  BY <1>1 DEF HasRead, RowFields, Known, Phases, FdeTyped
<1>3. /\ DOMAIN Wide = {"cie_length", "fde_length"} /\ Wide["fde_length"] = "fde_length64"
      /\ IdField["fde_length"] = "cie_ptr" /\ IdField["fde_length64"] = "cie_ptr64"
  BY Zenon DEF Wide, IdField
<1>4. ASSUME NEW g \in {"fde_length64", "cie_ptr", "cie_ptr64"}, NEW p, Moved(g, p, cie, fde),
             g = "fde_length64" \/ cur'.end = d.at.fde_end
      PROVE  Gathered(d, k)'
  <2>1. /\ cie' = cie /\ fde' = fde /\ cur'.field = g /\ Phase[g] \in {15, 16}
        /\ g \notin CieBody /\ "fde_length64" \notin FdeBody
    BY <1>4 DEF Moved, NewField, Known, Phases, FdeBody, CieBody
  <2>2. Chars(d, k, Phase[g])' /\ Columns(d, Phase[g])'
    BY <1>1, <1>2, <2>1, CieKept DEF CharOf
  <2> QED BY <1>1, <1>2, <1>4, <2>1, <2>2 DEF Gathered, Groups, Function, Ends
<1>5. CASE f = "fde_length" /\ d.fde_size = "u64"
  <2>1. cur.pos = RowOf(d, k, "fde_length64").at /\ cur.val = Max32
    BY <1>1, <1>5, Zenon DEF HasRead, Known, FdeTable, IsRow
  <2>2. Moved("fde_length64", RowOf(d, k, "fde_length64").at, cie, fde)
    BY <1>2, <1>3, <1>5, <2>1 DEF UseLength, Go, Goto, Moved, NewField
  <2> QED BY <1>4, <1>5, <2>2, PlainTrack, Zenon DEF Present, Pointers
<1>6. CASE ~(f = "fde_length" /\ d.fde_size = "u64")
  <2>1. PICK g \in {"cie_ptr", "cie_ptr64"} : g = IdField[f] /\ g \in Present(d)
    BY <1>2, <1>3, <1>6, Zenon DEF Present
  <2>2. /\ d.at.cie_ptr \in Nat /\ d.at.fde_end \in Nat /\ d.at.fde_end <= MaxU
        /\ d.fde_size = "u32" =>
             d.at.cie_ptr = d.at.fde + U32 /\ d.at.fde_end - d.at.cie_ptr # Max32
    BY DEF Known, FdeTyped, Fits
  <2>3. /\ cur.pos = d.at.cie_ptr /\ cur.val = d.at.fde_end - d.at.cie_ptr
        /\ d.at.cie_ptr = RowOf(d, k, g).at
    <3>1. /\ RowOf(d, k, "fde_length").to = d.at.fde + U32
          /\ d.fde_size # "u64" => RowOf(d, k, "fde_length").word = d.at.fde_end - d.at.cie_ptr
          /\ RowOf(d, k, "fde_length64").to = d.at.cie_ptr
          /\ RowOf(d, k, "fde_length64").word = d.at.fde_end - d.at.cie_ptr
          /\ RowOf(d, k, "cie_ptr").at = d.at.cie_ptr /\ RowOf(d, k, "cie_ptr64").at = d.at.cie_ptr
      BY Zenon DEF Known, FdeTable, IsRow
    <3> QED BY <1>1, <1>2, <1>6, <2>1, <2>2, <3>1 DEF HasRead
  <2>4. /\ ~(f \in DOMAIN Wide /\ cur.val = Max32)
        /\ cur.pos + cur.val = d.at.fde_end /\ ~(d.at.fde_end > MaxU)
    BY <1>2, <1>3, <1>6, <2>2, <2>3 DEF Known, Fits
  <2>5. Go([Goto(g, RowOf(d, k, g).at) EXCEPT !.end = d.at.fde_end], cie, fde)
    BY <2>1, <2>3, <2>4, Zenon DEF UseLength, Proceed
  <2>6. Moved(g, RowOf(d, k, g).at, cie, fde) /\ cur'.end = d.at.fde_end
    BY <1>2, <2>5, Zenon DEF Go, Goto, Moved, NewField
  <2> QED BY <1>4, <2>1, <2>6, PlainTrack, Zenon DEF Pointers
<1> QED BY <1>5, <1>6, Zenon

\* After the CIE its encodings are those of the layout.
LEMMA EncodingsKnown ==
    ASSUME NEW d, HasLayout(input, d), NEW k, NEW p \in 13 .. 22, Groups(d, k, p),
           cur.field \notin DOMAIN CharOf
    PROVE  Encoded(d)
<1>1. Seen(d, Len(d.aug))
  BY DEF Groups, Chars
<1>2. \A c : AugHas(d, c) <=> Among(d, Len(d.aug), c)
  BY Zenon DEF AugHas, Among
<1>3. /\ AugHas(d, 82) \/ d.R = 0
      /\ AugHas(d, 76) \/ d.L = OMIT
      /\ AugHas(d, 80) \/ d.handler = 0
  BY Zenon DEF HasLayout, AugHolds
<1>4. d.aug = <<>> => d.L = OMIT
  BY <1>3 DEF AugHas
<1> QED BY <1>1, <1>2, <1>3, <1>4 DEF Seen, Encoded

\* The cursor arrives at a pointer of the FDE.
LEMMA PointerTrack ==
    ASSUME NEW d, NEW k \in Nat, Known(d, k), Encoded(d), NEW f \in {"initial_pc", "range", "lsda"},
           f \in Present(d), NEW e, Moved(f, RowOf(d, k, f).at, cie, e), Gathered(d, k)'
    PROVE  OnTrack(d)
<1> DEFINE r == RowOf(d, k, f)
<1>1. /\ ~IsIndirect(d.R) /\ (d.L # OMIT => ~IsIndirect(d.L)) /\ Holds(input.bytes, r)
      /\ f \in RowFields
  BY PresentHolds, Zenon DEF Known, HasLayout
<1>2. f \notin MarkFields /\ cur'.field = f /\ cie'.fde_encoding = d.R /\ cie'.lsda_encoding = d.L
  BY Zenon DEF MarkFields, Moved, NewField, Encoded
<1>3. r.at \in Nat /\ r.to \in Nat
  BY Zenon DEF Known, FdeTable, FdeTyped, IsRow
<1>4. r.fmt = (IF f = "lsda" THEN PointerFormat(d.L) ELSE PointerFormat(d.R)) /\ r.fmt # "bad"
  <2>1. r.fmt = IF f = "lsda" THEN PointerFormat(d.L) ELSE PointerFormat(d.R)
    BY Zenon DEF Known, FdeTable, IsRow
  <2>2. r.fmt # "bad"
    BY <1>1, Zenon DEF Holds, Fixed
  <2> QED BY <2>1, <2>2, Zenon
<1> HIDE DEF r
<1>5. /\ FormatOf(FormatOf(d.R)) = FormatOf(d.R) /\ ~IsIndirect(FormatOf(d.R))
      /\ FormatOf(d.R) # OMIT
  <2>1. d.R \in 0 .. 255
    BY Zenon DEF Known, PointersTyped, Byte
  <2> QED BY <2>1 DEF FormatOf, IsIndirect, OMIT
<1>6. d.R # OMIT /\ PointerFormat(FormatOf(d.R)) = PointerFormat(d.R)
  BY <1>1, <1>5 DEF IsIndirect, OMIT, PointerFormat
<1>7. PICK x : x = Encoding'
  BY Zenon
<1>8. x # OMIT /\ ~IsIndirect(x) /\ PointerFormat(x) = r.fmt
  <2>1. CASE f = "initial_pc"
    BY <1>1, <1>2, <1>4, <1>6, <1>7, <2>1 DEF Encoding
  <2>2. CASE f = "range"
    BY <1>2, <1>4, <1>5, <1>6, <1>7, <2>2, Zenon DEF Encoding
  <2>3. CASE f = "lsda"
    <3>1. x = d.L
      BY <1>2, <1>7, <2>3, Zenon DEF Encoding
    <3>2. d.L # OMIT
      BY <2>3, Zenon DEF Present
    <3> QED BY <1>1, <1>4, <2>3, <3>1, <3>2, Zenon
  <2> QED BY <2>1, <2>2, <2>3, Zenon
<1>9. Format' = r.fmt /\ Refusal' = "none"
  BY <1>2, <1>4, <1>7, <1>8, Zenon DEF Format, Refusal, Pointers
<1> QED BY <1>1, <1>2, <1>3, <1>9, RowTrack, Zenon DEF r

\* The pointer back to the CIE is not zero.
LEMMA CiePtrTrack == Keeps(\E f \in {"cie_ptr", "cie_ptr64"} : UseCiePtr(f))
<1> SUFFICES ASSUME Shaped, NEW d \in Layouts, NEW k \in Nat, Known(d, k), Track(d, k),
                    NEW f \in {"cie_ptr", "cie_ptr64"}, UseCiePtr(f)
             PROVE  OnTrack(d)
  BY Zenon DEF Keeps
<1> DEFINE o == RowOf(d, k, "initial_pc").at
<1>1. HasRead(d, k, f) /\ Groups(d, k, Phase[f]) /\ Ends(d)
  BY TrackRead, Zenon DEF UseCiePtr
<1>2. /\ RowOf(d, k, "cie_ptr").to = o /\ RowOf(d, k, "cie_ptr").word = d.at.cie_ptr - d.at.cie
      /\ RowOf(d, k, "cie_ptr64").to = o /\ RowOf(d, k, "cie_ptr64").word = d.at.cie_ptr - d.at.cie
  BY Zenon DEF Known, FdeTable, IsRow
<1>3. /\ result = None /\ cur.field = f /\ Phase[f] = 16 /\ cur.end = d.at.fde_end
      /\ cur.pos = o /\ cur.val = d.at.cie_ptr - d.at.cie
  BY <1>1, <1>2 DEF HasRead, Known, Phases, Ends, FdeBody
<1>4. cur.val # 0
  BY <1>3 DEF Known, Fits, CieTyped, FdeTyped
<1>5. Moved("initial_pc", o, cie, fde) /\ cur'.end = d.at.fde_end
  BY <1>3, <1>4 DEF UseCiePtr, Proceed, Go, Goto, Moved, NewField
<1>6. cur.field \notin DOMAIN CharOf /\ "initial_pc" \notin DOMAIN CharOf
  BY <1>3, Zenon DEF CharOf
<1>7. Gathered(d, k)'
  <2>1. /\ cie' = cie /\ fde' = fde /\ cur'.field = "initial_pc" /\ Phase["initial_pc"] = 17
        /\ "initial_pc" \notin CieBody
    BY <1>5, Zenon DEF Moved, NewField, Known, Phases, CieBody
  <2>2. Chars(d, k, 17)' /\ Columns(d, 17)'
    BY <1>1, <1>3, <1>6, <2>1, CieKept
  <2> QED BY <1>1, <1>3, <1>5, <2>1, <2>2 DEF Gathered, Groups, Function, Ends
<1>8. Encoded(d)
  BY <1>1, <1>3, <1>6, EncodingsKnown DEF Known
<1> QED BY <1>5, <1>7, <1>8, PointerTrack, Zenon DEF Present

\* The function starts where the layout says.
LEMMA InitialPcTrack == Keeps(UseInitialPc)
<1> SUFFICES ASSUME Shaped, NEW d \in Layouts, NEW k \in Nat, Known(d, k), Track(d, k), UseInitialPc
             PROVE  OnTrack(d)
  BY Zenon DEF Keeps
<1> DEFINE o == RowOf(d, k, "range").at
<1>1. HasRead(d, k, "initial_pc") /\ Groups(d, k, Phase["initial_pc"]) /\ Ends(d)
  BY TrackRead, Zenon DEF UseInitialPc
<1>2. /\ result = None /\ cur.field = "initial_pc" /\ Phase["initial_pc"] = 17
      /\ cur.end = d.at.fde_end /\ cur.pos = o /\ cur.start = d.at.initial_pc
      /\ cur.val = Difference(d.initial_pc, PcBase(d))
  <2>1. /\ RowOf(d, k, "initial_pc").at = d.at.initial_pc /\ RowOf(d, k, "initial_pc").to = o
        /\ RowOf(d, k, "initial_pc").word = Difference(d.initial_pc, PcBase(d))
    BY Zenon DEF Known, FdeTable, IsRow
  <2> HIDE DEF o
  <2> QED BY <1>1, <2>1, Zenon DEF HasRead, Known, Phases, Ends, FdeBody
<1>3. cur.field \notin DOMAIN CharOf /\ "range" \notin DOMAIN CharOf
  BY <1>2, Zenon DEF CharOf
<1>4. Encoded(d)
  BY <1>1, <1>2, <1>3, EncodingsKnown DEF Known
<1>5. ~NotApplicable /\ Resolved = d.initial_pc
  <2>1. Encoding = d.R
    BY <1>2, <1>4, Zenon DEF Encoding, Encoded
  <2>2. ~IsIndirect(d.R) /\ Expressible(d.R, d.initial_pc, PcBase(d))
    BY Zenon DEF Known, HasLayout, PcBase
  <2>3. /\ d.initial_pc \in Addr /\ d.R \in Byte /\ {0, TextBase, DataBase} \subseteq Addr
        /\ cur.start \in Nat /\ cur.start <= Size
    BY <1>2, WidthAssumption, StartInside DEF Known, PointersTyped, Addr, Shaped, MarkFields
  <2>4. PcBase(d) = Base(d.R, cur.start, TextBase, DataBase, 0)
    BY <1>2, Zenon DEF PcBase
  <2>5. PcBase(d) \in Addr
    BY <2>3, <2>4, BaseType DEF Shaped
  <2>6. ApplicationOf(d.R) \in 0 .. 4 => PointerBase[ApplicationOf(d.R)] = PcBase(d)
    BY <1>2, <2>4, BaseIs, Zenon
  <2> QED BY <1>2, <2>1, <2>2, <2>3, <2>5, <2>6, ResolvedIs
<1>6. Moved("range", o, cie, [fde EXCEPT !.initial_pc = d.initial_pc]) /\ cur'.end = d.at.fde_end
  BY <1>2, <1>5 DEF UseInitialPc, Proceed, Go, Goto, Moved, NewField
<1>7. fde'.initial_pc = d.initial_pc /\ FdeKeeps({"initial_pc"})
  BY <1>6, FdeChange, Zenon DEF Moved, FdeNames
<1>8. Gathered(d, k)'
  <2>1. cie' = cie /\ cur'.field = "range" /\ Phase["range"] = 18 /\ "range" \notin CieBody
    BY <1>6, Zenon DEF Moved, NewField, Known, Phases, CieBody
  <2>2. Chars(d, k, 18)' /\ Columns(d, 18)'
    BY <1>1, <1>2, <1>3, <2>1, CieKept
  <2>3. Function(d, 18)'
    BY <1>1, <1>2, <1>7 DEF Groups, Function, FdeKeeps
  <2> QED BY <1>6, <2>1, <2>2, <2>3, Zenon DEF Gathered, Groups, Ends
<1> QED BY <1>4, <1>6, <1>8, PointerTrack, Zenon DEF Present

\* The range of the function has the format of its start and no base.
LEMMA RangeTrack == Keeps(UseRange)
<1> SUFFICES ASSUME Shaped, NEW d \in Layouts, NEW k \in Nat, Known(d, k), Track(d, k), UseRange
             PROVE  OnTrack(d)
  BY Zenon DEF Keeps
<1> DEFINE g == IF d.aug # <<>> THEN "fde_aug_len" ELSE "fde_end"
           o == d.at.fde_aug
           e == [fde EXCEPT !.address_range = d.range]
<1>1. HasRead(d, k, "range") /\ Groups(d, k, Phase["range"]) /\ Ends(d)
  BY TrackRead, Zenon DEF UseRange
<1>2. /\ result = None /\ cur.field = "range" /\ Phase["range"] = 18
      /\ cur.end = d.at.fde_end /\ cur.pos = o /\ cur.val = d.range
  <2>1. RowOf(d, k, "range").to = o /\ RowOf(d, k, "range").word = d.range
    BY Zenon DEF Known, FdeTable, IsRow
  <2> QED BY <1>1, <2>1, Zenon DEF HasRead, Known, Phases, Ends, FdeBody
<1>3. cur.field \notin DOMAIN CharOf /\ (cie.has_z = "z" <=> d.aug # <<>>)
  BY <1>1, <1>2 DEF CharOf, Groups, Columns
<1>4. Encoded(d)
  BY <1>1, <1>2, <1>3, EncodingsKnown DEF Known
<1>5. Resolved = d.range
  <2>1. Encoding = FormatOf(d.R) /\ d.R \in Byte /\ d.range \in 0 .. MaxU /\ MaxU \in Nat
    BY <1>2, <1>4, Zenon DEF Encoding, Encoded, Addr, Known, PointersTyped, FdeTyped, Fits
  <2>2. \A x \in Byte : ApplicationOf(FormatOf(x)) = 0 /\ ~IsIndirect(FormatOf(x))
    BY DEF ApplicationOf, FormatOf, IsIndirect, Byte
  <2>3. PointerBase[0] = 0
    BY DEF PointerBase
  <2>4. Wrap(d.range + 0) = d.range
    BY <2>1 DEF Wrap
  <2>5. ApplicationOf(Encoding) = 0 /\ ~IsIndirect(Encoding)
    BY <2>1, <2>2, Zenon
  <2> QED BY <1>2, <2>3, <2>4, <2>5, Zenon DEF Resolved, Absent
<1>6. Go(Goto(g, o), cie, e)
  BY <1>2, <1>3, <1>5, Zenon DEF UseRange
<1>7. /\ g \in {"fde_aug_len", "fde_end"} /\ Phase[g] \in {19, 21}
      /\ Phase[g] = 21 => d.aug = <<>>
  <2>1. Phase["fde_aug_len"] = 19 /\ Phase["fde_end"] = 21
    BY Zenon DEF Known, Phases
  <2> QED BY <2>1
<1> HIDE DEF g, o, e
<1>8. Moved(g, o, cie, e) /\ cur'.end = d.at.fde_end
  BY <1>2, <1>6, Zenon DEF Go, Goto, Moved, NewField
<1>9. fde'.address_range = d.range /\ FdeKeeps({"address_range"})
  BY <1>8, FdeChange, Zenon DEF Moved, FdeNames, e
<1>10. Gathered(d, k)'
  <2>1. cie' = cie /\ cur'.field = g /\ g \notin CieBody /\ g \notin DOMAIN CharOf
    BY <1>7, <1>8, Zenon DEF Moved, NewField, CieBody, CharOf
  <2>2. Chars(d, k, Phase[g])' /\ Columns(d, Phase[g])'
    BY <1>1, <1>2, <1>3, <1>7, <2>1, CieKept
  <2>3. Function(d, Phase[g])'
    BY <1>1, <1>2, <1>4, <1>7, <1>9 DEF Groups, Function, FdeKeeps, Encoded
  <2> QED BY <1>8, <2>1, <2>2, <2>3, Zenon DEF Gathered, Groups, Ends
<1>11. CASE d.aug # <<>>
  <2>1. g \in Present(d) /\ g \notin Pointers /\ RowOf(d, k, g).at = o
    BY <1>11, Zenon DEF Present, Pointers, g, o, Known, FdeTable, IsRow
  <2> QED BY <1>8, <1>10, <2>1, PlainTrack, Zenon
<1>12. CASE d.aug = <<>>
  <2>1. d.at.fde_instr = o
    BY <1>12, Zenon DEF Known, HasLayout, o
  <2>2. g \in MarkFields /\ Marks(d, k)[g] = o
    BY <1>12, <2>1, Zenon DEF MarkFields, Marks, g
  <2> QED BY <1>8, <1>10, <2>2, MarkTrack, Zenon
<1> QED BY <1>11, <1>12, Zenon

\* The augmentation data of the FDE ends where its instructions begin.
LEMMA FdeAugLenTrack == Keeps(UseFdeAugLen)
<1> SUFFICES ASSUME Shaped, NEW d \in Layouts, NEW k \in Nat, Known(d, k), Track(d, k), UseFdeAugLen
             PROVE  OnTrack(d)
  BY Zenon DEF Keeps
<1> DEFINE g == IF d.L = OMIT THEN "fde_end" ELSE "lsda"
           o == IF d.L = OMIT THEN d.at.fde_instr ELSE d.at.lsda
           e == [fde EXCEPT !.aug_data_end = d.at.fde_instr]
<1>1. HasRead(d, k, "fde_aug_len") /\ Groups(d, k, Phase["fde_aug_len"]) /\ Ends(d)
  BY TrackRead, Zenon DEF UseFdeAugLen
<1>2. /\ result = None /\ cur.field = "fde_aug_len" /\ Phase["fde_aug_len"] = 19
      /\ cur.end = d.at.fde_end /\ cur.pos = d.at.lsda /\ cur.val = d.at.fde_instr - d.at.lsda
  <2>1. /\ RowOf(d, k, "fde_aug_len").to = d.at.lsda
        /\ RowOf(d, k, "fde_aug_len").word = d.at.fde_instr - d.at.lsda
    BY Zenon DEF Known, FdeTable, IsRow
  <2> QED BY <1>1, <2>1, Zenon DEF HasRead, Known, Phases, Ends, FdeBody
<1>3. cur.field \notin DOMAIN CharOf
  BY <1>2, Zenon DEF CharOf
<1>4. Encoded(d)
  BY <1>1, <1>2, <1>3, EncodingsKnown DEF Known
<1>5. /\ cur.pos + cur.val = d.at.fde_instr /\ ~(d.at.fde_instr > MaxU)
      /\ ~(d.at.fde_instr > cur.end)
  BY <1>2 DEF Known, Fits, FdeTyped
<1>6. Go(Goto(g, o), cie, e)
  <2>1. (IF cie.lsda_encoding = OMIT THEN Goto("fde_end", d.at.fde_instr)
         ELSE Goto("lsda", cur.pos)) = Goto(g, o)
    BY <1>2, <1>4, Zenon DEF Encoded
  <2> HIDE DEF g, o
  <2> QED BY <1>5, <2>1, Zenon DEF UseFdeAugLen, Proceed
<1>7. g \in {"lsda", "fde_end"} /\ Phase[g] \in {20, 21} /\ (Phase[g] = 21 => d.L = OMIT)
  <2>1. Phase["lsda"] = 20 /\ Phase["fde_end"] = 21
    BY Zenon DEF Known, Phases
  <2> QED BY <2>1
<1> HIDE DEF g, o, e
<1>8. Moved(g, o, cie, e) /\ cur'.end = d.at.fde_end
  BY <1>2, <1>6, Zenon DEF Go, Goto, Moved, NewField
<1>9. fde'.aug_data_end = d.at.fde_instr /\ FdeKeeps({"aug_data_end"})
  BY <1>8, FdeChange, Zenon DEF Moved, FdeNames, e
<1>10. Gathered(d, k)'
  <2>1. cie' = cie /\ cur'.field = g /\ g \notin CieBody /\ g \notin DOMAIN CharOf
    BY <1>7, <1>8, Zenon DEF Moved, NewField, CieBody, CharOf
  <2>2. Chars(d, k, Phase[g])' /\ Columns(d, Phase[g])'
    BY <1>1, <1>2, <1>3, <1>7, <2>1, CieKept
  <2>3. Function(d, Phase[g])'
    BY <1>1, <1>2, <1>7, <1>9 DEF Groups, Function, FdeKeeps
  <2> QED BY <1>8, <2>1, <2>2, <2>3, Zenon DEF Gathered, Groups, Ends
<1>11. CASE d.L # OMIT
  <2>1. g = "lsda" /\ g \in Present(d) /\ RowOf(d, k, g).at = o
    BY <1>11, Zenon DEF Present, g, o, Known, FdeTable, IsRow
  <2> QED BY <1>4, <1>8, <1>10, <2>1, PointerTrack
<1>12. CASE d.L = OMIT
  <2>1. g \in MarkFields /\ Marks(d, k)[g] = o
    BY <1>12, Zenon DEF MarkFields, Marks, g, o
  <2> QED BY <1>8, <1>10, <2>1, MarkTrack, Zenon
<1> QED BY <1>11, <1>12, Zenon

\* The language-specific data are where the layout says, before the end of the augmentation data.
LEMMA LsdaTrack == Keeps(UseLsda)
<1> SUFFICES ASSUME Shaped, NEW d \in Layouts, NEW k \in Nat, Known(d, k), Track(d, k), UseLsda
             PROVE  OnTrack(d)
  BY Zenon DEF Keeps
<1> DEFINE e == [fde EXCEPT !.lsda = d.lsda]
<1>1. HasRead(d, k, "lsda") /\ Groups(d, k, Phase["lsda"]) /\ Ends(d)
  BY TrackRead, Zenon DEF UseLsda
<1>2. /\ result = None /\ cur.field = "lsda" /\ Phase["lsda"] = 20 /\ "lsda" \in Present(d)
      /\ cur.end = d.at.fde_end /\ cur.pos = d.at.lsda_end /\ cur.start = d.at.lsda
      /\ cur.val = Difference(d.lsda, LsdaBase(d))
  <2>1. /\ RowOf(d, k, "lsda").at = d.at.lsda /\ RowOf(d, k, "lsda").to = d.at.lsda_end
        /\ RowOf(d, k, "lsda").word = Difference(d.lsda, LsdaBase(d))
    BY Zenon DEF Known, FdeTable, IsRow
  <2> QED BY <1>1, <2>1, Zenon DEF HasRead, Known, Phases, Ends, FdeBody, RowFields
<1>3. cur.field \notin DOMAIN CharOf /\ d.L # OMIT
  BY <1>2, Zenon DEF CharOf, Present
<1>4. Encoded(d)
  BY <1>1, <1>2, <1>3, EncodingsKnown DEF Known
<1>5. fde.initial_pc = d.initial_pc /\ fde.aug_data_end = d.at.fde_instr
  BY <1>1, <1>2 DEF Groups, Function
<1>6. ~NotApplicable /\ Resolved = d.lsda
  <2>1. Encoding = d.L
    BY <1>2, <1>4, Zenon DEF Encoding, Encoded
  <2>2. ~IsIndirect(d.L) /\ Expressible(d.L, d.lsda, LsdaBase(d))
    BY <1>3, Zenon DEF Known, HasLayout, LsdaBase
  <2>3. /\ d.lsda \in Addr /\ d.L \in Byte /\ {0, TextBase, DataBase, d.initial_pc} \subseteq Addr
        /\ cur.start \in Nat /\ cur.start <= Size
    BY <1>2, WidthAssumption, StartInside DEF Known, PointersTyped, Addr, Shaped, MarkFields
  <2>4. LsdaBase(d) = Base(d.L, cur.start, TextBase, DataBase, d.initial_pc)
    BY <1>2, Zenon DEF LsdaBase
  <2>5. LsdaBase(d) \in Addr
    BY <2>3, <2>4, BaseType DEF Shaped
  <2>6. ApplicationOf(d.L) \in 0 .. 4 => PointerBase[ApplicationOf(d.L)] = LsdaBase(d)
    BY <1>2, <1>5, <2>4, BaseIs
  <2> QED BY <1>2, <2>1, <2>2, <2>3, <2>5, <2>6, ResolvedIs
<1>7. ~(cur.pos > fde.aug_data_end)
  <2>1. d.at.lsda_end <= d.at.fde_instr
    BY <1>3, Zenon DEF Known, HasLayout
  <2> QED BY <1>2, <1>5, <2>1 DEF Known, FdeTyped
<1>8. Go(Goto("fde_end", d.at.fde_instr), cie, e)
  BY <1>5, <1>6, <1>7, Zenon DEF UseLsda, Proceed
<1> HIDE DEF e
<1>9. Moved("fde_end", d.at.fde_instr, cie, e) /\ cur'.end = d.at.fde_end
  BY <1>2, <1>8, Zenon DEF Go, Goto, Moved, NewField
<1>10. fde'.lsda = d.lsda /\ FdeKeeps({"lsda"})
  BY <1>9, FdeChange, Zenon DEF Moved, FdeNames, e
<1>11. Gathered(d, k)'
  <2>1. /\ cie' = cie /\ cur'.field = "fde_end" /\ Phase["fde_end"] = 21
        /\ "fde_end" \notin CieBody /\ "fde_end" \notin DOMAIN CharOf
    BY <1>9, Zenon DEF Moved, NewField, Known, Phases, CieBody, CharOf
  <2>2. Chars(d, k, 21)' /\ Columns(d, 21)'
    BY <1>1, <1>2, <1>3, <2>1, CieKept
  <2>3. Function(d, 21)'
    BY <1>1, <1>2, <1>3, <1>10 DEF Groups, Function, FdeKeeps
  <2> QED BY <1>9, <2>1, <2>2, <2>3 DEF Gathered, Groups, Ends
<1>12. "fde_end" \in MarkFields /\ Marks(d, k)["fde_end"] = d.at.fde_instr
  BY Zenon DEF MarkFields, Marks
<1> QED BY <1>9, <1>11, <1>12, MarkTrack, Zenon

\* The FDE ends where its length says, after its fields.
LEMMA FdeEndTrack == Keeps(FdeEnd)
<1> SUFFICES ASSUME Shaped, NEW d \in Layouts, NEW k \in Nat, Known(d, k), Track(d, k), FdeEnd
             PROVE  OnTrack(d)
  BY Zenon DEF Keeps
<1> DEFINE n == Wrap(d.at.fde_end - d.at.fde_instr)
           e == [fde EXCEPT !.instr_offset = d.at.fde_instr, !.instr_len = n]
<1>1. /\ result = None /\ cur.field = "fde_end" /\ Phase["fde_end"] = 21
      /\ cur.field \notin DOMAIN CharOf
  BY Zenon DEF FdeEnd, Reading, CharOf, Known, Phases
<1>2. Groups(d, k, 21) /\ cur.pos = d.at.fde_instr /\ cur.end = d.at.fde_end
  BY <1>1 DEF Track, Gathered, Spot, MarkFields, Marks, Ends, FdeBody
<1>3. ~(cur.end < cur.pos) /\ ~(cur.end > Size)
  BY <1>2 DEF Known, Fits, FdeTyped
<1>4. Go(Goto("details", d.at.fde_instr), cie, e)
  BY <1>2, <1>3, Zenon DEF FdeEnd, Overrun, Proceed, InstrLen
<1> HIDE DEF e, n
<1>5. Moved("details", d.at.fde_instr, cie, e)
  BY <1>1, <1>4, Zenon DEF Go, Goto, Moved, NewField
<1>6. /\ fde'.instr_offset = d.at.fde_instr /\ fde'.instr_len = n
      /\ FdeKeeps({"instr_offset", "instr_len"})
  BY <1>5, Zenon DEF Moved, FdeNames, FdeKeeps, Shaped, e
<1>7. Gathered(d, k)'
  <2>1. /\ cie' = cie /\ cur'.field = "details" /\ Phase["details"] = 22
        /\ "details" \notin CieBody \cup FdeBody /\ "details" \notin DOMAIN CharOf
    BY <1>5, Zenon DEF Moved, NewField, Known, Phases, CieBody, FdeBody, CharOf
  <2>2. Chars(d, k, 22)' /\ Columns(d, 22)'
    BY <1>1, <1>2, <2>1, CieKept
  <2>3. Function(d, 22)'
    BY <1>2, <1>6 DEF Groups, Function, FdeKeeps, n
  <2> QED BY <2>1, <2>2, <2>3, Zenon DEF Gathered, Groups, Ends
<1>8. "details" \in MarkFields /\ Marks(d, k)["details"] = d.at.fde_instr
  BY Zenon DEF MarkFields, Marks
<1> QED BY <1>5, <1>7, <1>8, MarkTrack, Zenon

-----------------------------------------------------------------------------
(* The details *)

\* The instructions of an entry are where the layout says, also by their address.
LEMMA Instructions ==
    ASSUME NEW s \in Nat, NEW e \in Nat, NEW d \in Layouts, Fits(d), s <= e, e <= Size
    PROVE  /\ Wrap(EhFrameAvma + s) = EhFrameAvma + s
           /\ Wrap(Wrap(EhFrameAvma + s) + Wrap(e - s)) = EhFrameAvma + e
<1>1. EhFrameAvma + s <= MaxU /\ EhFrameAvma + e <= MaxU
  BY DEF Fits
<1>2. EhFrameAvma \in Addr
  BY WidthAssumption, Zenon
<1> QED BY <1>1, <1>2, WrappedLength, Zenon

\* What is returned at the end is what the layout means.
LEMMA DetailsTrack ==
    ASSUME Shaped, NEW d \in Layouts, NEW k \in Nat, Known(d, k), Track(d, k), BuildDetails
    PROVE  result' = Meaning(input, d) /\ UNCHANGED <<input, cur, cie, fde>>
<1> DEFINE p == d.data[Len(d.aug) + 1]
           i == d.at.fde_instr
           ce == d.at.cie_end
           fe == d.at.fde_end
           end == d.initial_pc + d.range
<1>1. cur.field = "details" /\ Phase["details"] = 22 /\ cur.field \notin DOMAIN CharOf
  BY Zenon DEF BuildDetails, Reading, CharOf, Known, Phases
<1>2. Groups(d, k, 22)
  BY <1>1, Zenon DEF Track, Gathered
<1>3. /\ cie.fde_encoding = d.R /\ cie.lsda_encoding = d.L /\ cie.personality = d.handler
      /\ cie.signal_frame = IF AugHas(d, ChS) THEN "signal" ELSE "no"
  <2>1. Encoded(d)
    BY <1>1, <1>2, EncodingsKnown DEF Known
  <2> QED BY <2>1, Zenon DEF Encoded
<1>4. /\ fde.initial_pc = d.initial_pc /\ fde.address_range = d.range
      /\ fde.lsda = IF d.L = OMIT THEN 0 ELSE d.lsda
      /\ fde.instr_offset = i /\ fde.instr_len = Wrap(fe - i)
  BY <1>2 DEF Groups, Function
<1>5. /\ cie.code_align = d.code_align /\ cie.data_align = d.data_align
      /\ cie.ret_addr_column = d.ra /\ cie.has_z = IF d.aug = <<>> THEN "no" ELSE "z"
      /\ cie.instr_offset = p /\ cie.instr_len = Wrap(ce - p)
  BY <1>2 DEF Groups, Columns
<1>6. p \in Nat /\ p <= ce /\ ce \in Nat /\ ce <= Size
  <2>1. Len(d.aug) + 1 \in 1 .. Len(d.aug) + 1
    BY DEF Known, AugTyped
  <2> QED BY <2>1, Zenon DEF Known, AugTyped, HasLayout, Fits, CieTyped
<1>7. i \in Nat /\ i <= fe /\ fe \in Nat /\ fe <= Size /\ Fits(d)
  BY Zenon DEF Known, Fits, FdeTyped
<1>8. /\ Wrap(EhFrameAvma + p) = EhFrameAvma + p
      /\ Wrap(Wrap(EhFrameAvma + p) + Wrap(ce - p)) = EhFrameAvma + ce
      /\ Wrap(EhFrameAvma + i) = EhFrameAvma + i
      /\ Wrap(Wrap(EhFrameAvma + i) + Wrap(fe - i)) = EhFrameAvma + fe
  <2> HIDE DEF p, i, ce, fe
  <2> QED BY <1>6, <1>7, Instructions, Zenon
<1>9. [tag |-> "ok", start_ip |-> d.initial_pc, end_ip |-> end, lsda |-> fde.lsda,
       info |-> build_dwarf_cie_info] = Details(d)
  BY <1>3, <1>4, <1>5, <1>8, Zenon DEF build_dwarf_cie_info, Details
<1>10. end > MaxU \/ input.ip < d.initial_pc \/ input.ip >= end
         <=> ~(/\ input.ip \in d.initial_pc .. d.initial_pc + d.range - 1
               /\ d.initial_pc + d.range <= MaxU)
  <2>1. input.ip \in Addr
    BY InputsAssumption, Zenon DEF Shaped
  <2>2. d.initial_pc \in Nat /\ d.range \in Nat /\ MaxU \in Nat /\ input.ip \in Nat
    BY <2>1 DEF Addr, Known, FdeTyped, Fits
  <2> QED BY <2>2
<1>11. /\ UNCHANGED <<input, cur, cie, fde>>
       /\ result' = IF end > MaxU \/ input.ip < d.initial_pc \/ input.ip >= end
                    THEN [tag |-> "err", kind |-> "EhFrameHeaderLookupMiss"]
                    ELSE Details(d)
  BY <1>4, <1>9, Zenon DEF BuildDetails, Fail, Return, end_ip
<1> QED BY <1>10, <1>11, Zenon DEF Meaning

-----------------------------------------------------------------------------
(* Theorems *)

\* At the start nothing is known yet.
LEMMA InitExact == ASSUME Init, NEW d \in Layouts PROVE Exact(d)
<1>1. cur.field = "fde_offset" /\ cur.stage = "read" /\ cur.pos = 0 /\ result = None
  BY Zenon DEF Init, Start
<1>2. Phase["fde_offset"] = 0
  BY Zenon DEF Phase, Fields
<1>3. Chars(d, 0, 0)
  BY <1>1, AmongNext DEF Init, NoCie, Chars, CharOf, Seen
<1>4. Columns(d, 0) /\ Function(d, 0)
  BY DEF Init, NoCie, NoFde, Columns, Function
<1>5. Spot(d, 0) /\ Ends(d)
  BY <1>1 DEF Spot, RowFields, MarkFields, Marks, Ends, CieBody, FdeBody
<1>6. Track(d, 0)
  BY <1>1, <1>2, <1>3, <1>4, <1>5, Zenon DEF Track, Gathered, Groups
<1> QED BY <1>1, <1>6 DEF Exact

\* Every step of the parser stays on the layout.
LEMMA NextTrack ==
    ASSUME Shaped, NEW d \in Layouts, NEW k \in Nat, Known(d, k), Track(d, k), Next
    PROVE  OnTrack(d) \/ (result' = Meaning(input, d) /\ UNCHANGED <<input, cur, cie, fde>>)
<1>1. CASE Locate \/ Refuse \/ ReadFixed \/ ReadLeb128
  BY <1>1, LocateTrack, RefuseTrack, ReadTrack, Zenon DEF Keeps
<1>2. CASE ParseCie
  <2>1. ASSUME NEW f \in DOMAIN Target, StoreCieField(f) PROVE OnTrack(d)
    <3>1. f \in {"address_size", "code_align", "data_align"} \/ f \in {"R", "L", "P"}
      BY Zenon DEF Target
    <3> QED BY <2>1, <3>1, StoreTrack, EncodingTrack, Zenon DEF Keeps
  <2>2. ASSUME NEW f \in {"cie_length", "cie_length64"}, UseLength(f) PROVE OnTrack(d)
    BY <2>2, CieLengthTrack, Zenon DEF Keeps
  <2>3. ASSUME NEW f \in {"cie_id", "cie_id64"}, UseCieId(f) PROVE OnTrack(d)
    BY <2>3, CieIdTrack, Zenon DEF Keeps
  <2>4. ASSUME UseVersion \/ ScanAugmentation \/ UseSegmentSize \/ UseRetAddrColumn
        PROVE  OnTrack(d)
    BY <2>4, VersionTrack, ScanTrack, SegmentTrack, ColumnTrack, Zenon DEF Keeps
  <2>5. ASSUME UseCieAugLen \/ AugChar \/ UsePersonality \/ CieEnd PROVE OnTrack(d)
    BY <2>5, AugLenTrack, AugCharTrack, PersonalityTrack, CieEndTrack, Zenon DEF Keeps
  <2> QED BY <1>2, <2>1, <2>2, <2>3, <2>4, <2>5, Zenon DEF ParseCie
<1>3. CASE ParseFde
  <2>1. ASSUME NEW f \in {"fde_length", "fde_length64"}, UseLength(f) PROVE OnTrack(d)
    BY <2>1, FdeLengthTrack, Zenon DEF Keeps
  <2>2. ASSUME NEW f \in {"cie_ptr", "cie_ptr64"}, UseCiePtr(f) PROVE OnTrack(d)
    BY <2>2, CiePtrTrack, Zenon DEF Keeps
  <2>3. ASSUME UseInitialPc \/ UseRange \/ UseFdeAugLen \/ UseLsda \/ FdeEnd PROVE OnTrack(d)
    BY <2>3, InitialPcTrack, RangeTrack, FdeAugLenTrack, LsdaTrack, FdeEndTrack, Zenon DEF Keeps
  <2> QED BY <1>3, <2>1, <2>2, <2>3, Zenon DEF ParseFde
<1>4. CASE BuildDetails
  BY <1>4, DetailsTrack, Zenon
<1> QED BY <1>1, <1>2, <1>3, <1>4, Zenon DEF Next

\* What is known of a layout depends on the state of the parser alone.
LEMMA TrackStutters ==
    ASSUME NEW d, NEW k, Track(d, k), UNCHANGED <<input, cur, cie, fde>>
    PROVE  Track(d, k)'
<1>1. Gathered(d, k)'
  BY GatheredKept, Zenon DEF Track
<1>2. Format' = Format /\ Refusal' = Refusal
  BY FormatFixed, Zenon
<1>3. Spot(d, k)'
  BY <1>2, Zenon DEF Track, Spot, Stand, Placed, Inside
<1> QED BY <1>1, <1>3, Zenon DEF Track

\* So every step keeps the invariant.
LEMMA ExactKeeps == ASSUME Shaped, NEW d \in Layouts, Exact(d), [Next]_vars PROVE Exact(d)'
<1> SUFFICES ASSUME HasLayout(input, d)'
             PROVE  (\E k \in Nat : Track(d, k)') /\ result' \in {None, Meaning(input, d)'}
  BY Zenon DEF Exact
<1>1. input' = input
  BY StepShape, Zenon DEF SameShape
<1>2. HasLayout(input, d) /\ Meaning(input, d)' = Meaning(input, d)
  BY <1>1, Zenon DEF HasLayout, Meaning, AugHolds
<1>3. PICK k \in Nat : Track(d, k)
  BY <1>2, Zenon DEF Exact
<1>4. Known(d, k) /\ result \in {None, Meaning(input, d)}
  BY <1>2, LayoutKnown, Zenon DEF Shaped, Exact
<1>5. CASE UNCHANGED <<input, cur, cie, fde>> /\ result' \in {None, Meaning(input, d)}
  BY <1>2, <1>3, <1>5, TrackStutters, Zenon
<1>6. CASE OnTrack(d)
  BY <1>6, Zenon DEF OnTrack
<1>7. CASE UNCHANGED vars
  BY <1>4, <1>5, <1>7, Zenon DEF vars
<1>8. CASE Next
  <2>1. OnTrack(d) \/ (result' = Meaning(input, d) /\ UNCHANGED <<input, cur, cie, fde>>)
    BY <1>3, <1>4, <1>8, NextTrack, Zenon
  <2> QED BY <1>5, <1>6, <2>1, Zenon
<1> QED BY <1>7, <1>8, Zenon

\* The parser returns what the layout of its section means: LayoutExact holds throughout.
THEOREM ParserExact == Spec => []LayoutExact
<1> DEFINE Inv == Shaped /\ \A d \in Layouts : Exact(d)
<1>1. Init => Inv
  BY InitExact, Zenon DEF Init, Shaped, NoCie, NoFde, CieNames, FdeNames
<1>2. Inv /\ [Next]_vars => Inv'
  <2> SUFFICES ASSUME Inv, [Next]_vars PROVE Inv'
    BY Zenon
  <2>1. Shaped'
    BY StepShape, Zenon DEF Shaped, SameShape
  <2>2. ASSUME NEW d \in Layouts PROVE Exact(d)'
    BY ExactKeeps, Zenon
  <2> QED BY <2>1, <2>2, Zenon
<1>3. Inv => LayoutExact
  BY Zenon DEF Exact, LayoutExact
<1> QED BY <1>1, <1>2, <1>3, PTL DEF Spec

\* Whatever is returned for such a call is what was expected.
LEMMA DescribedResult == LayoutExact /\ Described => result = None \/ result = input.meant
BY Zenon DEF LayoutExact, Described

\* The details that are returned for a section with a layout are those it describes.
THEOREM DescribedDetails == Spec => [](Described => DetailsExact)
<1>1. LayoutExact => (Described => DetailsExact)
  BY DescribedResult, Zenon DEF DetailsExact, Accepted
<1> QED BY <1>1, ParserExact, PTL

\* A section with a layout only fails to give details for an address that its FDE does
\* not cover.
THEOREM DescribedFailures == Spec => [](Described => FailurePrecise)
<1>1. LayoutExact => (Described => FailurePrecise)
  BY DescribedResult, Zenon DEF FailurePrecise, Failed
<1> QED BY <1>1, ParserExact, PTL
=============================================================================
