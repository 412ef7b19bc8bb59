---------------------------- MODULE ModuleProofs ----------------------------
(***************************************************************************)
(* Proofs about how a profiled module is built, searched and registered:   *)
(*   - EhFrameTable, for every header and looked-up address;               *)
(*   - ModuleLoad, for all sections, load addresses and widths of an       *)
(*     address: mirrors stay within their bytes, an image is moved as one  *)
(*     piece, and strict construction is complete construction;            *)
(*   - ModuleSet, for any set of unwinders and modules and any layout of   *)
(*     the address space.                                                  *)
(***************************************************************************)
EXTENDS EhFrameTable, ModuleLoad, ModuleSet, WellFoundedInduction, TLAPS

-----------------------------------------------------------------------------
(***************************************************************************)
(* The table of .eh_frame_hdr (EhFrameTable)                               *)
(***************************************************************************)

\* The range of a remainder.
LEMMA ModRange ==
    ASSUME NEW a \in Int, NEW b \in Nat, b > 0
    PROVE  a % b \in 0 .. b - 1
OBVIOUS

\* Entry addresses are u64 values, for every slot a header can hold.
LEMMA EntryPcType ==
    ASSUME hdr \in Headers, NEW i \in 0 .. MaxEntries - 1
    PROVE  entry_pc(i) \in 0 .. MaxU
<1>1. SegBase + hdr.offs[i] \in Int /\ MaxU + 1 \in Nat /\ MaxU + 1 > 0
  BY HeadersAssumption
<1>2. (SegBase + hdr.offs[i]) % (MaxU + 1) \in 0 .. (MaxU + 1) - 1
  BY <1>1, ModRange, Zenon
<1> QED BY <1>2, HeadersAssumption DEF entry_pc

\* The sizes the parser adds up.
LEMMA SizesAreNat ==
    /\ \A e : enc_size(e) \in Nat \cup {None}
    /\ \A a, e : read_size(a, e) \in Nat \cup {None}
BY Zenon DEF enc_size, read_size

\* If the saturated end of the table is at most a length below u64::MAX, no
\* saturation happened.
LEMMA NeedExact ==
    ASSUME NEW off \in Nat, NEW n \in Nat, NEW len \in Nat,
           len < MaxU, TableNeed(off, n) <= len
    PROVE  off + EntrySize * n <= len
BY HeadersAssumption DEF TableNeed, SatAdd, SatMul, EntrySize

\* A header that passes every check has its table inside its bytes.
LEMMA ParseAccepts ==
    ASSUME NEW h \in Headers, parse_error(h) = None
    PROVE  /\ TableOffset(h) \in Nat
           /\ read_unsigned(h.count) \in Nat
           /\ TableOffset(h) + EntrySize * read_unsigned(h.count) <= h.len
           /\ read_unsigned(h.count) <= MaxEntries
<1>1. /\ enc_size(h.ptr_enc) # None
      /\ read_size(h.len - CountOffset(h), h.count_enc) # None
      /\ ~(TableNeed(TableOffset(h), read_unsigned(h.count)) > h.len)
  BY HeadersNoneAssumption, Zenon DEF parse_error, EhFrameHdrErrors
<1>2. enc_size(h.ptr_enc) \in Nat
      /\ read_size(h.len - CountOffset(h), h.count_enc) \in Nat
  BY <1>1, SizesAreNat, Zenon
<1>3. TableOffset(h) \in Nat
  BY <1>2 DEF TableOffset, CountOffset
<1>4. read_unsigned(h.count) \in Nat
  <2>1. h.count \in Int /\ MaxU + 1 \in Nat /\ MaxU + 1 > 0
    BY HeadersAssumption
  <2>2. h.count % (MaxU + 1) \in 0 .. (MaxU + 1) - 1
    BY <2>1, ModRange, Zenon
  <2> QED BY <2>1, <2>2 DEF read_unsigned
<1>5. h.len \in Nat /\ h.len < MaxU /\ MaxU \in Nat
      /\ h.len <= EntrySize * MaxEntries /\ MaxEntries \in Nat
  BY HeadersAssumption
<1>6. TableNeed(TableOffset(h), read_unsigned(h.count)) <= h.len
  BY <1>1, <1>3, <1>4, <1>5 DEF TableNeed, SatAdd, SatMul, EntrySize
<1>7. TableOffset(h) + EntrySize * read_unsigned(h.count) <= h.len
  BY <1>3, <1>4, <1>5, <1>6, NeedExact, Zenon
<1> QED BY <1>3, <1>4, <1>5, <1>7 DEF EntrySize

-----------------------------------------------------------------------------
\* What the search knows: everything it has discarded below starts at or below
\* the address, everything above starts above it.
Bracket ==
    phase = "search" =>
        /\ lo < hi
        /\ hi <= table.n
        /\ lo # 0 => entry_pc(lo) <= ip
        /\ hi # table.n => entry_pc(hi) > ip

\* What it leaves behind: the entry it found and the next one bracket the
\* address.
Found ==
    phase = "done" =>
        \/ result = None /\ table.n = 0
        \/ result = None /\ table.n # 0 /\ entry_pc(0) > ip
        \/ /\ result \in 0 .. table.n - 1
           /\ entry_pc(result) <= ip
           /\ result + 1 # table.n => entry_pc(result + 1) > ip

TableInv == TableTypeOK /\ AcceptedTableInBounds /\ Bracket /\ Found

\* The inductive invariant holds initially.
LEMMA TableInvInit == TableInit => TableInv
BY HeadersAssumption
   DEF TableInit, TableInv, TableTypeOK, AcceptedTableInBounds, Bracket, Found, EmptyTable

\* Every step of the parser and of the search preserves it.
LEMMA TableInvStep == TableInv /\ [TableNext]_table_vars => TableInv'
<1> SUFFICES ASSUME TableInv, [TableNext]_table_vars PROVE TableInv'
  BY Zenon
<1> USE DEF TableInv
<1>1. CASE ParseOk
  <2>1. /\ table' = [off |-> TableOffset(hdr), n |-> read_unsigned(hdr.count)]
        /\ phase' = "ready" /\ UNCHANGED <<hdr, hdr_error, ip, lo, hi, result>>
    BY <1>1, Zenon DEF ParseOk
  <2>2. hdr \in Headers /\ parse_error(hdr) = None
    BY <1>1, Zenon DEF ParseOk, TableTypeOK
  <2> QED BY <2>1, <2>2, ParseAccepts
         , Zenon DEF TableTypeOK, AcceptedTableInBounds, Bracket, Found
<1>2. CASE ParseFail
  <2>1. parse_error(hdr) \in EhFrameHdrErrors \cup {None}
    BY Zenon DEF parse_error, EhFrameHdrErrors
  <2>2. /\ hdr_error' = parse_error(hdr) /\ phase' = "rejected"
        /\ UNCHANGED <<hdr, table, ip, lo, hi, result>>
    BY <1>2, Zenon DEF ParseFail
  <2> QED BY <2>1, <2>2, Zenon DEF TableTypeOK, AcceptedTableInBounds, Bracket, Found
<1>3. ASSUME NEW a \in Ips, LookupEmpty(a) PROVE TableInv'
  BY <1>3, HeadersAssumption
     DEF LookupEmpty, TableTypeOK, AcceptedTableInBounds, Bracket, Found
<1>4. ASSUME NEW a \in Ips, LookupStart(a) PROVE TableInv'
  BY <1>4, HeadersAssumption
     DEF LookupStart, TableTypeOK, AcceptedTableInBounds, Bracket, Found
<1>5. CASE Bisect
  <2> DEFINE mid == lo + ((hi - lo) \div 2)
  <2>1. /\ lo \in Nat /\ hi \in Nat /\ lo + 1 < hi /\ phase = "search"
        /\ hi <= table.n /\ table.n \in Nat /\ table.n <= MaxEntries
        /\ UNCHANGED <<hdr, phase, hdr_error, table, ip, result>>
    BY <1>5, Zenon DEF Bisect, TableTypeOK, AcceptedTableInBounds, Bracket
  <2>2. mid \in Nat /\ lo < mid /\ mid < hi
    BY <2>1
  <2>3. entry_pc(lo)' = entry_pc(lo') /\ entry_pc(hi)' = entry_pc(hi')
    BY <2>1, Zenon DEF entry_pc
  <2>4. \/ entry_pc(mid) <= ip /\ lo' = mid /\ hi' = hi
        \/ entry_pc(mid) > ip /\ hi' = mid /\ lo' = lo
    BY <1>5, Zenon DEF Bisect
  <2> HIDE DEF mid
  <2>5. Bracket'
    BY <2>1, <2>2, <2>3, <2>4 DEF Bracket
  <2>6. TableTypeOK' /\ AcceptedTableInBounds' /\ Found'
    BY <2>1, <2>2, <2>4, Zenon DEF TableTypeOK, AcceptedTableInBounds, Found
  <2> QED BY <2>5, <2>6, Zenon
<1>6. CASE LookupEnd
  <2>1. /\ lo \in Nat /\ hi \in Nat /\ ~(lo + 1 < hi) /\ lo < hi
        /\ hi <= table.n /\ table.n \in Nat /\ table.n <= MaxEntries
        /\ hdr \in Headers /\ ip \in 0 .. MaxU /\ MaxU \in Nat
        /\ lo # 0 => entry_pc(lo) <= ip
        /\ hi # table.n => entry_pc(hi) > ip
        /\ phase' = "done" /\ UNCHANGED <<hdr, hdr_error, table, ip, lo, hi>>
        /\ result' = IF entry_pc(lo) > ip THEN None ELSE lo
    BY <1>6, HeadersAssumption
      , Zenon DEF LookupEnd, TableTypeOK, AcceptedTableInBounds, Bracket
  <2>2. hi = lo + 1 /\ lo \in 0 .. MaxEntries - 1
    BY <2>1, HeadersAssumption
  <2>3. entry_pc(lo) \in 0 .. MaxU
    BY <2>1, <2>2, EntryPcType, Zenon
  <2>5. Found'
    <3>1. CASE entry_pc(lo) > ip
      <4>1. lo = 0 /\ result' = None
        BY <3>1, <2>1, <2>3
      <4>2. entry_pc(0)' = entry_pc(0)
        BY <2>1, Zenon DEF entry_pc
      <4> QED BY <3>1, <4>1, <4>2, <2>1, Zenon DEF Found
    <3>2. CASE ~(entry_pc(lo) > ip)
      <4>1. result' = lo /\ entry_pc(lo) <= ip
        BY <3>2, <2>1, <2>3
      <4>2. entry_pc(result)' = entry_pc(lo)
            /\ entry_pc(result + 1)' = entry_pc(hi)
        BY <4>1, <2>1, <2>2, Zenon DEF entry_pc
      <4> QED BY <4>1, <4>2, <2>1, <2>2 DEF Found
    <3> QED BY <3>1, <3>2, Zenon
  <2>6. result' \in Nat \cup {None}
    BY <2>1, Zenon
  <2>7. TableTypeOK' /\ AcceptedTableInBounds' /\ Bracket'
    BY <2>1, <2>6, <1>6, Zenon DEF LookupEnd, TableTypeOK, AcceptedTableInBounds, Bracket
  <2> QED BY <2>5, <2>7, Zenon
<1>7. CASE UNCHANGED table_vars
  BY <1>7 DEF table_vars, TableTypeOK, AcceptedTableInBounds, Bracket, Found, entry_pc
<1> QED BY <1>1, <1>2, <1>3, <1>4, <1>5, <1>6, <1>7, Zenon DEF TableNext

\* The inductive invariant holds in every reachable state.
THEOREM TableInvariance == TableSpec => []TableInv
<1>1. TableInit => TableInv
  BY TableInvInit, Zenon
<1>2. TableInv /\ [TableNext]_table_vars => TableInv'
  BY TableInvStep, Zenon
<1> QED BY <1>1, <1>2, PTL DEF TableSpec

\* The parser and the search keep the types of the reader's state.
THEOREM TableTypeCorrect == TableSpec => []TableTypeOK
<1>1. TableInv => TableTypeOK
  BY Zenon DEF TableInv
<1> QED BY <1>1, TableInvariance, PTL

\* parse never accepts a table that reaches outside the header's bytes,
\* whatever the header's length, encodings and count.
THEOREM AcceptedInBounds == TableSpec => []AcceptedTableInBounds
<1>1. TableInv => AcceptedTableInBounds
  BY Zenon DEF TableInv
<1> QED BY <1>1, TableInvariance, PTL

\* lookup reads only entries of the table, sorted or not.
THEOREM SearchStaysInBounds == TableSpec => []SearchInBounds
<1>1. TableInv => SearchInBounds
  BY Zenon DEF TableInv, Bracket, SearchInBounds
<1> QED BY <1>1, TableInvariance, PTL

\* In a sorted table, lookup returns the last entry at or below the address.
THEOREM LookupIsExact == TableSpec => []LookupExact
<1>1. TableInv => LookupExact
  <2> SUFFICES ASSUME TableInv, phase = "done", Sorted PROVE LookupExact
    BY Zenon DEF LookupExact
  <2>1. /\ hdr \in Headers /\ table.n \in Nat /\ table.n <= MaxEntries
        /\ MaxEntries \in Nat /\ MaxU \in Nat /\ ip \in 0 .. MaxU
    BY HeadersAssumption, Zenon DEF TableInv, TableTypeOK, AcceptedTableInBounds
  <2>2. \A i \in 0 .. table.n - 1 : entry_pc(i) \in 0 .. MaxU
    BY <2>1, EntryPcType
  <2>3. CASE result = None /\ table.n = 0
    BY <2>3 DEF LookupExact
  <2>4. CASE result = None /\ table.n # 0 /\ entry_pc(0) > ip
    <3>1. ASSUME NEW i \in 0 .. table.n - 1 PROVE entry_pc(i) > ip
      BY <2>1, <2>2, <2>4 DEF Sorted
    <3> QED BY <2>4, <3>1, Zenon DEF LookupExact
  <2>5. CASE /\ result \in 0 .. table.n - 1
             /\ entry_pc(result) <= ip
             /\ result + 1 # table.n => entry_pc(result + 1) > ip
    <3>1. ASSUME NEW i \in 0 .. table.n - 1, entry_pc(i) <= ip
          PROVE  i <= result
      <4>1. SUFFICES ASSUME i > result PROVE FALSE
        BY <2>1, <2>5
      <4>2. result + 1 \in 0 .. table.n - 1 /\ result + 1 <= i
        BY <4>1, <2>1, <2>5
      <4>3. entry_pc(result + 1) <= entry_pc(i)
        BY <4>2, <2>2 DEF Sorted
      <4>4. entry_pc(result + 1) > ip
        BY <4>2, <2>1, <2>5
      <4> QED BY <4>2, <4>3, <4>4, <3>1, <2>1, <2>2
    <3>2. result # None
      BY <2>5, HeadersNoneAssumption
    <3> QED BY <2>1, <2>5, <3>1, <3>2 DEF LookupExact
  <2> QED BY <2>3, <2>4, <2>5, Zenon DEF TableInv, Found
<1> QED BY <1>1, TableInvariance, PTL

\* The measure of the search: an iteration shrinks the interval.
SearchShrinks == [][Bisect => hi' - lo' < hi - lo]_table_vars

\* Each iteration of the search shrinks its interval, so that it ends after at
\* most entry_count iterations.
THEOREM SearchProgress == TableSpec => SearchShrinks
<1>1. TableInv /\ [TableNext]_table_vars => [Bisect => hi' - lo' < hi - lo]_table_vars
  <2> SUFFICES ASSUME TableInv, Bisect PROVE hi' - lo' < hi - lo
    BY Zenon
  <2>1. lo \in Nat /\ hi \in Nat /\ lo + 1 < hi
    BY Zenon DEF TableInv, TableTypeOK, Bisect
  <2>2. \/ lo' = lo + ((hi - lo) \div 2) /\ hi' = hi
        \/ hi' = lo + ((hi - lo) \div 2) /\ lo' = lo
    BY Zenon DEF Bisect
  <2> QED BY <2>1, <2>2
<1> QED BY <1>1, TableInvariance, PTL DEF TableSpec, SearchShrinks

-----------------------------------------------------------------------------
(***************************************************************************)
(* Building a module (ModuleLoad)                                          *)
(***************************************************************************)

\* The remainder of numbers at most one period away.
LEMMA ModNear ==
    ASSUME NEW a \in Int, NEW b \in Nat, b > 0
    PROVE  /\ a \in 0 .. b - 1 => a % b = a
           /\ a \in b .. 2 * b - 1 => a % b = a - b
           /\ a \in -b .. -1 => a % b = a + b
OBVIOUS

\* A module is what from_parts makes of its parts, and a strict constructor
\* gives one exactly if validation has nothing to say.
LoadInv ==
    /\ module # None => parts \in ModuleParts /\ module = from_parts(parts)
    /\ strict = "strict" =>
         parts \in Parts /\ (module # None <=> validate_module_parts(parts) = None)
    /\ parts = None => strict # "strict" /\ module = None

-----------------------------------------------------------------------------
(* Words *)

\* Wrapping sums and differences, case by case.
LEMMA WrapCases ==
    ASSUME NEW a \in Addr, NEW b \in Addr
    PROVE  /\ WrapAdd(a, b) = IF a + b > MaxU THEN a + b - (MaxU + 1) ELSE a + b
           /\ WrapSub(a, b) = IF a < b THEN a - b + (MaxU + 1) ELSE a - b
           /\ WrapAdd(a, b) \in Addr /\ WrapSub(a, b) \in Addr
<1>1. MaxU \in Nat /\ a \in Nat /\ b \in Nat /\ a <= MaxU /\ b <= MaxU
  BY PartsAssumption DEF Addr
<1>2. WrapAdd(a, b) = IF a + b > MaxU THEN a + b - (MaxU + 1) ELSE a + b
  <2>1. /\ a + b \in 0 .. (MaxU + 1) - 1 => (a + b) % (MaxU + 1) = a + b
        /\ a + b \in (MaxU + 1) .. 2 * (MaxU + 1) - 1
             => (a + b) % (MaxU + 1) = a + b - (MaxU + 1)
    BY <1>1, ModNear
  <2> QED BY <1>1, <2>1 DEF WrapAdd
<1>3. WrapSub(a, b) = IF a < b THEN a - b + (MaxU + 1) ELSE a - b
  <2>1. /\ a - b \in 0 .. (MaxU + 1) - 1 => (a - b) % (MaxU + 1) = a - b
        /\ a - b \in -(MaxU + 1) .. -1 => (a - b) % (MaxU + 1) = a - b + (MaxU + 1)
    BY <1>1, ModNear
  <2> QED BY <1>1, <2>1 DEF WrapSub
<1> QED BY <1>1, <1>2, <1>3 DEF Addr

\* A moved address is as far from the load address as it was from the base.
LEMMA Moved ==
    ASSUME NEW a \in Addr, NEW avma \in Addr, NEW svma \in Addr
    PROVE  WrapSub(WrapAdd(a, WrapSub(avma, svma)), avma) = WrapSub(a, svma)
<1> DEFINE slide == WrapSub(avma, svma)
           moved == WrapAdd(a, slide)
<1>1. slide \in Addr /\ slide = IF avma < svma THEN avma - svma + (MaxU + 1) ELSE avma - svma
  BY WrapCases, Zenon
<1>2. moved \in Addr /\ moved = IF a + slide > MaxU THEN a + slide - (MaxU + 1) ELSE a + slide
  BY <1>1, WrapCases, Zenon
<1>3. WrapSub(moved, avma) = IF moved < avma THEN moved - avma + (MaxU + 1) ELSE moved - avma
  BY <1>2, WrapCases, Zenon
<1>4. WrapSub(a, svma) = IF a < svma THEN a - svma + (MaxU + 1) ELSE a - svma
  BY WrapCases, Zenon
<1>5. /\ MaxU \in Nat /\ a \in 0 .. MaxU /\ avma \in 0 .. MaxU /\ svma \in 0 .. MaxU
      /\ slide \in 0 .. MaxU /\ moved \in 0 .. MaxU
  BY <1>1, <1>2, PartsAssumption, Zenon DEF Addr
<1> HIDE DEF slide, moved
<1>6. WrapSub(moved, avma) = WrapSub(a, svma)
  BY <1>1, <1>2, <1>3, <1>4, <1>5
<1> QED BY <1>6, Zenon DEF slide, moved

-----------------------------------------------------------------------------
(* The constructors *)

\* The sections of a module: those whose bytes and address are there.
LEMMA Sections ==
    ASSUME NEW p \in ModuleParts
    PROVE  LET s == from_parts(p).local_sections IN
           /\ Len(s) = 2 <=> HasHdr(p) /\ HasFrame(p)
           /\ \A i \in DOMAIN s : \/ HasHdr(p) /\ s[i] = HdrSection(p)
                                  \/ HasFrame(p) /\ s[i] = FrameSection(p)
<1>1. CASE HasHdr(p) /\ HasFrame(p)
  <2>1. from_parts(p).local_sections = <<HdrSection(p)>> \o <<FrameSection(p)>>
    BY <1>1, Zenon DEF from_parts
  <2> QED BY <1>1, <2>1
<1>2. CASE HasHdr(p) /\ ~HasFrame(p)
  <2>1. from_parts(p).local_sections = <<HdrSection(p)>>
    BY <1>2 DEF from_parts
  <2> QED BY <1>2, <2>1
<1>3. CASE ~HasHdr(p) /\ HasFrame(p)
  <2>1. from_parts(p).local_sections = <<FrameSection(p)>>
    BY <1>3 DEF from_parts
  <2> QED BY <1>3, <2>1
<1>4. CASE ~HasHdr(p) /\ ~HasFrame(p)
  <2>1. from_parts(p).local_sections = <<>>
    BY <1>4 DEF from_parts
  <2> QED BY <1>4, <2>1
<1> QED BY <1>1, <1>2, <1>3, <1>4, Zenon

\* A mirror is not longer than its bytes.
LEMMA SectionWithinBytes ==
    ASSUME NEW p \in ModuleParts, NEW svma \in Range, NEW bytes, bytes.len \in Nat
    PROVE  LET s == LocalSection(p, svma, bytes) IN
           s.avma_end >= s.avma_start /\ s.avma_end - s.avma_start <= s.bytes.len
<1> DEFINE avma == WrapAdd(svma.start, Slide(p))
<1>1. Slide(p) \in Addr
  BY WrapCases, Zenon DEF ModuleParts, Slide
<1>2. avma \in Addr
  BY <1>1, WrapCases, Zenon DEF Range
<1> HIDE DEF avma
<1>3. /\ SatAdd(avma, bytes.len) >= avma
      /\ SatAdd(avma, bytes.len) - avma <= bytes.len
  BY <1>2, PartsAssumption DEF SatAdd, Addr
<1> QED BY <1>3, Zenon DEF LocalSection, avma

\* fallback_only passes parts without sections.
LEMMA NoSectionsType ==
    ASSUME NEW p \in ModuleParts PROVE NoSections(p) \in ModuleParts
BY Zenon DEF NoSections, ModuleParts

\* The invariant holds before a constructor is called.
LEMMA LoadInvInit == LoadInit => LoadInv
BY Zenon DEF LoadInit, LoadInv

\* Every constructor and every call of unwind_frame keeps it.
LEMMA LoadInvStep == LoadInv /\ [LoadNext]_load_vars => LoadInv'
<1> SUFFICES ASSUME LoadInv, [LoadNext]_load_vars PROVE LoadInv'
  BY Zenon
<1> USE DEF LoadInv
<1>1. ASSUME NEW p \in Parts, New(p) PROVE LoadInv'
  BY <1>1, PartsAssumption, PartsNoneAssumption, Zenon DEF New
<1>2. ASSUME NEW p \in Parts, TryFrom(p) PROVE LoadInv'
  <2>1. /\ p \in ModuleParts /\ p # None /\ from_parts(p) # None /\ parts' = p
        /\ module = None
    BY <1>2, PartsAssumption, PartsNoneAssumption, Zenon DEF TryFrom
  <2>2. CASE validate_module_parts(p) = None
    BY <1>2, <2>1, <2>2, Zenon DEF TryFrom
  <2>3. CASE validate_module_parts(p) # None
    BY <1>2, <2>1, <2>3, Zenon DEF TryFrom
  <2> QED BY <2>2, <2>3, Zenon
<1>3. ASSUME NEW p \in Parts, FallbackOnly(p) PROVE LoadInv'
  <2>1. NoSections(p) \in ModuleParts
    BY NoSectionsType, PartsAssumption, Zenon
  <2> QED BY <1>3, <2>1, PartsNoneAssumption, Zenon DEF FallbackOnly
<1>4. ASSUME NEW a \in Frames, UnwindFrame(a) PROVE LoadInv'
  BY <1>4, Zenon DEF UnwindFrame
<1>5. CASE UNCHANGED load_vars
  BY <1>5, Zenon DEF load_vars
<1> QED BY <1>1, <1>2, <1>3, <1>4, <1>5, Zenon DEF LoadNext

\* A module is always what from_parts makes of its parts.
LEMMA LoadInvariance == LoadSpec => []LoadInv
<1>1. LoadInit => LoadInv BY LoadInvInit, Zenon
<1>2. LoadInv /\ [LoadNext]_load_vars => LoadInv' BY LoadInvStep, Zenon
<1> QED BY <1>1, <1>2, PTL DEF LoadSpec

-----------------------------------------------------------------------------
(* The results *)

\* access_mem never serves an address behind the bytes of a mirror.
THEOREM MirrorsWithinBytes == LoadSpec => []MirrorWithinBytes
<1>1. LoadInv => MirrorWithinBytes
  <2> SUFFICES ASSUME LoadInv, module # None, NEW i \in DOMAIN module.local_sections
               PROVE  LET s == module.local_sections[i] IN
                      s.avma_end >= s.avma_start /\ s.avma_end - s.avma_start <= s.bytes.len
    BY Zenon DEF MirrorWithinBytes
  <2> DEFINE s == module.local_sections[i]
  <2>1. parts \in ModuleParts /\ module = from_parts(parts)
    BY Zenon DEF LoadInv
  <2>2. \/ HasHdr(parts) /\ s = HdrSection(parts)
        \/ HasFrame(parts) /\ s = FrameSection(parts)
    BY <2>1, Sections, Zenon
  <2>3. HasHdr(parts) => parts.eh_frame_hdr_svma \in Range /\ parts.eh_frame_hdr.len \in Nat
    BY <2>1, Zenon DEF HasHdr, ModuleParts
  <2>4. HasFrame(parts) => parts.eh_frame_svma \in Range /\ parts.eh_frame.len \in Nat
    BY <2>1, Zenon DEF HasFrame, ModuleParts
  <2> QED BY <2>1, <2>2, <2>3, <2>4, SectionWithinBytes, Zenon DEF HdrSection, FrameSection
<1> QED BY <1>1, LoadInvariance, PTL

\* from_parts applies one slide, modulo 2^64, to every address of the file.
THEOREM ImageMovesAsOnePiece == LoadSpec => []MovedAsOnePiece
<1>1. LoadInv => MovedAsOnePiece
  <2> SUFFICES ASSUME LoadInv, module # None PROVE MovedAsOnePiece
    BY Zenon DEF MovedAsOnePiece
  <2>1. /\ parts \in ModuleParts /\ module = from_parts(parts)
        /\ parts.base_avma \in Addr /\ parts.base_svma \in Addr
    BY Zenon DEF LoadInv, ModuleParts
  <2>2. \A a \in Addr : WrapSub(WrapAdd(a, Slide(parts)), parts.base_avma)
                          = WrapSub(a, parts.base_svma)
    BY <2>1, Moved DEF Slide
  <2>3. HasHdr(parts) => /\ parts.eh_frame_hdr_svma.start \in Addr
                         /\ module.data_base
                              = WrapAdd(parts.eh_frame_hdr_svma.start, Slide(parts))
    BY <2>1, Zenon DEF HasHdr, ModuleParts, Range, from_parts, HdrSection, LocalSection
  <2>4. HasFrame(parts) => /\ parts.eh_frame_svma.start \in Addr
                           /\ module.eh_frame_avma
                                = WrapAdd(parts.eh_frame_svma.start, Slide(parts))
    BY <2>1, Zenon DEF HasFrame, ModuleParts, Range, from_parts, FrameSection, LocalSection
  <2>5. parts.text_svma # None => /\ parts.text_svma.start \in Addr
                                  /\ module.text_base
                                       = WrapAdd(parts.text_svma.start, Slide(parts))
    BY <2>1, Zenon DEF ModuleParts, Range, from_parts
  <2> QED BY <2>2, <2>3, <2>4, <2>5, Zenon DEF MovedAsOnePiece
<1> QED BY <1>1, LoadInvariance, PTL

\* validate_module_parts accepts exactly the parts that from_parts makes a
\* complete module of.
THEOREM StrictMeansComplete == LoadSpec => []StrictIsComplete
<1>1. LoadInv => StrictIsComplete
  <2> SUFFICES ASSUME LoadInv, strict = "strict" PROVE StrictIsComplete
    BY Zenon DEF StrictIsComplete
  <2>1. /\ parts \in ModuleParts
        /\ module # None <=> validate_module_parts(parts) = None
    BY PartsAssumption, Zenon DEF LoadInv
  <2>2. validate_module_parts(parts) = None
          <=> /\ ~(parts.avma_range.start >= parts.avma_range.end)
              /\ HasHdr(parts) /\ HasFrame(parts)
              /\ parts.eh_frame_hdr.error = None
    <3>1. /\ "EmptyAvmaRange" # None /\ "MissingEhFrameSvma" # None
          /\ "MissingEhFrame" # None /\ "MissingEhFrameHdrSvma" # None
          /\ "MissingEhFrameHdr" # None /\ "InvalidEhFrameHdr" # None
      BY PartsNoneAssumption, Zenon DEF ModuleErrors
    <3> QED BY <3>1, Zenon DEF validate_module_parts, HasHdr, HasFrame
  <2>3. ~(parts.avma_range.start >= parts.avma_range.end)
          <=> parts.avma_range.start < parts.avma_range.end
    BY <2>1 DEF ModuleParts, Range, Addr
  <2>4. Len(from_parts(parts).local_sections) = 2 <=> HasHdr(parts) /\ HasFrame(parts)
    BY <2>1, Sections, Zenon
  <2>5. HasHdr(parts) => from_parts(parts).eh_frame_hdr_error = parts.eh_frame_hdr.error
    BY Zenon DEF from_parts
  <2> QED BY <2>1, <2>2, <2>3, <2>4, <2>5, Zenon DEF StrictIsComplete
<1> QED BY <1>1, LoadInvariance, PTL

-----------------------------------------------------------------------------
(***************************************************************************)
(* The registry (ModuleSet)                                                *)
(***************************************************************************)

\* A non-empty set of naturals has a least element.
LEMMA LeastNat ==
    ASSUME NEW T \in SUBSET Nat, T # {}
    PROVE  \E x \in T : \A y \in T : x <= y
<1> DEFINE R == {p \in Nat \X Nat : p[1] < p[2]}
<1>1. IsWellFoundedOn(R, Nat)
  BY NatLessThanWellFounded, Zenon DEF OpToRel
<1>2. PICK x \in T : \A y \in T : ~(<<y, x>> \in R)
  <2> HIDE DEF R
  <2> QED BY <1>1, WFMin, Zenon
<1>3. ASSUME NEW y \in T PROVE x <= y
  <2>1. <<y, x>> \in Nat \X Nat
    BY Zenon
  <2>2. <<y, x>>[1] = y /\ <<y, x>>[2] = x
    BY Zenon
  <2>3. ~(y < x)
    BY <1>2, <2>1, <2>2, Zenon
  <2> QED
    BY <2>3
<1> QED
  BY <1>3, Zenon

\* BTreeMap::range(..=addr).next_back() yields a greatest key not above addr
\* whenever the map has a key there.
LEMMA FloorExists ==
    ASSUME NEW map \in [Addr -> Module \cup {None}], NEW addr \in Addr,
           HasFloor(map, addr)
    PROVE  /\ Floor(map, addr) \in Keys(map)
           /\ Floor(map, addr) <= addr
           /\ \A j \in Keys(map) : j <= addr => j <= Floor(map, addr)
<1> DEFINE below == {k \in Keys(map) : k <= addr}
           T == {addr - k : k \in below}
<1>1. /\ T \in SUBSET Nat
      /\ T # {}
  BY BoundsAssumption DEF Keys, HasFloor, Addr
<1>2. PICK x \in T : \A y \in T : x <= y
  <2> HIDE DEF T
  <2> QED BY <1>1, LeastNat, Zenon
<1>3. PICK k \in below : x = addr - k
  BY <1>2, Zenon
<1>4. \A j \in below : addr - k <= addr - j
  BY <1>2, <1>3, Zenon
<1>5. \A j \in Keys(map) : j <= addr => j <= k
  BY <1>4, BoundsAssumption DEF Keys, Addr
<1>6. \E q \in Keys(map) : q <= addr /\ \A j \in Keys(map) : j <= addr => j <= q
  BY <1>5, Zenon
<1> QED
  BY <1>6, Zenon DEF Floor

\* A key with no other key between it and addr is the one found.
LEMMA FloorIs ==
    ASSUME NEW map \in [Addr -> Module \cup {None}], NEW addr \in Addr,
           NEW k \in Keys(map), k <= addr,
           \A j \in Keys(map) : j <= addr => j <= k
    PROVE  HasFloor(map, addr) /\ Floor(map, addr) = k
<1>1. HasFloor(map, addr)
  BY Zenon DEF HasFloor
<1>2. /\ Floor(map, addr) \in Keys(map)
      /\ Floor(map, addr) <= addr
      /\ k <= Floor(map, addr)
  BY <1>1, FloorExists, Zenon
<1>3. Floor(map, addr) <= k
  BY <1>2, Zenon
<1> QED
  BY <1>1, <1>2, <1>3, BoundsAssumption DEF Keys, Addr

\* Where some module of mods has a section that starts at a, the rebuilt
\* redirects hold such a module of mods, and elsewhere nothing.
LEMMA Rebuilt ==
    ASSUME NEW mods \in [Addr -> Module \cup {None}], NEW a \in Addr
    PROVE  \/ /\ RebuiltRedirects(mods)[a] = None
              /\ \A k \in Keys(mods) : a \notin DOMAIN Sec[mods[k]]
           \/ \E k \in Keys(mods) : /\ RebuiltRedirects(mods)[a] = mods[k]
                                    /\ a \in DOMAIN Sec[mods[k]]
<1> DEFINE O == {k \in Keys(mods) : a \in DOMAIN Sec[mods[k]]}
<1>1. RebuiltRedirects(mods)[a] =
        IF O = {} THEN None
        ELSE mods[CHOOSE k \in O : \A j \in O : j <= k]
  BY Zenon DEF RebuiltRedirects
<1>2. CASE O = {}
  BY <1>1, <1>2, Zenon
<1>3. CASE O # {}
  <2>1. \E k \in O : \A j \in O : j <= k
    <3> DEFINE T == {MaxU - k : k \in O}
    <3>1. T \in SUBSET Nat /\ T # {}
      BY <1>3, BoundsAssumption DEF Keys, Addr
    <3>2. PICK x \in T : \A y \in T : x <= y
      <4> HIDE DEF T
      <4> QED BY <3>1, LeastNat, Zenon
    <3>3. PICK k \in O : x = MaxU - k
      BY <3>2, Zenon
    <3>4. \A j \in O : MaxU - k <= MaxU - j
      BY <3>2, <3>3, Zenon
    <3> QED
      BY <3>4, BoundsAssumption DEF Keys, Addr
  <2> QED
    BY <1>1, <1>3, <2>1, Zenon
<1> QED
  BY <1>2, <1>3, Zenon

\* The redirects of a clone are well typed.
LEMMA RebuiltType ==
    ASSUME NEW mods \in [Addr -> Module \cup {None}]
    PROVE  RebuiltRedirects(mods) \in [Addr -> Module \cup {None}]
<1>1. \A a \in Addr : RebuiltRedirects(mods)[a] \in Module \cup {None}
  BY Rebuilt DEF Keys
<1> QED
  BY <1>1, Zenon DEF RebuiltRedirects

-----------------------------------------------------------------------------
(* Type correctness and the keys of the two maps *)

\* Only the maps of existing unwinders are ever filled.
LEMMA DroppedStep == TypeOK /\ [Next]_vars => DroppedIsEmpty'
<1> SUFFICES ASSUME TypeOK, [Next]_vars,
                    NEW w \in Unwinder, w \notin live'
             PROVE  modules'[w] = EmptyMap /\ redirects'[w] = EmptyMap
  BY Zenon DEF DroppedIsEmpty, EmptyMap
<1>old. w \notin live => modules[w] = EmptyMap /\ redirects[w] = EmptyMap
  BY Zenon DEF TypeOK, DroppedIsEmpty
<1>1. ASSUME NEW m \in Module, BuildModule(m) \/ DropModule(m)
      PROVE  modules'[w] = EmptyMap /\ redirects'[w] = EmptyMap
  BY <1>1, <1>old, Zenon DEF BuildModule, DropModule
<1>2. ASSUME NEW u \in Unwinder, NewUnwinder(u)
      PROVE  modules'[w] = EmptyMap /\ redirects'[w] = EmptyMap
  BY <1>2, <1>old, Zenon DEF NewUnwinder
<1>3. ASSUME NEW u \in Unwinder, DropUnwinder(u)
      PROVE  modules'[w] = EmptyMap /\ redirects'[w] = EmptyMap
  BY <1>3, <1>old, Zenon DEF DropUnwinder, TypeOK
<1>4. ASSUME NEW u \in Unwinder, NEW m \in Module, NEW keep \in BOOLEAN,
             add(u, m, keep)
      PROVE  modules'[w] = EmptyMap /\ redirects'[w] = EmptyMap
  BY <1>4, <1>old, Zenon DEF add, TypeOK
<1>5. ASSUME NEW u \in Unwinder, NEW a \in Addr, remove(u, a)
      PROVE  modules'[w] = EmptyMap /\ redirects'[w] = EmptyMap
  BY <1>5, <1>old, Zenon DEF remove, TypeOK
<1>6. ASSUME NEW u \in Unwinder, NEW v \in Unwinder, clone(u, v)
      PROVE  modules'[w] = EmptyMap /\ redirects'[w] = EmptyMap
  BY <1>6, <1>old, Zenon DEF clone, TypeOK
<1>7. CASE UNCHANGED vars
  BY <1>7, <1>old, Zenon DEF vars
<1> QED
  BY <1>1, <1>2, <1>3, <1>4, <1>5, <1>6, <1>7, Zenon DEF Next

\* Every operation keeps the registry well typed.
LEMMA TypeStep == TypeOK /\ [Next]_vars => TypeOK'
<1> SUFFICES ASSUME TypeOK, [Next]_vars PROVE TypeOK'
  BY Zenon
<1>d. DroppedIsEmpty'
  BY DroppedStep, Zenon
<1> USE DEF TypeOK
<1>1. ASSUME NEW m \in Module, BuildModule(m) PROVE TypeOK'
  BY <1>1, <1>d, Zenon DEF BuildModule
<1>2. ASSUME NEW m \in Module, DropModule(m) PROVE TypeOK'
  BY <1>2, <1>d, Zenon DEF DropModule, DropUnreferenced
<1>3. ASSUME NEW u \in Unwinder, NewUnwinder(u) PROVE TypeOK'
  BY <1>3, <1>d, Zenon DEF NewUnwinder
<1>4. ASSUME NEW u \in Unwinder, DropUnwinder(u) PROVE TypeOK'
  BY <1>4, <1>d, Zenon DEF DropUnwinder, DropUnreferenced, EmptyMap
<1>5. ASSUME NEW u \in Unwinder, NEW m \in Module, NEW keep \in BOOLEAN,
             add(u, m, keep)
      PROVE  TypeOK'
  <2>1. InsertSections(redirects[u], m) \in [Addr -> Module \cup {None}]
    BY DEF InsertSections
  <2>2. [modules[u] EXCEPT ![Start[m]] = m] \in [Addr -> Module \cup {None}]
    BY Zenon
  <2> QED BY <1>5, <1>d, <2>1, <2>2, Zenon DEF add, DropUnreferenced
<1>6. ASSUME NEW u \in Unwinder, NEW a \in Addr, remove(u, a) PROVE TypeOK'
  <2>1. RemoveSections(redirects[u], modules[u][a])
          \in [Addr -> Module \cup {None}]
    BY DEF RemoveSections
  <2>2. [modules[u] EXCEPT ![a] = None] \in [Addr -> Module \cup {None}]
    BY Zenon
  <2> QED BY <1>6, <1>d, <2>1, <2>2, Zenon DEF remove, DropUnreferenced
<1>7. ASSUME NEW u \in Unwinder, NEW v \in Unwinder, clone(u, v) PROVE TypeOK'
  BY <1>7, <1>d, RebuiltType, Zenon DEF clone
<1>8. CASE UNCHANGED vars
  BY <1>8, <1>d, Zenon DEF vars
<1> QED
  BY <1>1, <1>2, <1>3, <1>4, <1>5, <1>6, <1>7, <1>8, Zenon DEF Next

\* The registry is well typed in every reachable state.
THEOREM TypeCorrect == Spec => []TypeOK
<1>1. Init => TypeOK
  BY DEF Init, TypeOK, DroppedIsEmpty, EmptyMap
<1> QED
  BY <1>1, TypeStep, PTL DEF Spec

\* Every operation keeps modules and redirects under their own start address.
LEMMA KeysMatchStep == TypeOK /\ KeysMatch /\ [Next]_vars => KeysMatch'
<1> SUFFICES ASSUME TypeOK, KeysMatch, [Next]_vars PROVE KeysMatch'
  BY Zenon
<1> USE DEF KeysMatch
<1>1. ASSUME NEW m \in Module, BuildModule(m) \/ DropModule(m) PROVE KeysMatch'
  BY <1>1 DEF BuildModule, DropModule
<1>2. ASSUME NEW u \in Unwinder, NewUnwinder(u) PROVE KeysMatch'
  BY <1>2, Zenon DEF NewUnwinder
<1>3. ASSUME NEW u \in Unwinder, DropUnwinder(u) PROVE KeysMatch'
  BY <1>3, Zenon DEF DropUnwinder, EmptyMap, TypeOK
<1>4. ASSUME NEW u \in Unwinder, NEW m \in Module, NEW keep \in BOOLEAN,
             add(u, m, keep)
      PROVE  KeysMatch'
  BY <1>4, LayoutAssumption, Zenon DEF add, InsertSections, TypeOK
<1>5. ASSUME NEW u \in Unwinder, NEW a \in Addr, remove(u, a) PROVE KeysMatch'
  BY <1>5 DEF remove, RemoveSections, TypeOK
<1>6. ASSUME NEW u \in Unwinder, NEW v \in Unwinder, clone(u, v)
      PROVE  KeysMatch'
  <2>1. ASSUME NEW a \in Addr, RebuiltRedirects(modules[u])[a] # None
        PROVE  a \in DOMAIN Sec[RebuiltRedirects(modules[u])[a]]
    BY <2>1, Rebuilt DEF TypeOK
  <2> QED
    BY <1>6, <2>1, Zenon DEF clone, TypeOK
<1>7. CASE UNCHANGED vars
  BY <1>7, Zenon DEF vars
<1> QED
  BY <1>1, <1>2, <1>3, <1>4, <1>5, <1>6, <1>7 DEF Next

\* Modules and redirects are always registered under their own start address.
THEOREM KeysMatchInvariant == Spec => []KeysMatch
<1>1. Init => KeysMatch
  BY DEF Init, KeysMatch, EmptyMap
<1> QED
  BY <1>1, KeysMatchStep, TypeCorrect, PTL DEF Spec

-----------------------------------------------------------------------------
(* Lookups *)

\* In a well-keyed registry find_module returns the innermost module, and misses
\* one that contains the address only because of a module nested in it.
LEMMA FindModuleFromKeys == TypeOK /\ KeysMatch => FindModuleExact
<1> SUFFICES ASSUME TypeOK, KeysMatch, NEW u \in Unwinder, NEW a \in Addr
             PROVE  LET m == find_module(u, a) IN
                    /\ m # None => m \in Registered(u) /\ InRange(m, a)
                    /\ \A n \in Registered(u) : InRange(n, a) =>
                         \/ m # None /\ Start[n] <= Start[m]
                         \/ m = None /\ \E h \in Module : Hides(u, h, n, a)
  BY Zenon DEF FindModuleExact
<1> DEFINE map == modules[u]
           k == Floor(map, a)
<1>1. map \in [Addr -> Module \cup {None}]
  BY Zenon DEF TypeOK
<1>2. ASSUME HasFloor(map, a)
      PROVE  /\ k \in Addr /\ k <= a
             /\ map[k] \in Registered(u) /\ map[k] \in Module /\ Start[map[k]] = k
             /\ \A j \in Keys(map) : j <= a => j <= k
  <2>1. k \in Keys(map) /\ k <= a /\ \A j \in Keys(map) : j <= a => j <= k
    BY <1>1, <1>2, FloorExists, Zenon
  <2> HIDE DEF k
  <2>2. k \in Addr /\ map[k] # None
    BY <2>1, Zenon DEF Keys
  <2> QED BY <1>1, <2>1, <2>2, Zenon DEF Registered, KeysMatch
<1>3. ASSUME find_module(u, a) # None
      PROVE  /\ HasFloor(map, a) /\ find_module(u, a) = map[k]
             /\ find_module(u, a) \in Registered(u) /\ InRange(find_module(u, a), a)
  <2>1. /\ HasFloor(map, a) /\ find_module(u, a) = map[k]
        /\ InRange(find_module(u, a), a)
    BY <1>3, Zenon DEF find_module
  <2> QED BY <2>1, <1>2, Zenon
<1>4. ASSUME NEW n \in Registered(u), InRange(n, a)
      PROVE  \/ find_module(u, a) # None /\ Start[n] <= Start[find_module(u, a)]
             \/ find_module(u, a) = None /\ \E h \in Module : Hides(u, h, n, a)
  <2>1. n \in Module /\ Start[n] \in Addr /\ map[Start[n]] = n
    BY <1>1, LayoutAssumption DEF Registered, KeysMatch
  <2>2. Start[n] \in Keys(map) /\ Start[n] <= a
    BY <1>4, <2>1, NoneAssumption, BoundsAssumption DEF Keys, InRange, Addr
  <2>3. HasFloor(map, a)
    BY <2>2, Zenon DEF HasFloor
  <2>4. Start[n] <= k
    BY <1>2, <2>2, <2>3, Zenon
  <2>5. CASE find_module(u, a) # None
    BY <1>2, <1>3, <2>3, <2>4, <2>5, Zenon
  <2>6. CASE find_module(u, a) = None
    <3>1. ~InRange(map[k], a)
      BY <1>2, <2>3, <2>6, NoneAssumption, Zenon DEF find_module
    <3>2. InRange(n, k)
      <4>1. k \in Addr /\ k <= a /\ End[n] \in Addr /\ a < End[n]
        BY <1>2, <1>4, <2>1, <2>3, LayoutAssumption, Zenon DEF InRange
      <4> HIDE DEF k
      <4>2. k < End[n] /\ k >= Start[n]
        BY <2>1, <2>4, <4>1, BoundsAssumption DEF Addr
      <4> QED BY <4>2, Zenon DEF InRange
    <3> QED BY <1>2, <2>3, <2>6, <3>1, <3>2, Zenon DEF Hides
  <2> QED BY <2>5, <2>6, Zenon
<1> QED
  BY <1>3, <1>4, Zenon

\* find_module returns the innermost module that contains the address, after any
\* sequence of operations; only a module nested in it can hide the right one.
THEOREM FindModuleCorrect == Spec => []FindModuleExact
  BY FindModuleFromKeys, TypeCorrect, KeysMatchInvariant, PTL

\* A redirected read stays inside the section's bytes, unless it wraps around the
\* top of the address space.
LEMMA LocalReadFromKeys == TypeOK /\ KeysMatch => LocalReadInBounds
<1> SUFFICES ASSUME TypeOK, KeysMatch, NEW u \in Unwinder, NEW a \in Addr,
                    lookup_local(u, a) # None
             PROVE  LET hit == lookup_local(u, a) IN
                    \/ a - hit[2] + Word <= Sec[hit[1]][hit[2]]
                    \/ SecEnd(hit[1], hit[2]) = MaxU /\ a + Word > MaxU
  BY Zenon DEF LocalReadInBounds
<1> DEFINE k == Floor(redirects[u], a)
           m == redirects[u][k]
<1>1. /\ HasFloor(redirects[u], a)
      /\ lookup_local(u, a) = <<m, k>>
      /\ SectionCovers(m, k, a)
  BY Zenon DEF lookup_local
<1>2. /\ k \in Keys(redirects[u])
      /\ k <= a
  BY <1>1, FloorExists, Zenon DEF TypeOK
<1>3. /\ m \in Module
      /\ k \in Addr
      /\ k \in DOMAIN Sec[m]
  BY <1>2 DEF Keys, KeysMatch, TypeOK
<1>4. lookup_local(u, a)[1] = m /\ lookup_local(u, a)[2] = k
  BY <1>1
<1>5. Sec[m][k] \in Nat
  BY <1>3, LayoutAssumption, Zenon
<1> HIDE DEF k, m
<1>7. \/ a - k + Word <= Sec[m][k]
      \/ SecEnd(m, k) = MaxU /\ a + Word > MaxU
  BY <1>1, <1>2, <1>3, <1>5, BoundsAssumption
     DEF SectionCovers, SecEnd, SatAdd, Addr
<1> QED
  BY <1>4, <1>7, Zenon

\* Redirected reads stay inside the mirrored bytes.
THEOREM LocalReadsInBounds == Spec => []LocalReadInBounds
  BY LocalReadFromKeys, TypeCorrect, KeysMatchInvariant, PTL

-----------------------------------------------------------------------------
(* The pointer-authentication mask *)

\* max_known_code_address is an address, and no registered range ends above it.
LEMMA MaxKnownBound ==
    ASSUME TypeOK, NEW u \in Unwinder, NEW m \in Registered(u)
    PROVE  /\ max_known_code_address(u) \in Addr
           /\ End[m] <= max_known_code_address(u)
<1> DEFINE ends == {End[n] : n \in Registered(u)}
           T == {MaxU - e : e \in ends}
<1>1. Registered(u) \subseteq Module
  BY DEF TypeOK, Registered
<1>2. ends \subseteq Addr /\ End[m] \in ends
  BY <1>1, LayoutAssumption, Zenon
<1>3. T \in SUBSET Nat /\ T # {}
  <2> HIDE DEF ends
  <2>1. \A e \in ends : MaxU - e \in Nat
    BY <1>2, BoundsAssumption DEF Addr
  <2>2. MaxU - End[m] \in T
    BY <1>2, Zenon
  <2> QED BY <2>1, <2>2, Zenon
<1>4. PICK x \in T : \A y \in T : x <= y
  <2> HIDE DEF T
  <2> QED BY <1>3, LeastNat, Zenon
<1>5. PICK e \in ends : x = MaxU - e
  BY <1>4, Zenon
<1>6. \A f \in ends : f <= e
  <2> HIDE DEF ends
  <2> SUFFICES ASSUME NEW f \in ends PROVE f <= e
    BY Zenon
  <2>1. MaxU - e <= MaxU - f
    BY <1>4, <1>5, Zenon
  <2> QED BY <2>1, <1>2, BoundsAssumption DEF Addr
<1>7. \E f \in {End[n] : n \in Registered(u)} : \A n \in Registered(u) : End[n] <= f
  BY <1>6, Zenon
<1>8. /\ max_known_code_address(u) \in {End[n] : n \in Registered(u)}
      /\ \A n \in Registered(u) : End[n] <= max_known_code_address(u)
  BY <1>7, Zenon DEF max_known_code_address
<1> QED BY <1>8, <1>2, Zenon

\* The mask for an address keeps it.
LEMMA MaskCovers ==
    ASSUME NEW address \in Addr
    PROVE  /\ from_max_known_address(address) \in Addr
           /\ address <= from_max_known_address(address)
<1>1. MaxU \in Masks /\ Masks \subseteq Addr /\ \A m \in Masks : m <= MaxU
  BY BoundsAssumption DEF Addr
<1>2. CASE address = 0
  <2>1. \E m \in Masks : \A n \in Masks : n <= m
    BY <1>1, Zenon
  <2>2. from_max_known_address(address) \in Masks
    BY <1>2, <2>1, Zenon DEF from_max_known_address
  <2>3. from_max_known_address(address) \in 0 .. MaxU
    BY <1>1, <2>2, Zenon DEF Addr
  <2> HIDE DEF from_max_known_address
  <2> QED BY <1>2, <2>3, BoundsAssumption DEF Addr
<1>3. CASE address # 0
  <2> DEFINE T == {n \in Masks : address <= n}
  <2>1. T \in SUBSET Nat /\ T # {}
    <3>1. \A n \in Masks : n \in Nat
      BY <1>1, BoundsAssumption DEF Addr
    <3>2. MaxU \in T
      BY <1>1, BoundsAssumption DEF Addr
    <3> QED BY <3>1, <3>2, Zenon
  <2>2. PICK m \in T : \A n \in T : m <= n
    <3> HIDE DEF T
    <3> QED BY <2>1, LeastNat, Zenon
  <2>3. \E k \in Masks : address <= k /\ \A n \in Masks : address <= n => k <= n
    BY <2>2, Zenon
  <2>4. /\ from_max_known_address(address) \in Masks
        /\ address <= from_max_known_address(address)
    BY <1>3, <2>3, Zenon DEF from_max_known_address
  <2> QED BY <1>1, <2>4, Zenon
<1> QED BY <1>2, <1>3, Zenon

\* An address that does not exceed the mask is not changed.
LEMMA StripSmall ==
    ASSUME NEW mask \in Nat, NEW a \in Nat, a <= mask
    PROVE  strip_ptr_auth(mask, a) = a
BY DEF strip_ptr_auth

\* The mask a profiler derives from the registered modules keeps every address
\* of their code, for any layout of the address space, and every address of a
\* module that is added later and ends no higher.
THEOREM MaskKeepsCodeAlways == Spec => []MaskKeepsCode
<1>1. TypeOK => MaskKeepsCode
  <2> DEFINE top(u) == max_known_code_address(u)
  <2> SUFFICES ASSUME TypeOK, NEW u \in live, NEW m \in Module, NEW a \in Addr,
                      m \in Registered(u) \/ End[m] <= top(u),
                      InRange(m, a) \/ a = End[m]
               PROVE  strip_ptr_auth(from_max_known_address(top(u)), a) = a
    BY Zenon DEF MaskKeepsCode
  <2>1. u \in Unwinder
    BY Zenon DEF TypeOK
  <2>2. End[m] \in Nat /\ a \in Nat /\ a <= End[m]
    BY LayoutAssumption, BoundsAssumption DEF InRange, Addr
  <2>3. top(u) \in Addr
    <3>1. CASE Registered(u) = {}
      <4>1. top(u) = 0
        BY <3>1, Zenon DEF max_known_code_address
      <4> QED BY <4>1, BoundsAssumption DEF Addr
    <3>2. CASE Registered(u) # {}
      BY <2>1, <3>2, MaxKnownBound, Zenon
    <3> QED BY <3>1, <3>2, Zenon
  <2>4. End[m] <= top(u)
    BY <2>1, MaxKnownBound, Zenon
  <2> HIDE DEF top
  <2> DEFINE mask == from_max_known_address(top(u))
  <2>5. mask \in Addr /\ top(u) <= mask
    BY <2>3, MaskCovers, Zenon
  <2> HIDE DEF mask
  <2>6. mask \in Nat /\ a <= mask
    BY <2>2, <2>3, <2>4, <2>5, BoundsAssumption DEF Addr
  <2>7. strip_ptr_auth(mask, a) = a
    BY <2>2, <2>6, StripSmall, Zenon
  <2> QED BY <2>7, Zenon DEF mask
<1> QED BY <1>1, TypeCorrect, PTL

-----------------------------------------------------------------------------
(* Section mirrors *)

\* No operation loses the redirect of a registered section when section
\* starts are distinct.
LEMMA MirroredStep == TypeOK /\ KeysMatch /\ Mirrored /\ [Next]_vars => Mirrored'
<1> SUFFICES ASSUME TypeOK, KeysMatch, Mirrored, [Next]_vars,
                    SectionStartsDistinct,
                    NEW w \in Unwinder, NEW n \in Registered(w)',
                    NEW k \in DOMAIN Sec[n]
             PROVE  redirects'[w][k] = n
  BY Zenon DEF Mirrored, SectionStartsDistinct
<1>n. n \in Module /\ k \in Addr /\ \E b \in Addr : modules'[w][b] = n
  <2>1. TypeOK'
    BY TypeStep, Zenon
  <2>2. PICK b \in Addr : modules'[w][b] = n /\ n # None
    BY Zenon DEF Registered
  <2>3. n \in Module
    BY <2>1, <2>2 DEF TypeOK
  <2> QED
    BY <2>2, <2>3, LayoutAssumption, Zenon
<1>old. ASSUME NEW b \in Addr, modules[w][b] = n PROVE redirects[w][k] = n
  BY <1>old, <1>n, NoneAssumption DEF Mirrored, Registered
<1>1. ASSUME NEW m \in Module, BuildModule(m) \/ DropModule(m)
      PROVE  redirects'[w][k] = n
  BY <1>1, <1>n, <1>old, Zenon DEF BuildModule, DropModule
<1>2. ASSUME NEW u \in Unwinder, NewUnwinder(u) PROVE redirects'[w][k] = n
  BY <1>2, <1>n, <1>old, Zenon DEF NewUnwinder
<1>3. ASSUME NEW u \in Unwinder, DropUnwinder(u) PROVE redirects'[w][k] = n
  BY <1>3, <1>n, <1>old, NoneAssumption, Zenon DEF DropUnwinder, EmptyMap, TypeOK
<1>4. ASSUME NEW u \in Unwinder, NEW m \in Module, NEW keep \in BOOLEAN,
             add(u, m, keep)
      PROVE  redirects'[w][k] = n
  <2>1. CASE u # w
    BY <1>4, <1>n, <1>old, <2>1, Zenon DEF add, TypeOK
  <2>2. CASE u = w /\ n = m
    BY <1>4, <1>n, <2>2, Zenon DEF add, TypeOK, InsertSections
  <2>3. CASE u = w /\ n # m
    <3>a. PICK b \in Addr : modules'[w][b] = n
      BY <1>n, Zenon
    <3>b. b # Start[m] /\ modules[w][b] = n
      BY <1>4, <1>n, <2>3, <3>a, LayoutAssumption, Zenon DEF add, TypeOK
    <3>c. Start[n] = b
      BY <1>n, <3>b, NoneAssumption, Zenon DEF KeysMatch
    <3>1. redirects[w][k] = n
      BY <1>old, <3>b, Zenon
    <3>2. k \notin DOMAIN Sec[m]
      BY <1>n, <3>b, <3>c, Zenon DEF SectionStartsDistinct
    <3> QED
      BY <1>4, <1>n, <2>3, <3>1, <3>2, Zenon DEF add, TypeOK, InsertSections
  <2> QED
    BY <2>1, <2>2, <2>3, Zenon
<1>5. ASSUME NEW u \in Unwinder, NEW a \in Addr, remove(u, a)
      PROVE  redirects'[w][k] = n
  <2>1. CASE u # w
    BY <1>5, <1>n, <1>old, <2>1, Zenon DEF remove, TypeOK
  <2>2. CASE u = w
    <3>1. PICK b \in Addr : modules'[w][b] = n
      BY <1>n, Zenon
    <3>2. b # a /\ modules[w][b] = n
      BY <1>5, <1>n, <2>2, <3>1, NoneAssumption, Zenon DEF remove, TypeOK
    <3>3. modules[w][a] \in Module /\ Start[modules[w][a]] # Start[n]
      BY <1>5, <1>n, <2>2, <3>2, NoneAssumption DEF remove, TypeOK, KeysMatch
    <3>4. k \notin DOMAIN Sec[modules[w][a]]
      BY <1>n, <3>3, Zenon DEF SectionStartsDistinct
    <3> QED
      BY <1>5, <1>n, <1>old, <2>2, <3>2, <3>4, Zenon DEF remove, TypeOK, RemoveSections
  <2> QED
    BY <2>1, <2>2, Zenon
<1>6. ASSUME NEW u \in Unwinder, NEW v \in Unwinder, clone(u, v)
      PROVE  redirects'[w][k] = n
  <2>1. CASE v # w
    BY <1>6, <1>n, <1>old, <2>1, Zenon DEF clone, TypeOK
  <2>2. CASE v = w
    <3>1. modules'[w] = modules[u] /\ redirects'[w] = RebuiltRedirects(modules[u])
      BY <1>6, <2>2, Zenon DEF clone, TypeOK
    <3>2. PICK b \in Addr : modules[u][b] = n
      BY <1>n, <3>1, Zenon
    <3>3. b \in Keys(modules[u])
      BY <1>n, <3>2, NoneAssumption, Zenon DEF Keys
    <3>4. PICK q \in Keys(modules[u]) :
             /\ RebuiltRedirects(modules[u])[k] = modules[u][q]
             /\ k \in DOMAIN Sec[modules[u][q]]
      BY <1>n, <3>2, <3>3, Rebuilt, Zenon DEF TypeOK
    <3>5. modules[u][q] \in Module
      BY DEF Keys, TypeOK
    <3>6. modules[u][q] = n
      <4>1. Start[modules[u][q]] = q /\ Start[n] = b
        BY <1>n, <3>2, <3>4, NoneAssumption, Zenon DEF KeysMatch, Keys
      <4>2. Start[modules[u][q]] = Start[n]
        BY <1>n, <3>4, <3>5, Zenon DEF SectionStartsDistinct
      <4> QED BY <3>2, <4>1, <4>2, Zenon
    <3> QED
      BY <3>1, <3>4, <3>6, Zenon
  <2> QED
    BY <2>1, <2>2, Zenon
<1>7. CASE UNCHANGED vars
  BY <1>7, <1>n, <1>old, Zenon DEF vars
<1> QED
  BY <1>1, <1>2, <1>3, <1>4, <1>5, <1>6, <1>7 DEF Next

\* With distinct section starts, every section of a registered module keeps
\* its redirect through any sequence of add, remove and clone.
THEOREM MirroredInvariant == Spec => []Mirrored
<1>1. Init => Mirrored
  BY DEF Init, Mirrored, Registered, EmptyMap
<1> QED
  BY <1>1, MirroredStep, TypeCorrect, KeysMatchInvariant, PTL DEF Spec

\* The redirect found for an address in a registered section is that of the
\* section exactly if no redirect of a replaced module lies in between.
LEMMA CoveredFromMirrored ==
    TypeOK /\ KeysMatch /\ Mirrored => CoveredReadIsLocal
<1> SUFFICES ASSUME TypeOK, KeysMatch, Mirrored, SectionStartsDistinct,
                    NEW u \in Unwinder, NEW a \in Addr,
                    NEW m \in Registered(u), NEW k \in DOMAIN Sec[m],
                    SectionsSeparate(u),
                    k <= a, a + Word <= SecEnd(m, k), 0 < Word
             PROVE  lookup_local(u, a) = <<m, k>> <=> ~Shadowed(u, k, a)
  BY Zenon DEF CoveredReadIsLocal
<1> DEFINE map == redirects[u]
<1>1. /\ map \in [Addr -> Module \cup {None}]
      /\ m \in Module
      /\ k \in Addr
      /\ Sec[m][k] \in Nat
  BY LayoutAssumption DEF TypeOK, Registered
<1>2. map[k] = m /\ k \in Keys(map)
  BY <1>1, NoneAssumption, Zenon DEF Mirrored, Keys
<1>3. SecEnd(m, k) \in Nat /\ SecEnd(m, k) <= MaxU
  BY <1>1, BoundsAssumption DEF SecEnd, SatAdd, Addr
<1>4. ASSUME ~Shadowed(u, k, a), NEW j \in Keys(map), j <= a PROVE j <= k
  <2>1. j \in Addr /\ j \in DOMAIN Sec[map[j]]
    BY <1>1, Zenon DEF Keys, KeysMatch
  <2>2. SUFFICES ASSUME k < j PROVE FALSE
    BY <1>1, <2>1, BoundsAssumption DEF Addr
  <2>3. map[j] \in Registered(u)
    BY <1>4, <2>2, Zenon DEF Shadowed
  <2>4. <<m, k>> # <<map[j], j>>
    BY <1>1, <2>1, <2>2, BoundsAssumption DEF Addr
  <2>5. ~(k <= j /\ j < SecEnd(m, k))
    BY <2>1, <2>3, <2>4, Zenon DEF SectionsSeparate
  <2> QED
    BY <1>1, <1>3, <1>4, <2>1, <2>2, <2>5, BoundsAssumption DEF Addr
<1>5. ASSUME ~Shadowed(u, k, a) PROVE lookup_local(u, a) = <<m, k>>
  <2>1. HasFloor(map, a) /\ Floor(map, a) = k
    BY <1>1, <1>2, <1>4, <1>5, FloorIs, Zenon
  <2>2. SectionCovers(m, k, a)
    BY <1>1, <1>3, BoundsAssumption DEF SectionCovers, SatAdd, Addr
  <2> QED
    BY <1>2, <2>1, <2>2, Zenon DEF lookup_local
<1>6. ASSUME Shadowed(u, k, a) PROVE lookup_local(u, a) # <<m, k>>
  <2>1. PICK j \in Keys(map) : k < j /\ j <= a
    BY <1>6, Zenon DEF Shadowed
  <2>2. HasFloor(map, a)
    BY <2>1, Zenon DEF HasFloor
  <2>3. j <= Floor(map, a) /\ Floor(map, a) \in Addr /\ j \in Addr
    BY <1>1, <2>1, <2>2, FloorExists, Zenon DEF Keys
  <2>4. Floor(map, a) # k
    <3> HIDE DEF map
    <3> QED BY <1>1, <2>1, <2>3, BoundsAssumption DEF Addr
  <2>5. lookup_local(u, a) \in {<<map[Floor(map, a)], Floor(map, a)>>, None}
    BY <2>2, Zenon DEF lookup_local
  <2>6. <<m, k>> # None
    <3>1. <<m, k>> \in Module \X Addr
      BY <1>1
    <3> QED BY <3>1, NoneAssumption, Zenon
  <2>7. <<map[Floor(map, a)], Floor(map, a)>> # <<m, k>>
    BY <2>4, Zenon
  <2> QED BY <2>5, <2>6, <2>7, Zenon
<1> QED
  BY <1>5, <1>6, Zenon

\* A read that fits in a section of a registered module is served from it exactly
\* if no replaced module left a redirect inside the section below the address,
\* for any layout in which the registered sections are separate.
THEOREM CoveredReadsLocal == Spec => []CoveredReadIsLocal
  BY CoveredFromMirrored, TypeCorrect, KeysMatchInvariant, MirroredInvariant, PTL

\* Every allocation somebody refers to is alive.
ReferencedAlive ==
    \A m \in Module : Referenced(m, held, modules, redirects) => arc[m] = "alive"

\* Dropping what is unreferenced frees nothing that is still referenced, as
\* long as the step created references only to allocations that were alive.
LEMMA DropKeepsReferenced ==
    ASSUME TypeOK, DropUnreferenced,
           \A m \in Module : Referenced(m, held', modules', redirects')
                               => arc[m] = "alive"
    PROVE  ReferencedAlive'
  BY Zenon DEF DropUnreferenced, ReferencedAlive, TypeOK

\* No operation leaves a reference to a freed allocation.
LEMMA AliveStep == TypeOK /\ ReferencedAlive /\ [Next]_vars => ReferencedAlive'
<1> SUFFICES ASSUME TypeOK, ReferencedAlive, [Next]_vars PROVE ReferencedAlive'
  BY Zenon
<1>1. ASSUME NEW m \in Module, BuildModule(m) PROVE ReferencedAlive'
  BY <1>1, Zenon DEF BuildModule, ReferencedAlive, Referenced, TypeOK
<1>2. ASSUME NEW m \in Module, DropModule(m) PROVE ReferencedAlive'
  <2>1. \A n \in Module : Referenced(n, held', modules', redirects')
                            => Referenced(n, held, modules, redirects)
    BY <1>2, Zenon DEF DropModule, Referenced
  <2> QED
    BY <1>2, <2>1, DropKeepsReferenced, Zenon DEF DropModule, ReferencedAlive
<1>3. ASSUME NEW u \in Unwinder, NewUnwinder(u) PROVE ReferencedAlive'
  BY <1>3, Zenon DEF NewUnwinder, ReferencedAlive, Referenced
<1>4. ASSUME NEW u \in Unwinder, DropUnwinder(u) PROVE ReferencedAlive'
  <2>1. \A n \in Module : Referenced(n, held', modules', redirects')
                            => Referenced(n, held, modules, redirects)
    BY <1>4, NoneAssumption, Zenon DEF DropUnwinder, Referenced, EmptyMap, TypeOK
  <2> QED
    BY <1>4, <2>1, DropKeepsReferenced, Zenon DEF DropUnwinder, ReferencedAlive
<1>5. ASSUME NEW u \in Unwinder, NEW m \in Module, NEW keep \in BOOLEAN,
             add(u, m, keep)
      PROVE  ReferencedAlive'
  <2>1. Referenced(m, held, modules, redirects)
    BY <1>5, Zenon DEF add, Referenced
  <2>2. ASSUME NEW n \in Module, Referenced(n, held', modules', redirects'), n # m
        PROVE  Referenced(n, held, modules, redirects)
    <3>1. CASE n \in held'
      BY <1>5, <3>1, Zenon DEF add, Referenced
    <3>2. ASSUME NEW w \in Unwinder, NEW a \in Addr, modules'[w][a] = n
          PROVE  Referenced(n, held, modules, redirects)
      BY <1>5, <2>2, <3>2, Zenon DEF add, Referenced, TypeOK
    <3>3. ASSUME NEW w \in Unwinder, NEW a \in Addr, redirects'[w][a] = n
          PROVE  Referenced(n, held, modules, redirects)
      BY <1>5, <2>2, <3>3, Zenon DEF add, Referenced, TypeOK, InsertSections
    <3> QED
      BY <2>2, <3>1, <3>2, <3>3, Zenon DEF Referenced
  <2> QED
    BY <1>5, <2>1, <2>2, DropKeepsReferenced, Zenon DEF add, ReferencedAlive
<1>6. ASSUME NEW u \in Unwinder, NEW a \in Addr, remove(u, a)
      PROVE  ReferencedAlive'
  <2>1. \A n \in Module : Referenced(n, held', modules', redirects')
                            => Referenced(n, held, modules, redirects)
    BY <1>6, NoneAssumption, Zenon DEF remove, Referenced, RemoveSections, TypeOK
  <2> QED
    BY <1>6, <2>1, DropKeepsReferenced, Zenon DEF remove, ReferencedAlive
<1>7. ASSUME NEW u \in Unwinder, NEW v \in Unwinder, clone(u, v)
      PROVE  ReferencedAlive'
  <2>1. ASSUME NEW n \in Module, NEW a \in Addr,
               RebuiltRedirects(modules[u])[a] = n
        PROVE  \E b \in Addr : modules[u][b] = n
    BY <2>1, Rebuilt, NoneAssumption DEF Keys, TypeOK
  <2>2. \A n \in Module : Referenced(n, held', modules', redirects')
                            => Referenced(n, held, modules, redirects)
    BY <1>7, <2>1 DEF clone, Referenced, TypeOK
  <2> QED
    BY <1>7, <2>2, Zenon DEF clone, ReferencedAlive
<1>8. CASE UNCHANGED vars
  BY <1>8, Zenon DEF vars, ReferencedAlive, Referenced
<1> QED
  BY <1>1, <1>2, <1>3, <1>4, <1>5, <1>6, <1>7, <1>8, Zenon DEF Next

\* Bytes served through a redirect, stale or not, are never freed memory.
THEOREM MirrorsStayAlive == Spec => []MirrorsAlive
<1>1. Init => ReferencedAlive
  BY NoneAssumption DEF Init, ReferencedAlive, Referenced, EmptyMap
<1>2. TypeOK /\ ReferencedAlive => MirrorsAlive
  BY DEF TypeOK, ReferencedAlive, Referenced, MirrorsAlive
<1> QED
  BY <1>1, <1>2, AliveStep, TypeCorrect, PTL DEF Spec

\* A clone starts with the original's modules and with exactly those of its
\* redirects that are not stale.
THEOREM ClonePrunes == Spec => CloneKeepsCurrentMirrors
<1> DEFINE A == \A u, v \in Unwinder :
                  clone(u, v) /\ SectionStartsDistinct =>
                    /\ modules'[v] = modules[u]
                    /\ redirects'[v] = [a \in Addr |->
                         IF redirects[u][a] \in Registered(u)
                         THEN redirects[u][a] ELSE None]
<1>1. ASSUME TypeOK, KeysMatch, Mirrored PROVE A
  <2> SUFFICES ASSUME NEW u \in Unwinder, NEW v \in Unwinder,
                      clone(u, v), SectionStartsDistinct
               PROVE  /\ modules'[v] = modules[u]
                      /\ redirects'[v] = [a \in Addr |->
                           IF redirects[u][a] \in Registered(u)
                           THEN redirects[u][a] ELSE None]
    BY Zenon
  <2>1. /\ modules'[v] = modules[u]
        /\ redirects'[v] = RebuiltRedirects(modules[u])
    BY <1>1, Zenon DEF clone, TypeOK
  <2>2. ASSUME NEW a \in Addr
        PROVE  RebuiltRedirects(modules[u])[a] =
                 IF redirects[u][a] \in Registered(u)
                 THEN redirects[u][a] ELSE None
    <3>1. modules[u] \in [Addr -> Module \cup {None}]
      BY <1>1, Zenon DEF TypeOK
    <3>2. CASE \E k \in Keys(modules[u]) :
                 /\ RebuiltRedirects(modules[u])[a] = modules[u][k]
                 /\ a \in DOMAIN Sec[modules[u][k]]
      BY <1>1, <3>1, <3>2 DEF Mirrored, Registered, Keys
    <3>3. CASE /\ RebuiltRedirects(modules[u])[a] = None
               /\ \A k \in Keys(modules[u]) : a \notin DOMAIN Sec[modules[u][k]]
      BY <1>1, <3>1, <3>3 DEF KeysMatch, Registered, Keys
    <3> QED
      BY <3>1, <3>2, <3>3, Rebuilt, Zenon
  <2>3. RebuiltRedirects(modules[u]) \in [Addr -> Module \cup {None}]
    BY <1>1, RebuiltType, Zenon DEF TypeOK
  <2> QED
    BY <2>1, <2>2, <2>3, Zenon
<1>2. TypeOK /\ KeysMatch /\ Mirrored /\ [Next]_vars => [A]_vars
  BY <1>1, Zenon
<1> QED
  BY <1>2, TypeCorrect, KeysMatchInvariant, MirroredInvariant, PTL
     DEF Spec, CloneKeepsCurrentMirrors
=============================================================================
