---------------------------- MODULE EhFrameTable ----------------------------
(***************************************************************************)
(* The .eh_frame_hdr reader (src/eh_frame_table.rs): parsing the header,   *)
(* and the binary search of its table.  One behaviour parses one header    *)
(* and then runs lookups in its table, one loop iteration per step.        *)
(*                                                                         *)
(* A header is a record of the fields the parser decodes: the byte length, *)
(* the version, the three encoding bytes, the FDE count as the integer its *)
(* bytes denote, and the table's signed initial-location offsets.          *)
(***************************************************************************)
EXTENDS Words

CONSTANTS
    Headers,     \* .eh_frame_hdr contents
    Ips,         \* addresses that are looked up
    SegBase,     \* eh_frame_hdr_avma, the base of the table's offsets
    MaxEntries   \* no header has room for more table entries

DW_EH_PE_OMIT == 255
TableEncoding == 59            \* DW_EH_PE_DATAREL | DW_EH_PE_SDATA4
EntrySize == 8                 \* two int32 per entry

ASSUME HeadersAssumption ==
    /\ MaxU \in Nat
    /\ MaxEntries \in Nat
    /\ SegBase \in 0 .. MaxU
    /\ Ips \subseteq 0 .. MaxU
    /\ \A h \in Headers :
         /\ h.len \in Nat
         /\ h.len < MaxU                        \* a slice is at most isize::MAX
         /\ h.len <= EntrySize * MaxEntries
         /\ h.count \in Int
         /\ h.ptr_enc \in 0 .. 255
         /\ h.count_enc \in 0 .. 255
         /\ h.offs \in [0 .. MaxEntries - 1 -> Int]

\* EhFrameHdrError
EhFrameHdrErrors ==
    {"FixedHeaderTruncated", "UnsupportedVersion",
     "UnsupportedEhFramePtrEncoding", "EhFramePtrTruncated",
     "UnsupportedFdeCountEncoding", "FdeCountTruncated",
     "UnsupportedTableEncoding", "TableTruncated"}

ASSUME HeadersNoneAssumption == None \notin Int /\ None \notin EhFrameHdrErrors

VARIABLES
    hdr,        \* the header's bytes
    phase,      \* "parse", "rejected", "ready", "search" or "done"
    hdr_error,  \* the parser's error
    table,      \* EhFrameTable: table_data_offset and entry_count
    ip,         \* the address looked up
    lo, hi,     \* the search interval
    result      \* the entry the last lookup found, None for none

table_vars == <<hdr, phase, hdr_error, table, ip, lo, hi, result>>

-----------------------------------------------------------------------------
(* Parsing *)

\* Bytes of a value in a pointer encoding, None if it has no fixed size.
enc_size(enc) ==
    IF enc = DW_EH_PE_OMIT THEN None
    ELSE CASE enc % 16 \in {3, 11} -> 4
           [] enc % 16 \in {4, 12} -> 8
           [] enc % 16 \in {2, 10} -> 2
           [] OTHER -> None

\* The size read_unsigned consumes; None if the encoding is not one of
\* udata4, sdata4 and udata8 or the remaining bytes are too few.
read_size(avail, enc) ==
    IF enc = DW_EH_PE_OMIT THEN None
    ELSE CASE enc % 16 \in {3, 11} /\ avail >= 4 -> 4
           [] enc % 16 = 4 /\ avail >= 8 -> 8
           [] OTHER -> None

\* The value it returns: a negative sdata4 count becomes a huge u64.
read_unsigned(count) == count % (MaxU + 1)

SatMul(a, b) == IF a * b > MaxU THEN MaxU ELSE a * b

\* Where the count and the table start.
CountOffset(h) == 4 + enc_size(h.ptr_enc)
TableOffset(h) == CountOffset(h) + read_size(h.len - CountOffset(h), h.count_enc)

\* Mutant of TableNeed: the size of the table wraps around.
TableNeed_Wrapping(off, n) == (off + EntrySize * n) % (MaxU + 1)

\* cursor.saturating_add(entry_size.saturating_mul(fde_count)), the end of the
\* table that is compared with the length.
TableNeed(off, n) == SatAdd(off, SatMul(EntrySize, n))

\* The first check of parse that fails, None if all pass.
parse_error(h) ==
    IF h.len < 4 THEN "FixedHeaderTruncated"
    ELSE IF h.version # 1 THEN "UnsupportedVersion"
    ELSE IF enc_size(h.ptr_enc) = None THEN "UnsupportedEhFramePtrEncoding"
    ELSE IF CountOffset(h) > h.len THEN "EhFramePtrTruncated"
    ELSE IF read_size(h.len - CountOffset(h), h.count_enc) = None
         THEN IF enc_size(h.count_enc) # None THEN "FdeCountTruncated"
              ELSE "UnsupportedFdeCountEncoding"
    ELSE IF h.table_enc # TableEncoding THEN "UnsupportedTableEncoding"
    ELSE IF TableNeed(TableOffset(h), read_unsigned(h.count)) > h.len
         THEN "TableTruncated"
    ELSE None

\* EhFrameTable::empty, which a module keeps when the header was rejected.
EmptyTable == [off |-> 0, n |-> 0]

TableInit ==
    /\ hdr \in Headers
    /\ phase = "parse"
    /\ hdr_error = None
    /\ table = EmptyTable
    /\ ip = 0
    /\ lo = 0
    /\ hi = 0
    /\ result = None

ParseOk ==
    /\ phase = "parse"
    /\ parse_error(hdr) = None
    /\ table' = [off |-> TableOffset(hdr), n |-> read_unsigned(hdr.count)]
    /\ phase' = "ready"
    /\ UNCHANGED <<hdr, hdr_error, ip, lo, hi, result>>

ParseFail ==
    /\ phase = "parse"
    /\ parse_error(hdr) # None
    /\ hdr_error' = parse_error(hdr)
    /\ phase' = "rejected"
    /\ UNCHANGED <<hdr, table, ip, lo, hi, result>>

-----------------------------------------------------------------------------
(* Lookup *)

\* The tracee address an entry stands for: segbase.wrapping_add(offset).
entry_pc(i) == (SegBase + hdr.offs[i]) % (MaxU + 1)

LookupEmpty(a) ==
    /\ phase \in {"ready", "done"}
    /\ table.n = 0
    /\ phase' = "done"
    /\ ip' = a
    /\ result' = None
    /\ UNCHANGED <<hdr, hdr_error, table, lo, hi>>

\* Mutant of LookupStart: the interval includes one entry too many.
LookupStart_Inclusive(a) ==
    /\ phase \in {"ready", "done"}
    /\ table.n # 0
    /\ phase' = "search"
    /\ ip' = a
    /\ lo' = 0
    /\ hi' = table.n + 1
    /\ result' = None
    /\ UNCHANGED <<hdr, hdr_error, table>>

LookupStart(a) ==
    /\ phase \in {"ready", "done"}
    /\ table.n # 0
    /\ phase' = "search"
    /\ ip' = a
    /\ lo' = 0
    /\ hi' = table.n
    /\ result' = None
    /\ UNCHANGED <<hdr, hdr_error, table>>

\* Mutants of Bisect: an entry that starts at the address counts as above it;
\* and the middle entry stays in the interval when it is above.
Bisect_Strict ==
    LET mid == lo + ((hi - lo) \div 2) IN
    /\ phase = "search"
    /\ lo + 1 < hi
    /\ \/ /\ entry_pc(mid) < ip
          /\ lo' = mid
          /\ UNCHANGED hi
       \/ /\ entry_pc(mid) >= ip
          /\ hi' = mid
          /\ UNCHANGED lo
    /\ UNCHANGED <<hdr, phase, hdr_error, table, ip, result>>

Bisect_KeepsMid ==
    LET mid == lo + ((hi - lo) \div 2) IN
    /\ phase = "search"
    /\ lo + 1 < hi
    /\ \/ /\ entry_pc(mid) <= ip
          /\ lo' = mid
          /\ UNCHANGED hi
       \/ /\ entry_pc(mid) > ip
          /\ hi' = mid + 1
          /\ UNCHANGED lo
    /\ UNCHANGED <<hdr, phase, hdr_error, table, ip, result>>

\* One iteration of `while lo + 1 < hi`.
Bisect ==
    LET mid == lo + ((hi - lo) \div 2) IN
    /\ phase = "search"
    /\ lo + 1 < hi
    /\ \/ /\ entry_pc(mid) <= ip
          /\ lo' = mid
          /\ UNCHANGED hi
       \/ /\ entry_pc(mid) > ip
          /\ hi' = mid
          /\ UNCHANGED lo
    /\ UNCHANGED <<hdr, phase, hdr_error, table, ip, result>>

\* Mutant of LookupEnd: the search is taken to end one past the entry.
LookupEnd_Before ==
    /\ phase = "search"
    /\ ~(lo + 1 < hi)
    /\ result' = IF entry_pc(lo) > ip THEN None ELSE lo - 1
    /\ phase' = "done"
    /\ UNCHANGED <<hdr, hdr_error, table, ip, lo, hi>>

LookupEnd ==
    /\ phase = "search"
    /\ ~(lo + 1 < hi)
    /\ result' = IF entry_pc(lo) > ip THEN None ELSE lo
    /\ phase' = "done"
    /\ UNCHANGED <<hdr, hdr_error, table, ip, lo, hi>>

TableNext ==
    \/ ParseOk \/ ParseFail
    \/ \E a \in Ips : LookupEmpty(a) \/ LookupStart(a)
    \/ Bisect \/ LookupEnd

TableSpec == TableInit /\ [][TableNext]_table_vars

\* A lookup that has started runs its loop.
TableFairSpec == TableSpec /\ WF_table_vars(Bisect \/ LookupEnd)

-----------------------------------------------------------------------------
(* Properties *)

\* Offsets, counts and search bounds are machine words, never negative.
TableTypeOK ==
    /\ hdr \in Headers
    /\ phase \in {"parse", "rejected", "ready", "search", "done"}
    /\ hdr_error \in EhFrameHdrErrors \cup {None}
    /\ table \in [off : Nat, n : Nat]
    /\ ip \in 0 .. MaxU
    /\ lo \in Nat
    /\ hi \in Nat
    /\ result \in Nat \cup {None}

\* The table of an accepted header lies inside the header's bytes, so the
\* slice lookup takes exists and its bounds do not overflow, for every count
\* the header may claim (huge, negative or zero).
AcceptedTableInBounds ==
    phase \in {"ready", "search", "done"} =>
        /\ table.off + EntrySize * table.n <= hdr.len
        /\ table.n <= MaxEntries

\* The search never reads outside the table, sorted or not.
SearchInBounds ==
    phase = "search" => lo < hi /\ hi <= table.n

\* Table entries are in ascending order of address.
Sorted ==
    \A i, j \in 0 .. table.n - 1 : i < j => entry_pc(i) <= entry_pc(j)

\* In a sorted table, a lookup finds the last entry that does not start above
\* the address, and finds none only when every entry starts above it.
LookupExact ==
    phase = "done" /\ Sorted =>
        IF result = None
        THEN \A i \in 0 .. table.n - 1 : entry_pc(i) > ip
        ELSE /\ result < table.n
             /\ entry_pc(result) <= ip
             /\ \A i \in 0 .. table.n - 1 : entry_pc(i) <= ip => i <= result

\* Every lookup ends, sorted table or not.
LookupEnds == phase = "search" ~> phase = "done"
=============================================================================
