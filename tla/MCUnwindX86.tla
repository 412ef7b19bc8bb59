---------------------------- MODULE MCUnwindX86 ----------------------------
(***************************************************************************)
(* Instances of UnwindX86.  Words are one address wide.                    *)
(***************************************************************************)
EXTENDS UnwindX86

OneLocal == [a \in {8} |-> 0]

Rel(k) == [where |-> "cfarel", val |-> k]
IpRel(k) == [where |-> "iprel", val |-> k]
Same == [where |-> "same", val |-> 0]
Undef == [where |-> "undef", val |-> 0]
Cfa == [where |-> "cfa", val |-> 0]

MkRow(cfa, off, ra, sp, bp, cfi, signal) ==
    [cfa |-> cfa, off |-> off, ra |-> ra, sp |-> sp, bp |-> bp, cfi |-> cfi,
     signal |-> signal]

\* A module with unwind information at 13 .. 22, one without at 10, one whose
\* .eh_frame_hdr was rejected at 11, nothing elsewhere.
DwarfKind ==
    [a \in Addr |-> CASE a \in 13 .. 22 -> "dwarf"
                      [] a = 10 -> "plain"
                      [] a = 11 -> "invalid"
                      [] OTHER -> "none"]
\* No FDE covers 13, a PLT entry, and 20.  The CFI word at 8 is in the mirror,
\* the one at 9 straddles its end.
DwarfRows ==
    [a \in Addr |->
       CASE a = 14 -> MkRow("sp", 1, Rel(-1), Cfa, Same, 9, "plain")
         [] a = 15 -> MkRow("bp", 2, Rel(-1), Cfa, Rel(-2), None, "plain")
         [] a = 16 -> MkRow("sp", 0, Rel(1), Rel(2), Rel(0), None, "signal")
         [] a = 17 -> MkRow("sp", 0, IpRel(5), Cfa, Same, None, "plain")
         [] a = 18 -> MkRow("r10", 1, Rel(-1), Same, Same, None, "plain")
         [] a = 19 -> MkRow("sp", 1, Rel(-1), Cfa, Undef, 8, "plain")
         [] a = 21 -> MkRow("sp", 0, IpRel(-9), Cfa, Same, None, "plain")
         [] a = 22 -> MkRow("sp", 1, Rel(-1), Undef, Same, None, "plain")
         [] OTHER -> None]

\* Any stack of four words, and words of code and sections.  Where only the
\* stack was captured, the others fail to be read.
Live == 1 .. 4 \cup {8, 9, 13, 14, 20}
DwarfMemories ==
    {[a \in Live |-> IF a <= 4 THEN s[a] ELSE 0] :
       s \in [1 .. 4 -> {0, 3, 17, 19}]}
DwarfFailSets == {{}, {2}, {3, 8, 9, 13, 14, 20}}
DwarfRegs ==
    {r \in [ip : {10, 11} \cup 13 .. 22, sp : {1, 2}, bp : {0, 2}, r10 : {None, 2}] :
       r.sp = 1 <=> r.r10 = 2}

\* Only functions with the usual frame-pointer prologue.
FrameRows == [a \in Addr |-> IF a \in 13 .. 19 THEN DwarfRows[15] ELSE None]
FrameRegs == [ip : {15}, sp : {1}, bp : {2}, r10 : {None}]
FrameMemories == [1 .. 5 -> {0, 4, 15, 18}]
=============================================================================
