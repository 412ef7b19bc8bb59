-------------------------- MODULE MCUnwindAarch64 --------------------------
(***************************************************************************)
(* Instances of UnwindAarch64.  Words are one address wide, the stack is at *)
(* 1 .. 6 and the code at 8 .. 15; bit 4 of an address is for a signature. *)
(***************************************************************************)
EXTENDS UnwindAarch64, FiniteSets, TLC

NoLocal == [a \in {} |-> 0]

Rel(k) == [where |-> "cfarel", val |-> k]
Same == [where |-> "same", val |-> 0]
Undef == [where |-> "undef", val |-> 0]
InReg == [where |-> "reg", val |-> 0]

MkRow(cfa, off, lr, fp, cfi) ==
    [cfa |-> cfa, off |-> off, lr |-> lr, fp |-> fp, cfi |-> cfi]

\* The sigreturn stub at 8, another signal frame at 13, PLT entries at 9, where
\* no FDE is, and at 14; a module without unwind information at 15, a rejected
\* one at 7.
WalkPlt == 9 :> {9, 10} @@ 14 :> {14}
WalkKind ==
    [a \in Addr |-> CASE a \in 8 .. 14 -> "dwarf"
                      [] a = 15 -> "plain"
                      [] a = 7 -> "invalid"
                      [] OTHER -> "none"]

\* A function at 10 .. 12: its first instruction, its body, and one whose CFI
\* word at 7 straddles the end of the mirror.  The entry at 14 has such a word too.
BodyRow == MkRow("fp", 2, Rel(-1), Rel(-2), None)
FunctionRows ==
    [a \in Addr |-> CASE a <= 10 -> MkRow("sp", 0, Same, Same, None)
                      [] a = 12 -> MkRow("sp", 2, Rel(-1), Undef, 7)
                      [] OTHER -> BodyRow]
StubRows == [a \in Addr |-> MkRow("sp", 4, Rel(-1), Rel(-3), None)]
SignalRows == [a \in Addr |-> MkRow("sp", 2, Rel(-2), Rel(-1), None)]
OddRows ==
    [a \in Addr |-> CASE a < 14 -> MkRow("reg", 0, Rel(-1), Same, None)
                      [] a = 14 -> MkRow("sp", 0, Rel(1), Same, 7)
                      [] a > 14 -> MkRow("sp", 0, InReg, Same, None)]

WalkFdes == [f |-> [signal |-> "plain", rows |-> FunctionRows],
             stub |-> [signal |-> "signal", rows |-> StubRows],
             sig |-> [signal |-> "signal", rows |-> SignalRows],
             odd |-> [signal |-> "plain", rows |-> OddRows]]
WalkFdeAt ==
    [a \in Addr |-> CASE a \in 10 .. 12 -> "f"
                      [] a = 8 -> "stub"
                      [] a = 13 -> "sig"
                      [] a = 14 -> "odd"
                      [] OTHER -> None]
WalkCaches == {{}, DOMAIN WalkFdes}

\* Any stack of four words, a fifth that is zero or not, and code; the CFI word can
\* be read with the one and not with the other.
WalkMemories ==
    {[a \in 1 .. 5 \cup (IF r = 0 THEN {} ELSE {7}) \cup 8 .. 15 |->
        IF a <= 4 THEN s[a] ELSE IF a = 5 THEN r ELSE 0] :
       s \in [1 .. 4 -> {0, 3, 9, 29}], r \in {0, 14}}
WalkRegs == [mask : {15}, lr : {11}, sp : {1}, fp : {0, 2}]
            \cup [mask : {15}, lr : {11}, sp : {4}, fp : {0}]
            \cup [mask : {31}, lr : {27}, sp : {1}, fp : {2, 31}]
WalkIps == 7 .. 15 \cup {27}
WalkFailSets == {{}, {2}, {3, 7}, {4, 5}, {9, 11, 13, 14}}

\* A stack at 16 .. 27 on which every read succeeds: a function that a signal
\* handler called, the handler, the signal frame at 20, and the function that was
\* interrupted in its body (11) or before it saved its return address (10).
HandlerMemory(interrupted) ==
    16 :> 18 @@ 17 :> 12 @@ 18 :> 26 @@ 19 :> 8
    @@ 21 :> 26 @@ 22 :> 25 @@ 23 :> interrupted @@ 26 :> 28 @@ 27 :> 12
    @@ [a \in 7 .. 29 |-> 0]
HandlerMemories == {HandlerMemory(10), HandlerMemory(11)}
HandlerRegs == [mask : {31}, lr : {12}, sp : {16}, fp : {16}]
=============================================================================
