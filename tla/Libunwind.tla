----------------------------- MODULE Libunwind -----------------------------
(***************************************************************************)
(* One unw_step of the vendored libunwind on a freshly initialised x86_64  *)
(* cursor, as init_and_step (src/address_space.rs) uses it: the DWARF step *)
(* and, when find_proc_info has nothing, the x86_64 frame heuristics.      *)
(*                                                                         *)
(* A row is the result of running an FDE's CFI program up to an address:   *)
(* where the CFA, the return address, RSP and RBP are.  `rd' is access_mem *)
(* as a function, Fail where the read fails.                               *)
(***************************************************************************)
EXTENDS Integers

CONSTANTS
    MaxU,        \* u64::MAX
    Word,        \* bytes of a stack word
    GuessLimit,  \* how far above the CFA a guessed frame pointer may be
    PltCode,     \* addresses whose code bytes look like a PLT entry
    Fail,        \* a read that fails
    None

Addr == 0 .. MaxU

ASSUME WordAssumption ==
    /\ MaxU \in Nat
    /\ Word \in Nat \ {0}
    /\ Word <= MaxU

ASSUME MarksAssumption == Fail \notin Addr /\ None \notin Addr

Wrap(n) == n % (MaxU + 1)

\* A register rule [where, val] of a row.
Where == {"undef", "same", "cfa", "cfarel", "iprel"}
Rule == [where : Where, val : Int]

\* `cfi' is the address of the last word of the CFI program.  access_mem serves
\* it from the local mirror, or reads it from the tracee if it straddles the
\* end of the mirror.  None if no word may straddle.
Row == [cfa : {"sp", "bp", "r10"}, off : Int, ra : Rule, sp : Rule, bp : Rule,
        cfi : Addr \cup {None}, signal : {"signal", "plain"}]

-----------------------------------------------------------------------------
(* The DWARF step *)

\* The location of address 0 is DWARF_NULL_LOC, and nothing is read there.
MemLocation(a) == IF a = 0 THEN <<"null", 0>> ELSE <<"mem", a>>
NonNull(rd) == [a \in Addr |-> IF a = 0 THEN Fail ELSE rd[a]]

\* A register's location in the caller: DWARF_NULL_LOC, a register of the
\* callee, a memory word, or a value.  An "iprel" return address is the
\* DW_CFA_val_expression of a function that computes it from RIP.
Location(rule, reg, cfa, ip) ==
    CASE rule.where = "undef" -> <<"null", 0>>
      [] rule.where = "same" -> <<"val", reg>>
      [] rule.where = "cfa" -> <<"val", cfa>>
      [] rule.where = "cfarel" -> MemLocation(Wrap(cfa + rule.val))
      [] rule.where = "iprel" -> <<"val", Wrap(ip + rule.val)>>

\* Mutant of dwarf_get: a failed read yields zero.
dwarf_get_Zero(rd, loc) ==
    IF loc[1] = "mem" THEN (IF rd[loc[2]] = Fail THEN 0 ELSE rd[loc[2]])
    ELSE loc[2]

\* dwarf_get of a location that is not null.
dwarf_get(rd, loc) == IF loc[1] = "mem" THEN rd[loc[2]] ELSE loc[2]

\* What a step leaves in the cursor.  `failed' is the address of the last
\* failed read, which access_mem leaves in the context.
Stepped(ip, sp, bp) == [ret |-> "stepped", ip |-> ip, sp |-> sp, bp |-> bp]
EndOfStack == [ret |-> "end"]
StepError(code, failed) == [ret |-> "error", code |-> code, failed |-> failed]

\* unw_get_reg of RSP fails the step, of RBP is zero if the read fails.
GetRegs(rd, ip, sp_loc, bp_loc) ==
    IF dwarf_get(rd, sp_loc) = Fail THEN StepError("EINVAL", sp_loc[2])
    ELSE Stepped(ip, dwarf_get(rd, sp_loc),
                 IF dwarf_get(rd, bp_loc) = Fail THEN 0 ELSE dwarf_get(rd, bp_loc))

\* dwarf_step and the end-of-chain test of unw_step after it.
dwarf_step(rd, row, ip, regs) ==
    LET cfa == Wrap(regs[row.cfa] + row.off)
        ra_loc == Location(row.ra, ip, cfa, ip)
        sp_loc == Location(row.sp, regs.sp, cfa, ip)
        bp_loc == Location(row.bp, regs.bp, cfa, ip)
        new_ip == IF ra_loc[1] = "null" THEN 0 ELSE dwarf_get(rd, ra_loc)
    IN  IF row.cfi # None /\ rd[row.cfi] = Fail THEN StepError("EINVAL", row.cfi)
        ELSE IF regs[row.cfa] = None THEN StepError("EBADREG", None)
        ELSE IF new_ip = Fail THEN StepError("EINVAL", ra_loc[2])
        ELSE IF new_ip = ip /\ cfa = regs.sp THEN StepError("EBADFRAME", None)
        ELSE IF bp_loc[1] = "null" \/ new_ip = 0 THEN EndOfStack
        ELSE IF sp_loc[1] = "null" THEN StepError("EBADREG", None)
        ELSE GetRegs(rd, new_ip, sp_loc, bp_loc)

-----------------------------------------------------------------------------
(* The heuristics for an address without unwind information *)

is_plt_entry(rd, ip) ==
    ip \in PltCode /\ rd[ip] # Fail /\ rd[Wrap(ip + Word)] # Fail

\* A PLT stub: the return address is on top of the stack; loc[RSP] and
\* loc[RBP] stay what they were.
PltStep(rd, regs) ==
    IF regs.sp = 0 THEN EndOfStack
    ELSE IF rd[regs.sp] = Fail THEN StepError("EINVAL", regs.sp)
    ELSE Stepped(rd[regs.sp], regs.sp, regs.bp)

\* A call through a bad pointer: RIP cannot be read, the word on top of the
\* stack can and points to something readable.
FixupApplies(rd, ip, regs) ==
    /\ rd[ip] = Fail
    /\ rd[regs.sp] # Fail
    /\ rd[rd[regs.sp]] # Fail

FixupStep(rd, regs) == Stepped(rd[regs.sp], Wrap(regs.sp + Word), regs.bp)

\* A guessed frame pointer must be readable and a little above the CFA.
GuessedFrame(rd, regs) ==
    /\ rd[regs.bp] # Fail
    /\ regs.bp >= regs.sp
    /\ regs.bp - regs.sp <= GuessLimit

\* The last read that fails when RIP and the word at RBP cannot be read.
LastFailed(rd, ip, regs) ==
    IF regs.bp # 0 THEN regs.bp
    ELSE IF regs.sp # 0 /\ rd[regs.sp] = Fail THEN regs.sp
    ELSE IF regs.sp # 0 /\ rd[regs.sp] # 0 THEN rd[regs.sp]
    ELSE ip

GuessStep(rd, ip, regs) ==
    LET rip == Wrap(regs.bp + Word) IN
    IF ~GuessedFrame(rd, regs)
    THEN IF rd[ip] = Fail /\ rd[regs.bp] = Fail
         THEN StepError("EINVAL", LastFailed(rd, ip, regs))
         ELSE EndOfStack
    ELSE IF rip = 0 THEN EndOfStack
    ELSE IF rd[rip] = Fail THEN StepError("EINVAL", rip)
    ELSE Stepped(rd[rip], Wrap(regs.bp + 2 * Word), rd[regs.bp])

heuristic_step(rd, ip, regs) ==
    IF is_plt_entry(rd, ip) THEN PltStep(rd, regs)
    ELSE IF regs.bp = 0 /\ rd[ip] # Fail THEN EndOfStack
    ELSE IF FixupApplies(rd, ip, regs) THEN FixupStep(rd, regs)
    ELSE GuessStep(rd, ip, regs)

-----------------------------------------------------------------------------
\* init_and_step: `row' is what find_proc_info leads to, None for -UNW_ENOINFO.
init_and_step(rd, row, ip, regs) ==
    IF row = None THEN heuristic_step(NonNull(rd), ip, regs)
    ELSE dwarf_step(NonNull(rd), row, ip, regs)
=============================================================================
