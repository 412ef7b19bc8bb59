----------------------------- MODULE UnwindX86 -----------------------------
(***************************************************************************)
(* Walking a stack with UnwindIterator and the x86_64 unwind_frame         *)
(* (src/module.rs, src/x86_64.rs) over the step of module Libunwind.       *)
(*                                                                         *)
(* One call of next() is one step.  The tracee's memory is fixed for a     *)
(* walk, but each call may find a different set of addresses unreadable,   *)
(* and a caller may go on after an error.                                  *)
(***************************************************************************)
EXTENDS Libunwind, FrameAddress

CONSTANTS
    Memories,   \* tracee memories: functions from readable addresses to words
    Local,      \* the words lookup_local serves from the local mirrors
    StartRegs,  \* register snapshots a walk may start from
    Kind,       \* what the registry has for a code address
    Rows,       \* the row of an address whose module has unwind information
    FailSets    \* sets of addresses that may be unreadable during one call

\* "none": no module.  "plain": a module without usable unwind information.
\* "invalid": a module whose .eh_frame_hdr was rejected.  "dwarf": a module
\* with a table, whose row is None where no FDE covers the address.
Kinds == {"none", "plain", "invalid", "dwarf"}

Reg == [ip : Addr, sp : Addr, bp : Addr, r10 : Addr \cup {None}]

IsMemory(m) == DOMAIN m \subseteq Addr /\ \A a \in DOMAIN m : m[a] \in Addr

ASSUME RegistryAssumption ==
    /\ Kind \in [Addr -> Kinds]
    /\ Rows \in [Addr -> Row \cup {None}]
    /\ StartRegs \subseteq Reg
    /\ \A m \in Memories : IsMemory(m)
    /\ IsMemory(Local)

VARIABLES
    mem,     \* the tracee's memory
    state,   \* UnwindIteratorState
    regs,    \* the iterator's registers
    ret      \* what the last call returned

vars == <<mem, state, regs, ret>>

-----------------------------------------------------------------------------
Frame == {InstructionPointer(a) : a \in Addr}
         \cup {ReturnAddress(a) : a \in Addr \ {0}}

(* The registry, by address *)

contains_address(a) == Kind[a] # "none"
has_unwind_info(a) == Kind[a] = "dwarf"

\* After a step the function cache holds the details of the row it used.
is_signal_frame(a) ==
    Kind[a] = "dwarf" /\ Rows[a] # None /\ Rows[a].signal = "signal"

(* Memory accesses of one call, `fails' being unreadable during it *)

read_stack(m, fails) ==
    [a \in Addr |-> IF a \in DOMAIN m \ fails THEN m[a] ELSE Fail]

access_mem(m, fails) ==
    [a \in Addr |-> IF a \in DOMAIN Local THEN Local[a]
                    ELSE read_stack(m, fails)[a]]

-----------------------------------------------------------------------------
(* unwind_frame *)

\* Ok(Some(ip)) with the caller's registers, Ok(None), and Err(kind).  The
\* address of an error is None unless the kind is CouldNotReadStack.
Caller(r) == [tag |-> "some", regs |-> r]
NoCaller == [tag |-> "none"]
Failed(kind, addr) == [tag |-> "err", kind |-> kind, addr |-> addr]

\* Mutant of CallerRegs: the other registers stay valid.
CallerRegs_Stale(r, ip, sp, bp) == [r EXCEPT !.ip = ip, !.sp = sp, !.bp = bp]

\* clear_unrestored_caller_registers and the three sets that follow it.
CallerRegs(r, ip, sp, bp) ==
    [r EXCEPT !.ip = ip, !.sp = sp, !.bp = bp, !.r10 = None]

\* Mutants of fallback_unwind_frame: no test for a null return address; no
\* test of progress.
fallback_NullCaller(current_ip, r, rd) ==
    LET new_sp == r.bp + 2 * Word
    IN  IF r.bp = 0 THEN NoCaller
        ELSE IF new_sp > MaxU THEN Failed("IntegerOverflow", None)
        ELSE IF new_sp <= r.sp THEN Failed("MovedBackwards", None)
        ELSE IF rd[r.bp] = Fail THEN Failed("CouldNotReadStack", r.bp)
        ELSE IF rd[r.bp + Word] = Fail
             THEN Failed("CouldNotReadStack", r.bp + Word)
        ELSE Caller(CallerRegs(r, rd[r.bp + Word], new_sp, rd[r.bp]))

fallback_NoProgressTest(current_ip, r, rd) ==
    LET new_sp == r.bp + 2 * Word
    IN  IF r.bp = 0 THEN NoCaller
        ELSE IF new_sp > MaxU THEN Failed("IntegerOverflow", None)
        ELSE IF rd[r.bp] = Fail THEN Failed("CouldNotReadStack", r.bp)
        ELSE IF rd[r.bp + Word] = Fail
             THEN Failed("CouldNotReadStack", r.bp + Word)
        ELSE IF rd[r.bp + Word] = 0 THEN NoCaller
        ELSE Caller(CallerRegs(r, rd[r.bp + Word], new_sp, rd[r.bp]))

fallback_unwind_frame(current_ip, r, rd) ==
    LET ra_at == r.bp + Word
        new_sp == r.bp + 2 * Word
        new_bp == rd[r.bp]
        return_address == rd[ra_at]
    IN  IF r.bp = 0 THEN NoCaller
        ELSE IF new_sp > MaxU THEN Failed("IntegerOverflow", None)
        ELSE IF new_sp <= r.sp THEN Failed("MovedBackwards", None)
        ELSE IF new_bp = Fail THEN Failed("CouldNotReadStack", r.bp)
        ELSE IF new_bp # 0 /\ new_bp <= r.bp THEN Failed("MovedBackwards", None)
        ELSE IF return_address = Fail THEN Failed("CouldNotReadStack", ra_at)
        ELSE IF return_address = 0 THEN NoCaller
        ELSE IF new_sp = r.sp /\ return_address = current_ip
             THEN Failed("DidNotAdvance", None)
        ELSE Caller(CallerRegs(r, return_address, new_sp, new_bp))

\* Mutant of AdjustedIp: the frame that a signal interrupted is adjusted too.
AdjustedIp_Signal(f, new_ip) ==
    IF is_return_address(f) /\ contains_address(new_ip) THEN new_ip + 1
    ELSE new_ip

\* The return address unwind_frame reports for the one libunwind recovered.
AdjustedIp(f, new_ip) ==
    IF /\ is_return_address(f)
       /\ ~is_signal_frame(address_for_lookup(f))
       /\ contains_address(new_ip)
    THEN new_ip + 1
    ELSE new_ip

\* The match on the outcome of init_and_step.
StepResult(f, r, step) ==
    IF step.ret = "end" THEN NoCaller
    ELSE IF step.ret = "error"
         THEN IF step.failed # None THEN Failed("CouldNotReadStack", step.failed)
              ELSE IF Rows[address_for_lookup(f)] = None THEN Failed("UnwindInfo", None)
              ELSE Failed("Libunwind", None)
    ELSE IF step.ip = 0 THEN NoCaller
    ELSE IF AdjustedIp(f, step.ip) > MaxU THEN Failed("IntegerOverflow", None)
    ELSE IF AdjustedIp(f, step.ip) = f.addr /\ step.sp = r.sp
         THEN Failed("DidNotAdvance", None)
    ELSE Caller(CallerRegs(r, AdjustedIp(f, step.ip), step.sp, step.bp))

unwind_frame(f, r, m, fails) ==
    LET lookup_ip == address_for_lookup(f) IN
    IF Kind[lookup_ip] = "invalid" THEN Failed("UnwindInfo", None)
    ELSE IF ~has_unwind_info(lookup_ip)
         THEN fallback_unwind_frame(f.addr, r, read_stack(m, fails))
    ELSE StepResult(f, r, init_and_step(access_mem(m, fails), Rows[lookup_ip],
                                        lookup_ip, r))

-----------------------------------------------------------------------------
(* UnwindIterator *)

Initial(pc) == [tag |-> "initial", frame |-> InstructionPointer(pc)]
Unwinding(f) == [tag |-> "unwinding", frame |-> f]
Done == [tag |-> "done", frame |-> InstructionPointer(0)]

\* What next() may return.
Frames(f) == [tag |-> "frame", frame |-> f]
EndOfWalk == [tag |-> "end"]

Init ==
    /\ mem \in Memories
    /\ regs \in StartRegs
    /\ state = Initial(regs.ip)
    /\ ret = EndOfWalk

NextInitial ==
    /\ state.tag = "initial"
    /\ state' = Unwinding(state.frame)
    /\ ret' = Frames(state.frame)
    /\ UNCHANGED <<mem, regs>>

\* The frame after f whose return address is ra.  from_return_address has no frame
\* for a null address, and `next` would end the walk; TypeOK shows that none comes.
CallerFrame(f, ra) ==
    IF is_signal_frame(address_for_lookup(f)) THEN InstructionPointer(ra)
    ELSE ReturnAddress(ra)

\* Mutant of NextUnwinding: the end of the stack is returned but not kept.
NextUnwinding_NotDone(fails) ==
    LET f == state.frame IN
    \E out \in {unwind_frame(f, regs, mem, fails)} :
        /\ state.tag = "unwinding"
        /\ \/ /\ out.tag = "some"
              /\ regs' = out.regs
              /\ state' = Unwinding(CallerFrame(f, out.regs.ip))
              /\ ret' = Frames(CallerFrame(f, out.regs.ip))
           \/ /\ out.tag = "none"
              /\ ret' = EndOfWalk
              /\ UNCHANGED <<regs, state>>
           \/ /\ out.tag = "err"
              /\ ret' = out
              /\ UNCHANGED <<regs, state>>
        /\ UNCHANGED mem

NextUnwinding(fails) ==
    LET f == state.frame IN
    \E out \in {unwind_frame(f, regs, mem, fails)} :
        /\ state.tag = "unwinding"
        /\ \/ /\ out.tag = "some"
              /\ regs' = out.regs
              /\ state' = Unwinding(CallerFrame(f, out.regs.ip))
              /\ ret' = Frames(CallerFrame(f, out.regs.ip))
           \/ /\ out.tag = "none"
              /\ state' = Done
              /\ ret' = EndOfWalk
              /\ UNCHANGED regs
           \/ /\ out.tag = "err"
              /\ ret' = out
              /\ UNCHANGED <<regs, state>>
        /\ UNCHANGED mem

NextDone ==
    /\ state.tag = "done"
    /\ ret' = EndOfWalk
    /\ UNCHANGED <<mem, regs, state>>

Next ==
    \/ NextInitial
    \/ \E fails \in FailSets : NextUnwinding(fails)
    \/ NextDone

Spec == Init /\ [][Next]_vars

\* The caller of next() keeps calling it.
FairSpec == Spec /\ WF_vars(Next)

-----------------------------------------------------------------------------
(* Properties *)

\* Registers hold addresses, and a return-address frame is never null.
TypeOK ==
    /\ IsMemory(mem)
    /\ state.tag \in {"initial", "unwinding", "done"}
    /\ state.frame \in Frame
    /\ regs \in Reg
    /\ ret.tag \in {"frame", "end", "err"}

\* The frame being unwound, and its unwinding when every read succeeds that
\* the memory allows.
LookupIp == address_for_lookup(state.frame)
CleanOutcome == unwind_frame(state.frame, regs, mem, {})

\* A read that fails during one call is reported with its address or does not
\* matter: the call never returns Ok with another caller than it would have
\* found, so that a caller that retries after errors walks the same frames.  The
\* one exception the code makes is a saved RBP that init_and_step cannot read:
\* it is zero, and nothing else is affected.  Frames in a gap between FDEs, where
\* libunwind guesses, are left out.
FailuresContained ==
    state.tag = "unwinding" /\ (has_unwind_info(LookupIp) => Rows[LookupIp] # None) =>
        \A fails \in FailSets :
            LET out == unwind_frame(state.frame, regs, mem, fails) IN
            \/ out = CleanOutcome
            \/ out.tag = "err" /\ out.kind = "CouldNotReadStack" /\ out.addr \in fails
            \/ /\ has_unwind_info(LookupIp)
               /\ out.tag = "some"
               /\ CleanOutcome.tag = "some"
               /\ out.regs = [CleanOutcome.regs EXCEPT !.bp = 0]

\* A frame-pointer step moves the stack pointer and the frame pointer up, or
\* ends the chain, whatever is in the tracee's memory.
FallbackProgress ==
    [][/\ state.tag = "unwinding"
       /\ ~has_unwind_info(LookupIp)
       /\ ret'.tag = "frame"
       => regs'.sp > regs.sp /\ (regs'.bp = 0 \/ regs'.bp > regs.bp)]_vars

\* Frame pointers alone never make a walk endless: a caller that keeps calling
\* next() sees an error, the end, or a frame with unwind information again and
\* again.
NoEndlessWalk ==
    []<>(state.tag = "done" \/ ret.tag = "err" \/ has_unwind_info(LookupIp))

\* A register the step did not recover is not used for the frames above: a
\* row that computes its CFA from it succeeds only on the snapshot's registers.
NoStaleRegister ==
    [][/\ state.tag = "unwinding"
       /\ has_unwind_info(LookupIp)
       /\ Rows[LookupIp] # None
       /\ Rows[LookupIp].cfa = "r10"
       /\ ret'.tag = "frame"
       => regs \in StartRegs]_vars

\* The return address that the current frame's row describes, evaluated at
\* the frame's own address.
RowReturnAddress ==
    LET row == Rows[LookupIp]
        cfa == Wrap(regs[row.cfa] + row.off)
    IN  dwarf_get(access_mem(mem, {}),
                  Location(row.ra, state.frame.addr, cfa, state.frame.addr))

\* unwind_frame recovered a caller of the current frame from a row.
RecoveredFromRow ==
    /\ state.tag = "unwinding"
    /\ has_unwind_info(LookupIp)
    /\ Rows[LookupIp] # None
    /\ CleanOutcome.tag = "some"

\* The row takes the return address from RIP, which libunwind is given one byte
\* short for a frame that is a return address itself.
FromRip == Rows[LookupIp].ra.where \in {"same", "iprel"}

\* The byte that unwind_frame adds is wrong for a return address in a registered
\* module that was loaded from the stack.
LoadedInModule ==
    /\ ~FromRip
    /\ ~is_signal_frame(LookupIp)
    /\ contains_address(RowReturnAddress)

\* The byte is missing for a return address that was computed from RIP and points
\* outside the modules, or was computed in a signal frame.
ComputedOutside ==
    /\ FromRip
    /\ is_signal_frame(LookupIp) \/ ~contains_address(Wrap(RowReturnAddress - 1))

\* The caller's address is the one the row describes: for the innermost frame, for
\* a return address that a signal frame saved, and for every other frame unless
\* the byte is added or missing in one of the two cases above.
CallerExact ==
    RecoveredFromRow =>
        \/ CleanOutcome.regs.ip = RowReturnAddress
        \/ is_return_address(state.frame) /\ (LoadedInModule \/ ComputedOutside)

\* The lookup of a recovered return address lands inside the call instruction,
\* one byte before the return address, for every caller that is not a frame a
\* signal interrupted.
LookupInsideCall ==
    RecoveredFromRow /\ ~is_signal_frame(LookupIp) =>
        address_for_lookup(CallerFrame(state.frame, CleanOutcome.regs.ip))
            = RowReturnAddress - 1
=============================================================================
