---------------------------- MODULE UnwindAarch64 ----------------------------
(***************************************************************************)
(* Walking a stack with UnwindIterator and the aarch64 unwind_frame        *)
(* (src/module.rs, src/aarch64.rs) over the step of LibunwindAarch64.      *)
(*                                                                         *)
(* One call of next() is one step, as in UnwindX86.  A return address may  *)
(* carry a signature above the bits of the walk's PtrAuthMask.  `cached'   *)
(* is the part of the function cache that matters here: the FDEs that      *)
(* find_proc_info has been asked for, by this walk or by an earlier one.   *)
(***************************************************************************)
EXTENDS LibunwindAarch64, FrameAddress, PtrAuthMask

CONSTANTS
    Word,       \* bytes of a stack word
    Memories,   \* tracee memories: functions from readable addresses to words
    Local,      \* the words lookup_local serves from the local mirrors
    StartRegs,  \* register snapshots a walk may start from
    StartIps,   \* and the addresses it may start at
    Kind,       \* what the registry has for a code address, as in UnwindX86
    Fdes,       \* the FDEs: [signal, rows]
    FdeAt,      \* the FDE that covers an address, None if there is none
    Caches,     \* the FDEs that earlier walks may have left in the caches
    FailSets    \* sets of addresses that may be unreadable during one call

Kinds == {"none", "plain", "invalid", "dwarf"}

Reg == [mask : Masks, lr : Addr, sp : Addr, fp : Addr]

IsMemory(m) == DOMAIN m \subseteq Addr /\ \A a \in DOMAIN m : m[a] \in Addr

ASSUME WordAssumption == Word \in Nat \ {0} /\ Masks \subseteq Addr

ASSUME RegistryAssumption ==
    /\ Kind \in [Addr -> Kinds]
    /\ \A id \in DOMAIN Fdes :
         /\ Fdes[id].signal \in {"signal", "plain"}
         /\ Fdes[id].rows \in [Addr -> Row]
         /\ Fdes[id].rows # None /\ \A a \in Addr : Fdes[id].rows[a] # None
    /\ None \notin DOMAIN Fdes
    /\ FdeAt \in [Addr -> DOMAIN Fdes \cup {None}]
    /\ \A a \in Addr : FdeAt[a] # None => Kind[a] = "dwarf"
    /\ Caches \subseteq SUBSET DOMAIN Fdes
    /\ StartRegs \subseteq {r \in Reg : r.lr <= r.mask}
    /\ StartIps \subseteq Addr
    /\ \A m \in Memories : IsMemory(m)
    /\ IsMemory(Local)

VARIABLES
    mem,     \* the tracee's memory
    cached,  \* the FDEs in the function caches
    state,   \* UnwindIteratorState, or "crashed": the process is gone
    regs,    \* the iterator's registers
    ret      \* what the last call returned

vars == <<mem, cached, state, regs, ret>>

-----------------------------------------------------------------------------
(* The registry *)

Frame == {InstructionPointer(a) : a \in Addr}
         \cup {ReturnAddress(a) : a \in Addr \ {0}}

contains_address(a) == Kind[a] # "none"
has_unwind_info(a) == Kind[a] = "dwarf"

\* ModuleSet::is_signal_frame looks at the function cache only.
is_signal_frame(known, a) ==
    FdeAt[a] # None /\ FdeAt[a] \in known /\ Fdes[FdeAt[a]].signal = "signal"

rows(a) == IF FdeAt[a] = None THEN None ELSE Fdes[FdeAt[a]].rows

read_stack(m, fails) ==
    [a \in Addr |-> IF a \in DOMAIN m \ fails THEN m[a] ELSE Fail]

access_mem(m, fails) ==
    [a \in Addr |-> IF a \in DOMAIN Local THEN Local[a]
                    ELSE read_stack(m, fails)[a]]

\* A step calls find_proc_info unless it recognises the sigreturn stub.
IsSignalStub(rd, a) == rd[a] # Fail /\ a \in SigCode
CachedAfter(known, rd, a) ==
    IF IsSignalStub(rd, a) \/ FdeAt[a] = None THEN known ELSE known \cup {FdeAt[a]}

-----------------------------------------------------------------------------
(* unwind_frame *)

\* Ok(Some(ip)) with the caller's registers, Ok(None), Err(kind), and no return.
Caller(ip, r) == [tag |-> "some", ip |-> ip, regs |-> r]
NoCaller == [tag |-> "none"]
Failed(kind, addr) == [tag |-> "err", kind |-> kind, addr |-> addr]
NoReturn == [tag |-> "crash"]

CallerRegs(r, lr, sp, fp) ==
    [mask |-> r.mask, lr |-> strip_ptr_auth(r.mask, lr), sp |-> sp, fp |-> fp]

\* Mutant of fallback_unwind_frame: no test for a null return address.
fallback_NullCaller(current_ip, r, rd) ==
    LET new_sp == r.fp + 2 * Word
        new_fp == rd[r.fp]
        new_lr == rd[r.fp + Word]
    IN  IF r.fp = 0 THEN NoCaller
        ELSE IF new_sp > MaxU THEN Failed("IntegerOverflow", None)
        ELSE IF new_sp <= r.sp THEN Failed("MovedBackwards", None)
        ELSE IF new_fp = Fail THEN Failed("CouldNotReadStack", r.fp)
        ELSE IF new_fp # 0 /\ new_fp <= r.fp THEN Failed("MovedBackwards", None)
        ELSE IF new_lr = Fail THEN Failed("CouldNotReadStack", r.fp + Word)
        ELSE Caller(strip_ptr_auth(r.mask, new_lr), CallerRegs(r, new_lr, new_sp, new_fp))

fallback_unwind_frame(current_ip, r, rd) ==
    LET ra_at == r.fp + Word
        new_sp == r.fp + 2 * Word
        new_fp == rd[r.fp]
        new_lr == rd[ra_at]
        return_address == strip_ptr_auth(r.mask, new_lr)
    IN  IF r.fp = 0 THEN NoCaller
        ELSE IF new_sp > MaxU THEN Failed("IntegerOverflow", None)
        ELSE IF new_sp <= r.sp THEN Failed("MovedBackwards", None)
        ELSE IF new_fp = Fail THEN Failed("CouldNotReadStack", r.fp)
        ELSE IF new_fp # 0 /\ new_fp <= r.fp THEN Failed("MovedBackwards", None)
        ELSE IF new_lr = Fail THEN Failed("CouldNotReadStack", ra_at)
        ELSE IF return_address = 0 THEN NoCaller
        ELSE IF return_address = current_ip /\ new_sp = r.sp
             THEN Failed("DidNotAdvance", None)
        ELSE Caller(return_address, CallerRegs(r, new_lr, new_sp, new_fp))

\* Mutants of AdjustedIp: the module is looked up by the signed address; the
\* frame that a signal interrupted is adjusted too.
AdjustedIp_SignedLookup(f, r, known, new_ip) ==
    LET lookup_ip == strip_ptr_auth(r.mask, address_for_lookup(f))
        return_address == strip_ptr_auth(r.mask, new_ip)
    IN  IF /\ is_return_address(f)
           /\ ~is_signal_frame(known, lookup_ip)
           /\ contains_address(new_ip)
        THEN return_address + 1
        ELSE return_address

AdjustedIp_Signal(f, r, known, new_ip) ==
    LET return_address == strip_ptr_auth(r.mask, new_ip)
    IN  IF is_return_address(f) /\ contains_address(return_address)
        THEN return_address + 1
        ELSE return_address

\* The return address that is reported for the one libunwind recovered.
AdjustedIp(f, r, known, new_ip) ==
    LET lookup_ip == strip_ptr_auth(r.mask, address_for_lookup(f))
        return_address == strip_ptr_auth(r.mask, new_ip)
    IN  IF /\ is_return_address(f)
           /\ ~is_signal_frame(known, lookup_ip)
           /\ contains_address(return_address)
        THEN return_address + 1
        ELSE return_address

\* The match on the outcome of init_and_step; `known' is the cache after it.
StepResult(f, r, known, step) ==
    LET current_ip == strip_ptr_auth(r.mask, f.addr)
        lookup_ip == strip_ptr_auth(r.mask, address_for_lookup(f))
        new_ip == AdjustedIp(f, r, known, step.ip)
    IN  IF step.ret = "crash" THEN NoReturn
        ELSE IF step.ret = "end" THEN NoCaller
        ELSE IF step.ret = "error"
             THEN IF step.failed # None THEN Failed("CouldNotReadStack", step.failed)
                  ELSE IF FdeAt[lookup_ip] = None /\ lookup_ip \notin SigCode
                       THEN Failed("UnwindInfo", None)
                  ELSE Failed("Libunwind", None)
        ELSE IF strip_ptr_auth(r.mask, step.ip) = 0 THEN NoCaller
        ELSE IF new_ip > MaxU THEN Failed("IntegerOverflow", None)
        ELSE IF new_ip = current_ip /\ step.sp = r.sp THEN Failed("DidNotAdvance", None)
        ELSE Caller(new_ip, CallerRegs(r, step.lr, step.sp, step.fp))

unwind_frame(f, r, known, m, fails) ==
    LET lookup_ip == strip_ptr_auth(r.mask, address_for_lookup(f))
        rd == access_mem(m, fails)
    IN  IF Kind[lookup_ip] = "invalid" THEN Failed("UnwindInfo", None)
        ELSE IF ~has_unwind_info(lookup_ip)
             THEN fallback_unwind_frame(strip_ptr_auth(r.mask, f.addr), r,
                                        read_stack(m, fails))
        ELSE StepResult(f, r, CachedAfter(known, rd, lookup_ip),
                        unw_step(rd, rows(lookup_ip), lookup_ip, r))

-----------------------------------------------------------------------------
(* UnwindIterator *)

Initial(pc) == [tag |-> "initial", frame |-> InstructionPointer(pc)]
Unwinding(f) == [tag |-> "unwinding", frame |-> f]
Done == [tag |-> "done", frame |-> InstructionPointer(0)]
Crashed == [tag |-> "crashed", frame |-> InstructionPointer(0)]

\* What next() may return.
Frames(f) == [tag |-> "frame", frame |-> f]
EndOfWalk == [tag |-> "end"]

Init ==
    /\ mem \in Memories
    /\ cached \in Caches
    /\ regs \in StartRegs
    /\ state \in {Initial(pc) : pc \in StartIps}
    /\ ret = EndOfWalk

NextInitial ==
    /\ state.tag = "initial"
    /\ state' = Unwinding(state.frame)
    /\ ret' = Frames(state.frame)
    /\ UNCHANGED <<mem, cached, regs>>

\* The address the current frame is looked up at.
LookupIp == strip_ptr_auth(regs.mask, address_for_lookup(state.frame))

\* The frame after the current one, whose return address is ra.  `next` would end
\* the walk for a null address; TypeOK shows that none comes.
CallerFrame(known, ra) ==
    IF is_signal_frame(known, LookupIp) THEN InstructionPointer(ra)
    ELSE ReturnAddress(ra)

NextUnwinding(fails) ==
    LET out == unwind_frame(state.frame, regs, cached, mem, fails)
        known == CachedAfter(cached, access_mem(mem, fails), LookupIp)
    IN  /\ state.tag = "unwinding"
        /\ cached' = known
        /\ \/ /\ out.tag = "some"
              /\ regs' = out.regs
              /\ state' = Unwinding(CallerFrame(known, out.ip))
              /\ ret' = Frames(CallerFrame(known, out.ip))
           \/ /\ out.tag = "none"
              /\ state' = Done
              /\ ret' = EndOfWalk
              /\ UNCHANGED regs
           \/ /\ out.tag = "err"
              /\ ret' = out
              /\ UNCHANGED <<regs, state>>
           \/ /\ out.tag = "crash"
              /\ state' = Crashed
              /\ UNCHANGED <<regs, ret>>
        /\ UNCHANGED mem

NextDone ==
    /\ state.tag = "done"
    /\ ret' = EndOfWalk
    /\ UNCHANGED <<mem, cached, regs, state>>

Next ==
    \/ NextInitial
    \/ \E fails \in FailSets : NextUnwinding(fails)
    \/ NextDone

Spec == Init /\ [][Next]_vars

-----------------------------------------------------------------------------
(* Properties *)

\* Registers and frames hold addresses, the link register never a signature,
\* and a return-address frame is never null.
TypeOK ==
    /\ IsMemory(mem)
    /\ cached \subseteq DOMAIN Fdes
    /\ state.tag \in {"initial", "unwinding", "done", "crashed"}
    /\ state.frame \in Frame
    /\ regs \in Reg
    /\ regs.lr <= regs.mask
    /\ ret.tag \in {"frame", "end", "err"}

CleanOutcome == unwind_frame(state.frame, regs, cached, mem, {})

\* The code word of the current frame can be read and is not the sigreturn stub.
OrdinaryCode ==
    /\ access_mem(mem, {})[LookupIp] # Fail
    /\ LookupIp \notin SigCode

\* What the row of the current frame describes.
CurrentRow == Fdes[FdeAt[LookupIp]].rows[LookupIp]
RowCfa == Wrap(regs[CurrentRow.cfa] + CurrentRow.off)
RowReturnAddress ==
    strip_ptr_auth(regs.mask, dwarf_get(access_mem(mem, {}),
                                        Location(CurrentRow.lr, regs.lr, RowCfa)))
RowFp == dwarf_get(access_mem(mem, {}), Location(CurrentRow.fp, regs.fp, RowCfa))

\* The row can be used: its CFI can be read, and its CFA does not need a register
\* that a snapshot does not have.
RowUsable ==
    /\ CurrentRow.cfa # "reg"
    /\ CurrentRow.cfi # None => access_mem(mem, {})[CurrentRow.cfi] # Fail

\* Where libunwind evaluates the rows of the current frame's FDE, and that row.
StepIp == IF access_mem(mem, {})[LookupIp] = Fail THEN regs.lr ELSE LookupIp
StepRow == Fdes[FdeAt[LookupIp]].rows[StepIp]
StepCfa == Wrap(regs[StepRow.cfa] + StepRow.off)

\* The word that a rule of this row refers to.
SavedAt(rule) == IF rule.where = "cfarel" THEN {Wrap(StepCfa + rule.val)} ELSE {}

\* The word that holds the current frame's return address, if it is in memory and
\* nothing else is kept in it.
ReturnSlot ==
    IF ~has_unwind_info(LookupIp) THEN {regs.fp + Word}
    ELSE IF IsSignalStub(access_mem(mem, {}), LookupIp) THEN {Wrap(regs.sp + ScPc)}
    ELSE IF FdeAt[LookupIp] # None /\ StepRow.cfa # "reg"
         THEN SavedAt(StepRow.lr) \ SavedAt(StepRow.fp)
    ELSE {}

\* The frame returns to itself and keeps the stack pointer, which libunwind
\* notices only if the return address is not signed.
ReturnsToItself(ra) ==
    /\ FdeAt[LookupIp] # None
    /\ StepCfa = regs.sp
    /\ strip_ptr_auth(regs.mask, ra) = StepIp

\* A signature in the bits that the mask clears changes nothing: whatever the
\* return address of the frame is signed with, the call returns what it would
\* return for the plain address, unless libunwind does not come back, or the frame
\* returns to itself and is taken for the end of the stack.
SignaturesInvisible ==
    state.tag = "unwinding" =>
        \A a \in ReturnSlot \cap DOMAIN mem :
        \A signed \in {x \in Addr : strip_ptr_auth(regs.mask, x)
                                      = strip_ptr_auth(regs.mask, mem[a])} :
            LET out == unwind_frame(state.frame, regs, cached,
                                    [mem EXCEPT ![a] = signed], {})
            IN  \/ out = CleanOutcome
                \/ NoReturn \in {out, CleanOutcome}
                \/ NoCaller \in {out, CleanOutcome} /\ ReturnsToItself(mem[a])

\* A return address in a module, recovered for a frame that is a return address
\* itself and not a signal frame, is reported one byte off (see UnwindX86).
ReportedOneOff ==
    /\ is_return_address(state.frame)
    /\ ~is_signal_frame(cached \cup {FdeAt[LookupIp]}, LookupIp)
    /\ contains_address(RowReturnAddress)

\* The caller that unwind_frame returns for a frame with unwind information and
\* readable code is the one its row describes, without the signature: its link
\* register is the return address, its stack pointer the CFA, and its frame pointer
\* the saved one or zero.  If the row cannot be used, only a PLT entry is left, and
\* every register stays what it was.
CallerExact ==
    /\ state.tag = "unwinding"
    /\ FdeAt[LookupIp] # None
    /\ OrdinaryCode
    /\ CleanOutcome.tag = "some"
    => IF RowUsable
       THEN /\ CleanOutcome.regs.lr = RowReturnAddress
            /\ CleanOutcome.regs.sp = RowCfa
            /\ CleanOutcome.regs.fp = IF RowFp = Fail THEN 0 ELSE RowFp
            /\ ReportedOneOff \/ CleanOutcome.ip = RowReturnAddress
       ELSE LookupIp \in DOMAIN PltCode /\ CleanOutcome.regs = regs

\* libunwind leaves a PLT entry by the link register if it cannot read the CFI.
SteppedWithoutRow(fails) ==
    /\ FdeAt[LookupIp] # None
    /\ LookupIp \in DOMAIN PltCode
    /\ CurrentRow.cfi \in fails

\* An outcome for a step that should have ended the stack.
WalkedOn(out) ==
    \/ out.tag = "some" /\ out.regs.fp = 0
    \/ out.tag = "err" /\ out.kind \in {"IntegerOverflow", "DidNotAdvance"}

\* A read that fails, other than of the frame's own code or of a PLT entry's row,
\* is reported with its address, does not matter, loses the caller's frame pointer
\* (or, with it, the end of the stack) and nothing else, or libunwind does not come
\* back.  A signal frame is an exception: a PC or SP that cannot be read there is
\* kept.
FailuresContained ==
    state.tag = "unwinding" /\ (has_unwind_info(LookupIp) => OrdinaryCode) =>
        \A fails \in FailSets :
            LET out == unwind_frame(state.frame, regs, cached, mem, fails) IN
            \/ LookupIp \in fails \/ SteppedWithoutRow(fails)
            \/ out = CleanOutcome
            \/ out = NoReturn
            \/ out.tag = "err" /\ out.kind = "CouldNotReadStack" /\ out.addr \in fails
            \/ CleanOutcome.tag = "some" /\ out = [CleanOutcome EXCEPT !.regs.fp = 0]
            \/ CleanOutcome = NoCaller /\ WalkedOn(out)

\* libunwind comes back from every step: get_proc_name, which the accessor table
\* leaves out, is optional.
StepReturns == state.tag # "crashed"
=============================================================================
