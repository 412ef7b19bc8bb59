------------------------ MODULE UnwindAarch64Proofs ------------------------
(***************************************************************************)
(* Proofs about UnwindAarch64, for every memory, registry, mask and set of *)
(* failing reads: the walk's state keeps its type, so that no signature    *)
(* gets into the link register, failed reads are contained, and the rows   *)
(* of the unwind table are applied as they are meant.                      *)
(***************************************************************************)
EXTENDS UnwindAarch64, TLAPS

\* The range of a remainder.
LEMMA ModRange ==
    ASSUME NEW a \in Int, NEW b \in Nat, b > 0
    PROVE  a % b \in 0 .. b - 1
OBVIOUS

\* What a memory access can yield.
Reader == [Addr -> Addr \cup {Fail}]

\* Wrapping arithmetic yields addresses.
LEMMA WrapType ==
    ASSUME NEW n \in Int PROVE Wrap(n) \in Addr
<1>1. MaxU + 1 \in Nat /\ MaxU + 1 > 0
  BY WidthAssumption
<1>2. n % (MaxU + 1) \in 0 .. (MaxU + 1) - 1
  BY <1>1, ModRange, Zenon
<1> QED BY <1>2, WidthAssumption DEF Wrap, Addr

\* A stripped address has no bit outside the mask.
LEMMA StripType ==
    ASSUME NEW mask \in Masks, NEW a \in Addr
    PROVE  strip_ptr_auth(mask, a) \in Addr /\ strip_ptr_auth(mask, a) <= mask
<1>1. MaxU \in Nat /\ mask \in 0 .. MaxU /\ a \in 0 .. MaxU
  BY WordAssumption, WidthAssumption, Zenon DEF Addr
<1>2. a % (mask + 1) \in 0 .. (mask + 1) - 1
  BY <1>1, ModRange
<1> QED BY <1>1, <1>2 DEF strip_ptr_auth, Addr

\* read_stack and access_mem yield words or failures.
LEMMA ReaderType ==
    ASSUME NEW m, IsMemory(m), NEW fails
    PROVE  read_stack(m, fails) \in Reader /\ access_mem(m, fails) \in Reader
<1>1. read_stack(m, fails) \in Reader
  BY Zenon DEF IsMemory, read_stack, Reader
<1>2. access_mem(m, fails) \in Reader
  BY <1>1, RegistryAssumption, Zenon DEF IsMemory, access_mem, Reader
<1> QED BY <1>1, <1>2, Zenon

-----------------------------------------------------------------------------
(* Types *)

\* A register's location holds an address, is null or cannot be read.
Locations == {<<"null", 0>>, <<"badreg", 0>>} \cup ({"val", "mem"} \X Addr)

\* What dwarf_step leaves in the cursor.
CursorType == [ok : {"yes", "no"}, ip : Addr, cfa : Addr, lr : Locations, fp : Locations]

\* The possible results of a libunwind step.
StepOutcome ==
    [ret : {"stepped"}, ip : Addr, sp : Addr, fp : Addr, lr : Addr]
    \cup {EndOfStack, Crash}
    \cup {StepError(a) : a \in Addr \cup {None}}

\* Memory locations and the location of a register.
LEMMA LocationType ==
    ASSUME NEW rule \in Rule, NEW reg \in Addr, NEW cfa \in Addr
    PROVE  Location(rule, reg, cfa) \in Locations
<1>1. cfa + rule.val \in Int
  BY WidthAssumption DEF Rule, Addr
<1>2. Wrap(cfa + rule.val) \in Addr
  BY <1>1, WrapType, Zenon
<1>3. rule.where \in {"undef", "same", "cfarel", "reg"}
  BY Zenon DEF Rule
<1> QED BY <1>2, <1>3, Zenon DEF Location, MemLocation, Locations

\* A location yields a word or a failure.
LEMMA GetType ==
    ASSUME NEW rd \in Reader, NEW loc \in Locations
    PROVE  /\ dwarf_get(rd, loc) \in Addr \cup {Fail}
           /\ loc[2] \in Addr
<1>1. 0 \in Addr
  BY WidthAssumption DEF Addr
<1> QED BY <1>1 DEF dwarf_get, Reader, Locations

\* A step's result is one of the possible ones.
LEMMA SteppedType ==
    ASSUME NEW ip \in Addr, NEW cfa \in Addr, NEW fp \in Addr \cup {Fail}
    PROVE  Stepped(ip, cfa, fp) \in StepOutcome
<1>1. 0 \in Addr
  BY WidthAssumption DEF Addr
<1> QED BY <1>1, Zenon DEF Stepped, StepOutcome

\* The cursor after dwarf_step.
LEMMA DwarfStepType ==
    ASSUME NEW rd \in Reader, NEW row \in Row \cup {None}, NEW ip \in Addr, NEW r \in Reg
    PROVE  dwarf_step(rd, row, ip, r) \in CursorType
<1> DEFINE cfa == Wrap(r[row.cfa] + row.off)
           lr == Location(row.lr, r.lr, cfa)
           fp == Location(row.fp, r.fp, cfa)
           new_ip == IF lr[1] = "null" THEN 0 ELSE dwarf_get(rd, lr)
           bad == \/ row = None
                  \/ row.cfi # None /\ rd[row.cfi] = Fail
                  \/ row.cfa = "reg"
           C(ok, new) == [ok |-> ok, ip |-> new, cfa |-> cfa, lr |-> lr, fp |-> fp]
<1>1. dwarf_step(rd, row, ip, r) =
        IF bad THEN [ok |-> "no", ip |-> ip, cfa |-> r.sp, lr |-> <<"val", r.lr>>,
                     fp |-> <<"val", r.fp>>]
        ELSE IF new_ip = Fail THEN C("no", ip)
        ELSE IF new_ip = ip /\ cfa = r.sp THEN C("no", ip)
        ELSE C("yes", new_ip)
  BY Zenon DEF dwarf_step
<1>2. r.sp \in Addr /\ r.fp \in Addr /\ r.lr \in Addr
  BY Zenon DEF Reg
<1>3. CASE bad
  BY <1>1, <1>2, <1>3 DEF CursorType, Locations
<1>4. CASE ~bad
  <2>1. row \in Row /\ row.cfa \in {"sp", "fp"} /\ row.off \in Int
        /\ row.lr \in Rule /\ row.fp \in Rule
    BY <1>4, Zenon DEF Row
  <2>2. r[row.cfa] \in Addr
    BY <1>2, <2>1, Zenon
  <2>3. r[row.cfa] + row.off \in Int
    BY <2>1, <2>2, WidthAssumption DEF Addr
  <2>4. cfa \in Addr
    BY <2>3, WrapType, Zenon
  <2> HIDE DEF cfa, bad
  <2>5. lr \in Locations /\ fp \in Locations
    BY <1>2, <2>1, <2>4, LocationType, Zenon
  <2> HIDE DEF lr, fp
  <2>6. 0 \in Addr
    BY WidthAssumption DEF Addr
  <2>7. new_ip \in Addr \cup {Fail}
    BY <2>5, <2>6, GetType, Zenon
  <2> HIDE DEF new_ip
  <2> QED BY <1>1, <1>4, <2>4, <2>5, <2>7 DEF CursorType
<1> QED BY <1>3, <1>4, Zenon

\* The fallback for PLT entries.
LEMMA PltStepType ==
    ASSUME NEW rd \in Reader, NEW cursor \in CursorType, NEW failed \in Addr \cup {None}
    PROVE  PltStep(rd, cursor, failed) \in StepOutcome
<1> DEFINE new_ip == IF cursor.lr[1] = "null" THEN 0 ELSE dwarf_get(rd, cursor.lr)
<1>1. cursor.lr \in Locations /\ cursor.fp \in Locations /\ cursor.cfa \in Addr
  BY Zenon DEF CursorType
<1>2. /\ new_ip \in Addr \cup {Fail} /\ cursor.lr[2] \in Addr
      /\ dwarf_get(rd, cursor.fp) \in Addr \cup {Fail}
  <2>1. 0 \in Addr
    BY WidthAssumption DEF Addr
  <2> QED BY <1>1, <2>1, GetType, Zenon
<1>3. PltStep(rd, cursor, failed) =
        IF new_ip = Fail
        THEN StepError(IF cursor.lr[1] = "mem" THEN cursor.lr[2] ELSE failed)
        ELSE IF new_ip = 0 THEN EndOfStack
        ELSE Stepped(new_ip, cursor.cfa, dwarf_get(rd, cursor.fp))
  BY Zenon DEF PltStep
<1> HIDE DEF new_ip
<1>4. new_ip # Fail => Stepped(new_ip, cursor.cfa, dwarf_get(rd, cursor.fp)) \in StepOutcome
  BY <1>1, <1>2, SteppedType, Zenon
<1> QED BY <1>2, <1>3, <1>4, Zenon DEF StepOutcome

\* The step out of a signal handler.
LEMMA SignalStepType ==
    ASSUME NEW rd \in Reader, NEW ip \in Addr, NEW r \in Reg
    PROVE  SignalStep(rd, ip, r) \in StepOutcome
<1> DEFINE loc(o) == MemLocation(Wrap(r.sp + o))
           got(o) == dwarf_get(rd, loc(o))
           lost(o) == loc(o)[1] = "mem" /\ got(o) = Fail
           records == Wrap(r.sp + ScRecords)
           failed == IF rd[records] = Fail THEN records
                     ELSE IF lost(ScPc) THEN loc(ScPc)[2]
                     ELSE IF lost(ScSp) THEN loc(ScSp)[2]
                     ELSE None
           new_ip == IF got(ScPc) = Fail THEN ip ELSE got(ScPc)
           new_sp == IF got(ScSp) = Fail THEN r.sp ELSE got(ScSp)
<1>1. r.sp \in Addr
  BY Zenon DEF Reg
<1>2. \A o \in Nat : Wrap(r.sp + o) \in Addr
  <2> TAKE o \in Nat
  <2>1. r.sp + o \in Int
    BY <1>1, WidthAssumption DEF Addr
  <2> QED BY <2>1, WrapType, Zenon
<1>3. \A o \in Nat : loc(o) \in Locations
  BY <1>2, Zenon DEF MemLocation, Locations
<1>4. records \in Addr
  BY <1>2, CodeAssumption
<1> HIDE DEF loc
<1>5. \A o \in Nat : got(o) \in Addr \cup {Fail} /\ loc(o)[2] \in Addr
  BY <1>3, GetType, Zenon
<1>6. SignalStep(rd, ip, r) =
        IF got(0) = Fail THEN StepError(IF lost(0) THEN r.sp ELSE None)
        ELSE IF rd[records] # 0 THEN StepError(failed)
        ELSE Stepped(new_ip, new_sp, got(ScFp))
  BY Zenon DEF SignalStep, loc
<1> HIDE DEF got, records
<1>7. failed \in Addr \cup {None}
  BY <1>4, <1>5, CodeAssumption
<1>8. new_ip \in Addr /\ new_sp \in Addr /\ got(ScFp) \in Addr \cup {Fail}
  BY <1>1, <1>5, CodeAssumption
<1> HIDE DEF failed, new_ip, new_sp, lost
<1>9. Stepped(new_ip, new_sp, got(ScFp)) \in StepOutcome
  BY <1>8, SteppedType, Zenon
<1> QED BY <1>1, <1>6, <1>7, <1>9, Zenon DEF StepOutcome

\* A libunwind step.
LEMMA UnwStepType ==
    ASSUME NEW rd \in Reader, NEW rws \in [Addr -> Row] \cup {None}, NEW ip \in Addr,
           NEW r \in Reg
    PROVE  unw_step(rd, rws, ip, r) \in StepOutcome
<1> DEFINE at == IF rd[ip] = Fail THEN r.lr ELSE ip
           row == IF rws = None THEN None ELSE rws[at]
           cursor == dwarf_step(rd, row, at, r)
           fp == dwarf_get(rd, cursor.fp)
           failed == IF rd[ip] = Fail THEN ip ELSE None
<1>1. at \in Addr
  BY Zenon DEF Reg
<1>2. row \in Row \cup {None}
  BY <1>1, Zenon
<1> HIDE DEF at, row
<1>3. cursor \in CursorType
  BY <1>1, <1>2, DwarfStepType, Zenon
<1> HIDE DEF cursor
<1>4. cursor.ip \in Addr /\ cursor.cfa \in Addr /\ cursor.fp \in Locations
  BY <1>3, Zenon DEF CursorType
<1>5. fp \in Addr \cup {Fail}
  BY <1>4, GetType, Zenon
<1>6. PltStep(rd, cursor, failed) \in StepOutcome
  BY <1>3, PltStepType, Zenon
<1>7. Stepped(cursor.ip, cursor.cfa, fp) \in StepOutcome
  BY <1>4, <1>5, SteppedType, Zenon
<1>8. unw_step(rd, rws, ip, r) =
        IF rd[ip] # Fail /\ ip \in SigCode THEN SignalStep(rd, ip, r)
        ELSE IF cursor.ok = "yes" /\ (cursor.ip = 0 \/ fp = 0) THEN EndOfStack
        ELSE IF cursor.ok = "yes" /\ fp # Fail THEN Stepped(cursor.ip, cursor.cfa, fp)
        ELSE IF is_plt_entry(rd, cursor.ip) THEN PltStep(rd, cursor, failed)
        ELSE Crash
  BY Zenon DEF unw_step, cursor, row, at
<1> HIDE DEF fp, failed
<1>9. SignalStep(rd, ip, r) \in StepOutcome
  BY SignalStepType, Zenon
<1>10. EndOfStack \in StepOutcome /\ Crash \in StepOutcome
  BY Zenon DEF StepOutcome
<1> QED BY <1>6, <1>7, <1>8, <1>9, <1>10, Zenon

-----------------------------------------------------------------------------
(* unwind_frame *)

\* A frame's lookup address is an address: a return address is not null.
LEMMA LookupType ==
    ASSUME NEW f \in Frame
    PROVE  address_for_lookup(f) \in Addr /\ f.addr \in Addr
<1>1. CASE f \in {InstructionPointer(a) : a \in Addr}
  BY <1>1 DEF InstructionPointer, address_for_lookup
<1>2. CASE f \in {ReturnAddress(a) : a \in Addr \ {0}}
  <2>1. PICK a \in Addr \ {0} : f = ReturnAddress(a)
    BY <1>2, Zenon
  <2>2. f.kind = "ra" /\ f.addr = a
    BY <2>1, Zenon DEF ReturnAddress
  <2>3. a - 1 \in Addr
    BY WidthAssumption DEF Addr
  <2> QED BY <2>2, <2>3, Zenon DEF address_for_lookup
<1> QED BY <1>1, <1>2, Zenon DEF Frame

\* What unwind_frame may return.
IsOutcome(out) ==
    /\ out.tag \in {"some", "none", "err", "crash"}
    /\ out.tag = "some" => /\ out.regs \in Reg
                           /\ out.regs.lr <= out.regs.mask
                           /\ out.ip \in Addr \ {0}

\* The outcomes that are not a caller.
LEMMA NoCallerType ==
    /\ IsOutcome(NoCaller) /\ IsOutcome(NoReturn)
    /\ \A k, a : IsOutcome(Failed(k, a))
BY Zenon DEF IsOutcome, NoCaller, NoReturn, Failed

\* A caller: its link register is stripped.
LEMMA CallerType ==
    ASSUME NEW r \in Reg, NEW ip \in Addr \ {0}, NEW lr \in Addr, NEW sp \in Addr,
           NEW fp \in Addr
    PROVE  IsOutcome(Caller(ip, CallerRegs(r, lr, sp, fp)))
<1>1. r.mask \in Masks
  BY Zenon DEF Reg
<1>2. strip_ptr_auth(r.mask, lr) \in Addr /\ strip_ptr_auth(r.mask, lr) <= r.mask
  BY <1>1, StripType, Zenon
<1> QED BY <1>1, <1>2, Zenon DEF IsOutcome, Caller, CallerRegs, Reg

\* The step by frame pointers.
LEMMA FallbackType ==
    ASSUME NEW rd \in Reader, NEW r \in Reg, NEW cur
    PROVE  IsOutcome(fallback_unwind_frame(cur, r, rd))
<1> DEFINE new_sp == r.fp + 2 * Word
           ra_at == r.fp + Word
           new_fp == rd[r.fp]
           new_lr == rd[ra_at]
           return_address == strip_ptr_auth(r.mask, new_lr)
           out == fallback_unwind_frame(cur, r, rd)
           caller == Caller(return_address, CallerRegs(r, new_lr, new_sp, new_fp))
<1>1. \/ out = NoCaller
      \/ \E k, a : out = Failed(k, a)
      \/ /\ ~(new_sp > MaxU) /\ new_fp # Fail /\ new_lr # Fail /\ return_address # 0
         /\ out = caller
  BY Zenon DEF fallback_unwind_frame
<1>2. ASSUME ~(new_sp > MaxU), new_fp # Fail, new_lr # Fail, return_address # 0
      PROVE  IsOutcome(caller)
  <2>1. r.fp \in 0 .. MaxU /\ MaxU \in Nat /\ Word \in Nat /\ r.mask \in Masks
    BY WidthAssumption, WordAssumption, Zenon DEF Reg, Addr
  <2>2. ra_at \in Addr /\ new_sp \in Addr /\ r.fp \in Addr
    BY <1>2, <2>1 DEF Addr
  <2>3. new_fp \in Addr /\ new_lr \in Addr
    BY <1>2, <2>2, Zenon DEF Reader
  <2> HIDE DEF new_sp, new_fp, new_lr
  <2>4. return_address \in Addr \ {0}
    BY <1>2, <2>1, <2>3, StripType, Zenon
  <2> HIDE DEF return_address
  <2> QED BY <2>2, <2>3, <2>4, CallerType, Zenon
<1> HIDE DEF out, caller
<1>3. IsOutcome(out)
  BY <1>1, <1>2, NoCallerType, Zenon
<1> QED BY <1>3, Zenon DEF out

\* What unwind_frame makes of a libunwind step.
LEMMA StepResultType ==
    ASSUME NEW f \in Frame, NEW r \in Reg, NEW known, NEW step \in StepOutcome
    PROVE  IsOutcome(StepResult(f, r, known, step))
<1> DEFINE out == StepResult(f, r, known, step)
<1>1. CASE step \in [ret : {"stepped"}, ip : Addr, sp : Addr, fp : Addr, lr : Addr]
  <2> DEFINE new_ip == AdjustedIp(f, r, known, step.ip)
             plain == strip_ptr_auth(r.mask, step.ip)
             caller == Caller(new_ip, CallerRegs(r, step.lr, step.sp, step.fp))
  <2>1. /\ step.ret = "stepped" /\ step.ip \in Addr
        /\ step.sp \in Addr /\ step.fp \in Addr /\ step.lr \in Addr
    BY <1>1, Zenon
  <2>2. plain \in Addr
    BY <2>1, StripType, Zenon DEF Reg
  <2>3. new_ip = plain \/ new_ip = plain + 1
    BY Zenon DEF AdjustedIp
  <2>4. \/ out = NoCaller
        \/ \E k, a : out = Failed(k, a)
        \/ plain # 0 /\ ~(new_ip > MaxU) /\ out = caller
    BY <2>1, Zenon DEF StepResult
  <2> HIDE DEF plain, new_ip, out
  <2>5. plain # 0 /\ ~(new_ip > MaxU) => new_ip \in Addr \ {0}
    BY <2>2, <2>3, WidthAssumption DEF Addr
  <2>6. new_ip \in Addr \ {0} => IsOutcome(caller)
    BY <2>1, CallerType, Zenon
  <2> HIDE DEF caller
  <2>7. IsOutcome(out)
    BY <2>4, <2>5, <2>6, NoCallerType, Zenon
  <2> QED BY <2>7, Zenon DEF out
<1>2. CASE step \in {EndOfStack, Crash}
  <2>1. out = NoCaller \/ out = NoReturn
    BY <1>2 DEF EndOfStack, Crash, StepResult
  <2> QED BY <2>1, NoCallerType, Zenon
<1>3. CASE step \in {StepError(a) : a \in Addr \cup {None}}
  <2>1. step.ret = "error"
    BY <1>3 DEF StepError
  <2>2. \E k, a : out = Failed(k, a)
    BY <2>1, Zenon DEF StepResult
  <2> QED BY <2>2, NoCallerType, Zenon
<1> QED BY <1>1, <1>2, <1>3, Zenon DEF StepOutcome

\* The FDE of an address, if any.
LEMMA RowsType ==
    ASSUME NEW a \in Addr
    PROVE  rows(a) \in [Addr -> Row] \cup {None}
BY RegistryAssumption, Zenon DEF rows

\* What unwind_frame returns.
LEMMA UnwindFrameType ==
    ASSUME NEW f \in Frame, NEW r \in Reg, NEW known, NEW m, IsMemory(m), NEW fails
    PROVE  IsOutcome(unwind_frame(f, r, known, m, fails))
<1> DEFINE ip == strip_ptr_auth(r.mask, address_for_lookup(f))
           rd == access_mem(m, fails)
           step == unw_step(rd, rows(ip), ip, r)
           fallback == fallback_unwind_frame(strip_ptr_auth(r.mask, f.addr), r,
                                             read_stack(m, fails))
           stepped == StepResult(f, r, CachedAfter(known, rd, ip), step)
<1>1. ip \in Addr
  BY LookupType, StripType, Zenon DEF Reg
<1>2. read_stack(m, fails) \in Reader /\ rd \in Reader
  BY ReaderType, Zenon
<1>3. unwind_frame(f, r, known, m, fails) =
        IF Kind[ip] = "invalid" THEN Failed("UnwindInfo", None)
        ELSE IF ~has_unwind_info(ip) THEN fallback
        ELSE stepped
  BY Zenon DEF unwind_frame
<1> HIDE DEF ip, rd
<1>4. rows(ip) \in [Addr -> Row] \cup {None}
  BY <1>1, RowsType, Zenon
<1>5. step \in StepOutcome
  BY <1>1, <1>2, <1>4, UnwStepType, Zenon
<1> HIDE DEF step
<1>6. IsOutcome(stepped)
  BY <1>5, StepResultType, Zenon
<1>7. IsOutcome(fallback)
  BY <1>2, FallbackType, Zenon
<1> HIDE DEF stepped, fallback
<1> QED BY <1>3, <1>6, <1>7, NoCallerType, Zenon

-----------------------------------------------------------------------------
(* The type invariant *)

\* Every call of next() preserves the type invariant.
LEMMA TypeStep == TypeOK /\ [Next]_vars => TypeOK'
<1> SUFFICES ASSUME TypeOK, [Next]_vars PROVE TypeOK'
  BY Zenon
<1>1. CASE NextInitial
  BY <1>1, Zenon DEF NextInitial, TypeOK, Unwinding, Frames
<1>2. ASSUME NEW fails \in FailSets, NextUnwinding(fails) PROVE TypeOK'
  <2> DEFINE out == unwind_frame(state.frame, regs, cached, mem, fails)
             known == CachedAfter(cached, access_mem(mem, fails), LookupIp)
             next == CallerFrame(known, out.ip)
  <2>1. /\ state.frame \in Frame /\ regs \in Reg /\ IsMemory(mem)
        /\ cached \subseteq DOMAIN Fdes
    BY Zenon DEF TypeOK
  <2>2. IsOutcome(out)
    BY <2>1, UnwindFrameType, Zenon
  <2>3. LookupIp \in Addr
    BY <2>1, LookupType, StripType, Zenon DEF LookupIp, Reg
  <2>4. known \subseteq DOMAIN Fdes
    <3>1. FdeAt[LookupIp] = None \/ FdeAt[LookupIp] \in DOMAIN Fdes
      BY <2>3, RegistryAssumption, Zenon
    <3> QED BY <2>1, <3>1, Zenon DEF CachedAfter
  <2>5. /\ mem' = mem /\ cached' = known
        /\ \/ /\ out.tag = "some" /\ regs' = out.regs
              /\ state' = Unwinding(next) /\ ret' = Frames(next)
           \/ state' = Done /\ ret' = EndOfWalk /\ regs' = regs
           \/ out.tag = "err" /\ ret' = out /\ UNCHANGED <<regs, state>>
           \/ state' = Crashed /\ UNCHANGED <<regs, ret>>
    BY <1>2, Zenon DEF NextUnwinding
  <2>6. out.tag = "some" => next \in Frame
    BY <2>2, Zenon DEF IsOutcome, CallerFrame, Frame
  <2>7. InstructionPointer(0) \in Frame
    BY WidthAssumption DEF Frame, Addr
  <2> HIDE DEF out, known, next
  <2>8. CASE /\ out.tag = "some" /\ regs' = out.regs
             /\ state' = Unwinding(next) /\ ret' = Frames(next)
    BY <2>1, <2>2, <2>4, <2>5, <2>6, <2>8, Zenon DEF TypeOK, IsOutcome, Unwinding, Frames
  <2>9. CASE state' = Done /\ ret' = EndOfWalk /\ regs' = regs
    BY <2>4, <2>5, <2>7, <2>9, Zenon DEF TypeOK, Done, EndOfWalk
  <2>10. CASE out.tag = "err" /\ ret' = out /\ UNCHANGED <<regs, state>>
    BY <2>4, <2>5, <2>10, Zenon DEF TypeOK
  <2>11. CASE state' = Crashed /\ UNCHANGED <<regs, ret>>
    BY <2>4, <2>5, <2>7, <2>11, Zenon DEF TypeOK, Crashed
  <2> QED BY <2>5, <2>8, <2>9, <2>10, <2>11, Zenon
<1>3. CASE NextDone
  BY <1>3, Zenon DEF NextDone, TypeOK, EndOfWalk
<1>4. CASE UNCHANGED vars
  BY <1>4, Zenon DEF vars, TypeOK
<1> QED BY <1>1, <1>2, <1>3, <1>4, Zenon DEF Next

\* The walk's state keeps its type: no signature stays in the link register,
\* whatever the return addresses are signed with, and no frame is a null return
\* address, so that the lookup address of every frame is an address.
THEOREM TypeCorrect == Spec => []TypeOK
<1>1. Init => TypeOK
  <2> SUFFICES ASSUME Init PROVE TypeOK
    BY Zenon
  <2>1. regs \in Reg /\ regs.lr <= regs.mask /\ IsMemory(mem)
        /\ cached \subseteq DOMAIN Fdes
    BY RegistryAssumption, Zenon DEF Init
  <2>2. PICK pc \in Addr : state = Initial(pc)
    BY RegistryAssumption, Zenon DEF Init
  <2>3. InstructionPointer(pc) \in Frame
    BY Zenon DEF Frame
  <2> QED BY <2>1, <2>2, <2>3, Zenon DEF Init, TypeOK, Initial, EndOfWalk
<1>2. TypeOK /\ [Next]_vars => TypeOK'
  BY TypeStep, Zenon
<1> QED BY <1>1, <1>2, PTL DEF Spec

-----------------------------------------------------------------------------
(* Failed reads *)

\* The outcomes a failed read may have, see FailuresContained.
Contained(out, clean, fails) ==
    \/ out = clean
    \/ out = NoReturn
    \/ out.tag = "err" /\ out.kind = "CouldNotReadStack" /\ out.addr \in fails
    \/ clean.tag = "some" /\ out = [clean EXCEPT !.regs.fp = 0]
    \/ clean = NoCaller /\ WalkedOn(out)

\* An error that names an unreadable address.
LEMMA ReportedContained ==
    ASSUME NEW fails, NEW a \in fails, NEW clean
    PROVE  Contained(Failed("CouldNotReadStack", a), clean, fails)
BY Zenon DEF Contained, Failed

\* A failing read changes a frame-pointer step only into an error that names
\* an address that was unreadable.
LEMMA FallbackContained ==
    ASSUME NEW r \in Reg, NEW m, IsMemory(m), NEW fails, NEW cur
    PROVE  Contained(fallback_unwind_frame(cur, r, read_stack(m, fails)),
                     fallback_unwind_frame(cur, r, read_stack(m, {})), fails)
<1> DEFINE rd == read_stack(m, fails)
           clean == read_stack(m, {})
           out == fallback_unwind_frame(cur, r, rd)
           expected == fallback_unwind_frame(cur, r, clean)
<1>1. \A a \in Addr : rd[a] = clean[a] \/ (a \in fails /\ rd[a] = Fail)
  BY Zenon DEF read_stack
<1>2. r.fp \in Addr /\ MaxU \in Nat /\ Word \in Nat /\ Word > 0
  BY WidthAssumption, WordAssumption DEF Reg
<1> HIDE DEF rd, clean
<1>3. CASE r.fp = 0 \/ r.fp + 2 * Word > MaxU \/ r.fp + 2 * Word <= r.sp
  <2>1. out = expected
    BY <1>3, Zenon DEF fallback_unwind_frame
  <2> HIDE DEF out, expected
  <2>2. Contained(out, expected, fails)
    BY <2>1, Zenon DEF Contained
  <2> QED BY <2>2, Zenon DEF out, expected, rd, clean
<1>4. CASE ~(r.fp = 0 \/ r.fp + 2 * Word > MaxU \/ r.fp + 2 * Word <= r.sp)
  <2>1. r.fp + Word \in Addr
    BY <1>2, <1>4 DEF Addr
  <2>2. \/ out = expected
        \/ \E a \in fails : out = Failed("CouldNotReadStack", a)
    <3>1. CASE rd[r.fp] = clean[r.fp] /\ rd[r.fp + Word] = clean[r.fp + Word]
      BY <3>1, Zenon DEF fallback_unwind_frame
    <3>2. CASE r.fp \in fails /\ rd[r.fp] = Fail
      BY <1>4, <3>2, Zenon DEF fallback_unwind_frame
    <3>3. CASE /\ rd[r.fp] = clean[r.fp]
               /\ r.fp + Word \in fails /\ rd[r.fp + Word] = Fail
      <4>1. CASE \/ clean[r.fp] = Fail
                 \/ clean[r.fp] # 0 /\ clean[r.fp] <= r.fp
        BY <3>3, <4>1, Zenon DEF fallback_unwind_frame
      <4>2. CASE ~(\/ clean[r.fp] = Fail
                   \/ clean[r.fp] # 0 /\ clean[r.fp] <= r.fp)
        BY <1>4, <3>3, <4>2, Zenon DEF fallback_unwind_frame
      <4> QED BY <4>1, <4>2, Zenon
    <3> QED BY <1>1, <1>2, <2>1, <3>1, <3>2, <3>3, Zenon
  <2> HIDE DEF out, expected
  <2>3. CASE out = expected
    <3>1. Contained(out, expected, fails)
      BY <2>3, Zenon DEF Contained
    <3> QED BY <3>1, Zenon DEF out, expected, rd, clean
  <2>4. CASE \E a \in fails : out = Failed("CouldNotReadStack", a)
    <3>1. Contained(out, expected, fails)
      BY <2>4, ReportedContained, Zenon
    <3> QED BY <3>1, Zenon DEF out, expected, rd, clean
  <2> QED BY <2>2, <2>3, <2>4, Zenon
<1> QED BY <1>3, <1>4, Zenon

\* What a failed read may do to a libunwind step: nothing, no return, an error
\* that names the read, or the loss of the frame pointer, whose zero would have
\* ended the stack.
StepContained(step, clean, fails) ==
    \/ step = clean
    \/ step = Crash
    \/ \E a \in fails \cap Addr : step = StepError(a)
    \/ \E ip, sp \in Addr :
         /\ step = Stepped(ip, sp, Fail)
         /\ clean = EndOfStack \/ \E fp \in Addr : clean = Stepped(ip, sp, fp)

\* rd is clean with some reads that fail.
Weaker(rd, clean, fails) ==
    \A a \in Addr : rd[a] = clean[a] \/ (a \in fails /\ rd[a] = Fail)

\* A location is read alike, or a read of memory fails.
LEMMA GetWeaker ==
    ASSUME NEW rd \in Reader, NEW clean \in Reader, NEW fails, Weaker(rd, clean, fails),
           NEW loc \in Locations
    PROVE  \/ dwarf_get(rd, loc) = dwarf_get(clean, loc)
           \/ /\ dwarf_get(rd, loc) = Fail /\ dwarf_get(clean, loc) # Fail
              /\ loc[1] = "mem" /\ loc[2] \in fails \cap Addr
BY DEF dwarf_get, Weaker, Locations

\* The PLT entry is recognised only if it is without failures.
LEMMA PltWeaker ==
    ASSUME NEW rd \in Reader, NEW clean \in Reader, NEW fails, Weaker(rd, clean, fails),
           NEW ip, is_plt_entry(rd, ip)
    PROVE  is_plt_entry(clean, ip)
BY CodeAssumption, Zenon DEF is_plt_entry, Weaker

\* The same cursor, with the same return address in both memories.
LEMMA SameCursorContained ==
    ASSUME NEW rd \in Reader, NEW clean \in Reader, NEW fails, Weaker(rd, clean, fails),
           NEW cursor \in CursorType,
           NEW new_ip, new_ip = IF cursor.lr[1] = "null" THEN 0 ELSE dwarf_get(rd, cursor.lr),
           new_ip = IF cursor.lr[1] = "null" THEN 0 ELSE dwarf_get(clean, cursor.lr)
    PROVE  \/ PltStep(rd, cursor, None) = PltStep(clean, cursor, None)
           \/ /\ dwarf_get(rd, cursor.fp) = Fail
              /\ dwarf_get(clean, cursor.fp) \in Addr
              /\ new_ip \in Addr \ {0}
              /\ PltStep(rd, cursor, None) = Stepped(new_ip, cursor.cfa, Fail)
              /\ PltStep(clean, cursor, None)
                   = Stepped(new_ip, cursor.cfa, dwarf_get(clean, cursor.fp))
<1> DEFINE f == dwarf_get(rd, cursor.fp)
           g == dwarf_get(clean, cursor.fp)
           P(x) == IF new_ip = Fail
                   THEN StepError(IF cursor.lr[1] = "mem" THEN cursor.lr[2] ELSE None)
                   ELSE IF new_ip = 0 THEN EndOfStack
                   ELSE Stepped(new_ip, cursor.cfa, x)
<1>1. cursor.fp \in Locations /\ cursor.lr \in Locations
  BY Zenon DEF CursorType
<1>2. f = g \/ (f = Fail /\ g # Fail)
  BY <1>1, GetWeaker
<1>3. g \in Addr \cup {Fail}
  BY <1>1, GetType, Zenon
<1>4. new_ip \in Addr \cup {Fail}
  <2>1. 0 \in Addr
    BY WidthAssumption DEF Addr
  <2>2. dwarf_get(rd, cursor.lr) \in Addr \cup {Fail}
    BY <1>1, GetType, Zenon
  <2> QED BY <2>1, <2>2, Zenon
<1>5. PltStep(rd, cursor, None) = P(f) /\ PltStep(clean, cursor, None) = P(g)
  BY Zenon DEF PltStep
<1> HIDE DEF f, g
<1>6. P(f) = P(g) \/ (f = Fail /\ g \in Addr /\ new_ip \in Addr \ {0})
  BY <1>2, <1>3, <1>4, Zenon
<1> QED BY <1>5, <1>6, Zenon DEF f, g

\* With the code readable, a failed read is contained in the libunwind step.
LEMMA UnwStepContained ==
    ASSUME NEW rd \in Reader, NEW clean \in Reader, NEW fails, Weaker(rd, clean, fails),
           NEW rws \in [Addr -> Row] \cup {None}, NEW ip \in Addr, NEW r \in Reg,
           ip \notin SigCode, clean[ip] # Fail, ip \notin fails,
           ~(rws # None /\ ip \in DOMAIN PltCode /\ rws[ip].cfi \in fails)
    PROVE  StepContained(unw_step(rd, rws, ip, r), unw_step(clean, rws, ip, r), fails)
<1> DEFINE row == IF rws = None THEN None ELSE rws[ip]
           Cursor(m) == dwarf_step(m, row, ip, r)
           Step(m, c) ==
             IF c.ok = "yes" /\ (c.ip = 0 \/ dwarf_get(m, c.fp) = 0) THEN EndOfStack
             ELSE IF c.ok = "yes" /\ dwarf_get(m, c.fp) # Fail
                  THEN Stepped(c.ip, c.cfa, dwarf_get(m, c.fp))
             ELSE IF is_plt_entry(m, c.ip) THEN PltStep(m, c, None)
             ELSE Crash
<1>1. rd[ip] # Fail
  BY Zenon DEF Weaker
<1>2. /\ unw_step(rd, rws, ip, r) = Step(rd, Cursor(rd))
      /\ unw_step(clean, rws, ip, r) = Step(clean, Cursor(clean))
  BY <1>1, Zenon DEF unw_step
<1>3. row \in Row \cup {None}
  BY Zenon
<1>4. ~(row # None /\ ip \in DOMAIN PltCode /\ row.cfi \in fails)
  BY Zenon
<1> HIDE DEF row
<1>5. Cursor(rd) \in CursorType /\ Cursor(clean) \in CursorType
  BY <1>3, DwarfStepType, Zenon
\* Equal cursors with equal return addresses.
<1>6. ASSUME NEW c \in CursorType,
             NEW n, n = IF c.lr[1] = "null" THEN 0 ELSE dwarf_get(rd, c.lr),
             n = IF c.lr[1] = "null" THEN 0 ELSE dwarf_get(clean, c.lr),
             c.ok = "yes" => c.ip = n
      PROVE  StepContained(Step(rd, c), Step(clean, c), fails)
  <2> DEFINE f == dwarf_get(rd, c.fp)
             g == dwarf_get(clean, c.fp)
             p == PltStep(rd, c, None)
             q == PltStep(clean, c, None)
  <2>1. c.fp \in Locations /\ c.cfa \in Addr /\ c.ip \in Addr
    BY Zenon DEF CursorType
  <2>2. f = g \/ (f = Fail /\ g # Fail)
    BY <2>1, GetWeaker
  <2>3. g \in Addr \cup {Fail}
    BY <2>1, GetType, Zenon
  <2>4. \/ p = q
        \/ /\ f = Fail /\ g \in Addr /\ n \in Addr \ {0}
           /\ p = Stepped(n, c.cfa, Fail) /\ q = Stepped(n, c.cfa, g)
    BY <1>6, SameCursorContained
  <2>5. is_plt_entry(rd, c.ip) => is_plt_entry(clean, c.ip)
    BY PltWeaker, Zenon
  <2>6. Step(rd, c) = IF c.ok = "yes" /\ (c.ip = 0 \/ f = 0) THEN EndOfStack
                      ELSE IF c.ok = "yes" /\ f # Fail THEN Stepped(c.ip, c.cfa, f)
                      ELSE IF is_plt_entry(rd, c.ip) THEN p ELSE Crash
    BY Zenon
  <2>7. Step(clean, c) = IF c.ok = "yes" /\ (c.ip = 0 \/ g = 0) THEN EndOfStack
                         ELSE IF c.ok = "yes" /\ g # Fail THEN Stepped(c.ip, c.cfa, g)
                         ELSE IF is_plt_entry(clean, c.ip) THEN q ELSE Crash
    BY Zenon
  <2>8. f = Fail /\ c.ip # 0 /\ c.ok = "yes" => p = Stepped(c.ip, c.cfa, Fail) \/ c.ip = Fail
    BY <1>6, Zenon DEF PltStep
  <2>9. Fail \notin Addr
    BY MarksAssumption, Zenon
  <2> HIDE DEF f, g, p, q, Step
  <2>10. CASE f = g
    <3>1. p = q
      BY <2>4, <2>9, <2>10, Zenon
    <3> QED BY <2>5, <2>6, <2>7, <2>10, <3>1, Zenon DEF StepContained
  <2>11. CASE f = Fail /\ g \in Addr
    <3>1. 0 # Fail
      BY <2>9, WidthAssumption DEF Addr
    <3>2. CASE c.ok = "yes" /\ c.ip = 0
      BY <2>6, <2>7, <3>2, Zenon DEF StepContained
    <3>3. CASE c.ok = "yes" /\ c.ip # 0
      <4>1. p = Stepped(c.ip, c.cfa, Fail)
        BY <2>1, <2>8, <2>9, <2>11, <3>3, Zenon
      <4>2. Step(rd, c) = IF is_plt_entry(rd, c.ip) THEN p ELSE Crash
        BY <2>6, <2>11, <3>1, <3>3, Zenon
      <4>3. Step(clean, c) = EndOfStack \/ Step(clean, c) = Stepped(c.ip, c.cfa, g)
        BY <2>7, <2>9, <2>11, <3>3, Zenon
      <4> QED BY <2>1, <2>11, <4>1, <4>2, <4>3, Zenon DEF StepContained
    <3>4. CASE c.ok # "yes"
      <4>1. Step(rd, c) = IF is_plt_entry(rd, c.ip) THEN p ELSE Crash
        BY <2>6, <3>4, Zenon
      <4>2. Step(clean, c) = IF is_plt_entry(clean, c.ip) THEN q ELSE Crash
        BY <2>7, <3>4, Zenon
      <4> QED BY <2>1, <2>4, <2>5, <2>11, <4>1, <4>2, Zenon DEF StepContained
    <3> QED BY <3>2, <3>3, <3>4, Zenon
  <2> QED BY <2>2, <2>3, <2>10, <2>11, Zenon
<1> DEFINE unread(m) == row.cfi # None /\ m[row.cfi] = Fail
           stuck == [ok |-> "no", ip |-> ip, cfa |-> r.sp, lr |-> <<"val", r.lr>>,
                     fp |-> <<"val", r.fp>>]
           cfa == Wrap(r[row.cfa] + row.off)
           lr == Location(row.lr, r.lr, cfa)
           fp == Location(row.fp, r.fp, cfa)
           new(m) == IF lr[1] = "null" THEN 0 ELSE dwarf_get(m, lr)
           C(ok, n) == [ok |-> ok, ip |-> n, cfa |-> cfa, lr |-> lr, fp |-> fp]
           Reached(n) == IF n = Fail THEN C("no", ip)
                         ELSE IF n = ip /\ cfa = r.sp THEN C("no", ip)
                         ELSE C("yes", n)
<1>7. /\ Cursor(rd) = IF row = None \/ unread(rd) \/ row.cfa = "reg" THEN stuck
                      ELSE Reached(new(rd))
      /\ Cursor(clean) = IF row = None \/ unread(clean) \/ row.cfa = "reg" THEN stuck
                         ELSE Reached(new(clean))
  BY Zenon DEF dwarf_step
<1>8. row # None /\ unread(clean) => unread(rd)
  BY <1>3, Zenon DEF Weaker, Row
<1>9. ASSUME stuck \in CursorType
      PROVE  StepContained(Step(rd, stuck), Step(clean, stuck), fails)
  <2> HIDE DEF Step
  <2>1. /\ stuck.lr[1] = "val" /\ stuck.ok = "no"
        /\ dwarf_get(rd, stuck.lr) = r.lr /\ dwarf_get(clean, stuck.lr) = r.lr
    BY Zenon DEF dwarf_get
  <2> HIDE DEF stuck
  <2>2. /\ r.lr = IF stuck.lr[1] = "null" THEN 0 ELSE dwarf_get(rd, stuck.lr)
        /\ r.lr = IF stuck.lr[1] = "null" THEN 0 ELSE dwarf_get(clean, stuck.lr)
        /\ stuck.ok = "yes" => stuck.ip = r.lr
    BY <2>1, Zenon
  <2> QED BY <1>6, <1>9, <2>2, Zenon
<1> HIDE DEF Cursor
<1>10. CASE row = None \/ row.cfa = "reg" \/ unread(clean)
  <2>1. Cursor(rd) = stuck /\ Cursor(clean) = stuck
    BY <1>7, <1>8, <1>10, Zenon
  <2> HIDE DEF stuck, Step, unread
  <2> QED BY <1>2, <1>5, <1>9, <2>1, Zenon
<1>11. CASE row # None /\ ~unread(clean) /\ unread(rd)
  <2>1. Cursor(rd) = stuck
    BY <1>7, <1>11, Zenon
  <2>2. ip \notin DOMAIN PltCode
    BY <1>3, <1>4, <1>11, Zenon DEF Weaker, Row
  <2>3. Step(rd, stuck) = Crash
    BY <2>2, Zenon DEF is_plt_entry
  <2> HIDE DEF stuck, Step
  <2> QED BY <1>2, <2>1, <2>3, Zenon DEF StepContained
<1>12. CASE row # None /\ row.cfa # "reg" /\ ~unread(clean) /\ ~unread(rd)
  <2>1. Cursor(rd) = Reached(new(rd)) /\ Cursor(clean) = Reached(new(clean))
    BY <1>7, <1>12, Zenon
  <2>2. lr \in Locations
    <3>1. r.sp \in Addr /\ r.fp \in Addr /\ r.lr \in Addr
      BY Zenon DEF Reg
    <3>2. row \in Row /\ row.cfa \in {"sp", "fp"} /\ row.off \in Int /\ row.lr \in Rule
      BY <1>3, <1>12, Zenon DEF Row
    <3>3. r[row.cfa] + row.off \in Int
      BY <3>1, <3>2, WidthAssumption DEF Addr
    <3>4. cfa \in Addr
      BY <3>3, WrapType, Zenon
    <3> HIDE DEF cfa
    <3> QED BY <3>1, <3>2, <3>4, LocationType, Zenon
  <2> HIDE DEF lr, cfa, fp, unread
  <2>3. \A n : /\ Reached(n).lr = lr
               /\ Reached(n).ok = "yes" => Reached(n).ip = n
    BY Zenon
  <2>4. CASE new(rd) = new(clean)
    <3> DEFINE c == Reached(new(rd))
               n == new(rd)
    <3>1. c \in CursorType /\ Cursor(rd) = c /\ Cursor(clean) = c
      BY <1>5, <2>1, <2>4, Zenon
    <3>2. c.lr = lr /\ (c.ok = "yes" => c.ip = n)
      BY <2>3, Zenon
    <3> HIDE DEF c, Step, Reached
    <3>3. /\ n = IF c.lr[1] = "null" THEN 0 ELSE dwarf_get(rd, c.lr)
          /\ n = IF c.lr[1] = "null" THEN 0 ELSE dwarf_get(clean, c.lr)
      BY <2>4, <3>2, Zenon
    <3> HIDE DEF new, n
    <3>4. StepContained(Step(rd, c), Step(clean, c), fails)
      BY <1>6, <3>1, <3>2, <3>3, Zenon
    <3> QED BY <1>2, <3>1, <3>4, Zenon
  <2>5. CASE new(rd) # new(clean)
    <3>1. lr[1] # "null" /\ dwarf_get(rd, lr) = Fail
          /\ lr[1] = "mem" /\ lr[2] \in fails \cap Addr
      BY <2>2, <2>5, GetWeaker
    <3>2. Cursor(rd) = C("no", ip)
      BY <2>1, <3>1, Zenon
    <3>3. PltStep(rd, C("no", ip), None) = StepError(lr[2])
      BY <3>1, Zenon DEF PltStep
    <3> DEFINE c == C("no", ip)
    <3>4. c.ok = "no"
      BY Zenon
    <3> HIDE DEF c
    <3>5. Step(rd, c) = Crash \/ Step(rd, c) = PltStep(rd, c, None)
      BY <3>4, Zenon
    <3>6. Step(rd, c) = Crash \/ Step(rd, c) = StepError(lr[2])
      BY <3>3, <3>5, Zenon DEF c
    <3>7. Cursor(rd) = c
      BY <3>2, Zenon DEF c
    <3> HIDE DEF Step
    <3> QED BY <1>2, <3>1, <3>6, <3>7, Zenon DEF StepContained
  <2> QED BY <2>4, <2>5, Zenon
<1> HIDE DEF unread
<1> QED BY <1>10, <1>11, <1>12, Zenon

\* And unwind_frame passes it on.
LEMMA StepResultContained ==
    ASSUME NEW f \in Frame, NEW r \in Reg, NEW known, NEW fails, NEW step, NEW clean,
           StepContained(step, clean, fails)
    PROVE  Contained(StepResult(f, r, known, step), StepResult(f, r, known, clean), fails)
<1> DEFINE R(s) == StepResult(f, r, known, s)
<1>1. CASE step = clean
  BY <1>1, Zenon DEF Contained
<1>2. CASE step = Crash
  <2>1. R(step) = NoReturn
    BY <1>2, Zenon DEF Crash, StepResult
  <2> HIDE DEF R
  <2>2. Contained(R(step), R(clean), fails)
    BY <2>1, Zenon DEF Contained
  <2> QED BY <2>2, Zenon DEF R
<1>3. ASSUME NEW a \in fails \cap Addr, step = StepError(a)
      PROVE  Contained(R(step), R(clean), fails)
  <2>1. step.ret = "error" /\ step.failed = a /\ a # None
    BY <1>3, MarksAssumption, Zenon DEF StepError
  <2>2. R(step) = Failed("CouldNotReadStack", a)
    BY <2>1, Zenon DEF StepResult
  <2> HIDE DEF R
  <2> QED BY <2>2, ReportedContained, Zenon
<1>4. ASSUME NEW ip \in Addr, NEW sp \in Addr, step = Stepped(ip, sp, Fail),
             clean = EndOfStack \/ \E fp \in Addr : clean = Stepped(ip, sp, fp)
      PROVE  Contained(R(step), R(clean), fails)
  <2> DEFINE plain == strip_ptr_auth(r.mask, ip)
             new_ip == AdjustedIp(f, r, known, ip)
             over == new_ip > MaxU
             same == new_ip = strip_ptr_auth(r.mask, f.addr) /\ sp = r.sp
             Out(fp) == IF plain = 0 THEN NoCaller
                        ELSE IF over THEN Failed("IntegerOverflow", None)
                        ELSE IF same THEN Failed("DidNotAdvance", None)
                        ELSE Caller(new_ip, CallerRegs(r, ip, sp, fp))
  <2>1. R(step) = Out(0)
    BY <1>4, Zenon DEF Stepped, StepResult
  <2>2. CASE clean = EndOfStack
    <3>1. R(clean) = NoCaller
      BY <2>2, Zenon DEF EndOfStack, StepResult
    <3> HIDE DEF R, plain, new_ip, over, same
    <3>2. Out(0) = NoCaller \/ WalkedOn(Out(0))
      BY Zenon DEF WalkedOn, Failed, Caller, CallerRegs
    <3> HIDE DEF Out
    <3> QED BY <2>1, <3>1, <3>2, Zenon DEF Contained
  <2>3. ASSUME NEW fp \in Addr, clean = Stepped(ip, sp, fp)
        PROVE  Contained(R(step), R(clean), fails)
    <3>1. Fail # fp
      BY MarksAssumption, Zenon
    <3>2. R(clean) = Out(fp)
      BY <2>3, <3>1, Zenon DEF Stepped, StepResult
    <3> HIDE DEF R, plain, new_ip, over, same
    <3> DEFINE was == Caller(new_ip, CallerRegs(r, ip, sp, fp))
               is == Caller(new_ip, CallerRegs(r, ip, sp, 0))
    <3>3. was.tag = "some" /\ is = [was EXCEPT !.regs.fp = 0]
      BY DEF Caller, CallerRegs
    <3>4. Out(0) = Out(fp) \/ (Out(0) = is /\ Out(fp) = was)
      BY Zenon
    <3> HIDE DEF Out, was, is
    <3> QED BY <2>1, <3>2, <3>3, <3>4, Zenon DEF Contained
  <2> HIDE DEF R
  <2> QED BY <1>4, <2>2, <2>3, Zenon
<1> HIDE DEF R
<1>5. Contained(R(step), R(clean), fails)
  BY <1>1, <1>2, <1>3, <1>4, Zenon DEF StepContained, R
<1> QED BY <1>5, Zenon DEF R

\* A failed read never makes unwind_frame invent a caller, for every memory, row
\* and set of failures: what comes out is what the complete memory gives, the
\* loss of its frame pointer, or an error with the address that was unreadable.
THEOREM FailedReadsContained == Spec => []FailuresContained
<1>1. TypeOK => FailuresContained
  <2> SUFFICES ASSUME TypeOK, state.tag = "unwinding",
                      has_unwind_info(LookupIp) => OrdinaryCode,
                      NEW fails \in FailSets,
                      LookupIp \notin fails, ~SteppedWithoutRow(fails)
               PROVE  Contained(unwind_frame(state.frame, regs, cached, mem, fails),
                                CleanOutcome, fails)
    BY Zenon DEF FailuresContained, Contained
  <2> DEFINE f == state.frame
             ip == LookupIp
             rd == access_mem(mem, fails)
             clean == access_mem(mem, {})
             Fallback(fs) == fallback_unwind_frame(strip_ptr_auth(regs.mask, f.addr), regs,
                                                   read_stack(mem, fs))
             Result(m) == StepResult(f, regs, CachedAfter(cached, m, ip),
                                     unw_step(m, rows(ip), ip, regs))
             Out(fs) == unwind_frame(f, regs, cached, mem, fs)
  <2>1. f \in Frame /\ regs \in Reg /\ IsMemory(mem)
    BY Zenon DEF TypeOK
  <2>2. ip \in Addr
    BY <2>1, LookupType, StripType, Zenon DEF LookupIp, Reg
  <2>3. \A fs : Out(fs) = IF Kind[ip] = "invalid" THEN Failed("UnwindInfo", None)
                          ELSE IF ~has_unwind_info(ip) THEN Fallback(fs)
                          ELSE Result(access_mem(mem, fs))
    BY Zenon DEF unwind_frame, LookupIp
  <2>4. CleanOutcome = Out({})
    BY Zenon DEF CleanOutcome
  <2>5. CASE Kind[ip] = "invalid"
    <3> HIDE DEF Out
    <3>1. Out(fails) = Out({})
      BY <2>3, <2>5, Zenon
    <3>2. Contained(Out(fails), CleanOutcome, fails)
      BY <2>4, <3>1, Zenon DEF Contained
    <3> QED BY <3>2, Zenon DEF Out
  <2>6. CASE Kind[ip] # "invalid" /\ ~has_unwind_info(ip)
    <3>1. Contained(Fallback(fails), Fallback({}), fails)
      BY <2>1, FallbackContained, Zenon
    <3> HIDE DEF Out, Fallback
    <3>2. Contained(Out(fails), CleanOutcome, fails)
      BY <2>3, <2>4, <2>6, <3>1, Zenon
    <3> QED BY <3>2, Zenon DEF Out
  <2>7. CASE Kind[ip] # "invalid" /\ has_unwind_info(ip)
    <3>1. rd \in Reader /\ clean \in Reader
      BY <2>1, ReaderType, Zenon
    <3>2. Weaker(rd, clean, fails)
      BY Zenon DEF Weaker, access_mem, read_stack
    <3>3. clean[ip] # Fail /\ ip \notin SigCode /\ ip \notin fails
      BY <2>7, Zenon DEF OrdinaryCode
    <3>4. rows(ip) \in [Addr -> Row] \cup {None}
      BY <2>2, RowsType, Zenon
    <3>5. ~(rows(ip) # None /\ ip \in DOMAIN PltCode /\ rows(ip)[ip].cfi \in fails)
      BY Zenon DEF rows, SteppedWithoutRow, CurrentRow
    <3>6. CachedAfter(cached, rd, ip) = CachedAfter(cached, clean, ip)
      BY <3>3, Zenon DEF CachedAfter, IsSignalStub
    <3>7. Out(fails) = Result(rd) /\ Out({}) = Result(clean)
      BY <2>3, <2>7, Zenon
    <3> HIDE DEF rd, clean, ip, Out
    <3>8. StepContained(unw_step(rd, rows(ip), ip, regs),
                        unw_step(clean, rows(ip), ip, regs), fails)
      BY <2>1, <2>2, <3>1, <3>2, <3>3, <3>4, <3>5, UnwStepContained, Zenon
    <3>9. Contained(Result(rd), Result(clean), fails)
      BY <2>1, <3>6, <3>8, StepResultContained, Zenon
    <3> HIDE DEF Result
    <3>10. Contained(Out(fails), CleanOutcome, fails)
      BY <2>4, <3>7, <3>9, Zenon
    <3> QED BY <3>10, Zenon DEF Out
  <2> QED BY <2>5, <2>6, <2>7, Zenon
<1> QED BY <1>1, TypeCorrect, PTL

\* The remainder of numbers at most one period away.
LEMMA ModNear ==
    ASSUME NEW a \in Int, NEW b \in Nat, b > 0
    PROVE  /\ a \in 0 .. b - 1 => a % b = a
           /\ a \in b .. 2 * b - 1 => a % b = a - b
           /\ a \in -b .. -1 => a % b = a + b
OBVIOUS

\* A number is made of its quotient and its remainder.
LEMMA ModDivides ==
    ASSUME NEW a \in Int, NEW b \in Nat, b > 0
    PROVE  a = b * (a \div b) + (a % b) /\ a \div b \in Int /\ a % b \in 0 .. b - 1
OBVIOUS

\* Two distinct offsets of less than a period lead to distinct words.
LEMMA ModDistinct ==
    ASSUME NEW a \in Int, NEW b \in Nat, b > 0,
           NEW j \in 0 .. b - 1, NEW k \in 0 .. b - 1, (a + j) % b = (a + k) % b
    PROVE  j = k
<1> DEFINE p == (a + j) \div b
           q == (a + k) \div b
           r == (a + j) % b
<1>1. a + j = b * p + r /\ p \in Int /\ r \in 0 .. b - 1
  BY ModDivides
<1>2. a + k = b * q + r /\ q \in Int
  BY ModDivides
<1> HIDE DEF p, q, r
<1>3. j - k = b * (p - q)
  BY <1>1, <1>2
<1>4. CASE p > q
  BY <1>1, <1>2, <1>3, <1>4
<1>5. CASE p < q
  BY <1>1, <1>2, <1>3, <1>5
<1>6. CASE p = q
  BY <1>1, <1>2, <1>3, <1>6
<1> QED BY <1>1, <1>2, <1>4, <1>5, <1>6

-----------------------------------------------------------------------------
(* A step by a row *)

\* The results of a step that are told apart by `ret'.
LEMMA StepKinds ==
    /\ \A a : StepError(a).ret = "error"
    /\ EndOfStack.ret = "end" /\ Crash.ret = "crash"
    /\ \A i, c, b : Stepped(i, c, b).ret = "stepped"
BY Zenon DEF StepError, EndOfStack, Crash, Stepped

\* What a step may do with a row that it can use, evaluated at `at', in terms of the
\* return address n and the frame pointer b that the row describes.
UsesRow(step, rd, row, at, r) ==
    LET cfa == Wrap(r[row.cfa] + row.off)
        lr == Location(row.lr, r.lr, cfa)
        n == dwarf_get(rd, lr)
        b == dwarf_get(rd, Location(row.fp, r.fp, cfa))
    IN  \/ step = Crash
        \/ step = EndOfStack /\ (lr[1] = "null" \/ n = 0 \/ b = 0)
        \/ \E e : step = StepError(e) /\ n = Fail /\ lr[1] # "null"
        \/ /\ step = Stepped(n, cfa, b) /\ lr[1] # "null"
           /\ n # 0 /\ (b # 0 \/ (n = at /\ cfa = r.sp))

\* A step from ip, which is no signal stub, by the row for `at': the link register
\* takes the place of an address whose code cannot be read.
StepsBy(rd, rws, ip, r, at, row) ==
    /\ at = IF rd[ip] = Fail THEN r.lr ELSE ip
    /\ ~(rd[ip] # Fail /\ ip \in SigCode)
    /\ rws # None /\ row = rws[at] /\ row # None

\* The rest of such a step, once dwarf_step has left the cursor.
AfterDwarf(rd, ip, cursor) ==
    LET fp == dwarf_get(rd, cursor.fp)
    IN  IF cursor.ok = "yes" /\ (cursor.ip = 0 \/ fp = 0) THEN EndOfStack
        ELSE IF cursor.ok = "yes" /\ fp # Fail THEN Stepped(cursor.ip, cursor.cfa, fp)
        ELSE IF is_plt_entry(rd, cursor.ip)
             THEN PltStep(rd, cursor, IF rd[ip] = Fail THEN ip ELSE None)
        ELSE Crash

\* These are the two parts of a step by a row.
LEMMA RowStep ==
    ASSUME NEW rd, NEW rws, NEW ip, NEW r, NEW at, NEW row,
           StepsBy(rd, rws, ip, r, at, row)
    PROVE  unw_step(rd, rws, ip, r) = AfterDwarf(rd, ip, dwarf_step(rd, row, at, r))
BY Zenon DEF StepsBy, unw_step, AfterDwarf

\* A signal stub is left by its signal frame.
LEMMA SignalStubStep ==
    ASSUME NEW rd, NEW rws, NEW ip, NEW r, IsSignalStub(rd, ip)
    PROVE  unw_step(rd, rws, ip, r) = SignalStep(rd, ip, r)
BY Zenon DEF IsSignalStub, unw_step

\* The mask is an address.
LEMMA MaskType ==
    ASSUME NEW r \in Reg
    PROVE  r.mask \in 0 .. MaxU /\ MaxU \in Nat
<1>1. r.mask \in Masks
  BY Zenon DEF Reg
<1> QED BY <1>1, WordAssumption, WidthAssumption, Zenon DEF Addr

\* A row whose CFI can be read and whose CFA is known.
Usable(rd, row) ==
    /\ ~(row.cfi # None /\ rd[row.cfi] = Fail)
    /\ row.cfa # "reg"

\* A step uses the row at its place if it can.
LEMMA UsableRowStep ==
    ASSUME NEW rd \in Reader, NEW rws, NEW ip \in Addr, NEW r \in Reg, NEW at, NEW row,
           StepsBy(rd, rws, ip, r, at, row), Usable(rd, row)
    PROVE  UsesRow(unw_step(rd, rws, ip, r), rd, row, at, r)
<1> DEFINE cfa == Wrap(r[row.cfa] + row.off)
           lr == Location(row.lr, r.lr, cfa)
           fp == Location(row.fp, r.fp, cfa)
           n == dwarf_get(rd, lr)
           b == dwarf_get(rd, fp)
           new_ip == IF lr[1] = "null" THEN 0 ELSE n
           C(ok, new) == [ok |-> ok, ip |-> new, cfa |-> cfa, lr |-> lr, fp |-> fp]
           cursor == dwarf_step(rd, row, at, r)
           failed == IF rd[ip] = Fail THEN ip ELSE None
           plt == PltStep(rd, cursor, failed)
           step == unw_step(rd, rws, ip, r)
<1>1. cursor = IF new_ip = Fail THEN C("no", at)
               ELSE IF new_ip = at /\ cfa = r.sp THEN C("no", at)
               ELSE C("yes", new_ip)
  BY Zenon DEF dwarf_step, StepsBy, Usable
<1>2. step = IF cursor.ok = "yes" /\ (cursor.ip = 0 \/ dwarf_get(rd, cursor.fp) = 0)
             THEN EndOfStack
             ELSE IF cursor.ok = "yes" /\ dwarf_get(rd, cursor.fp) # Fail
             THEN Stepped(cursor.ip, cursor.cfa, dwarf_get(rd, cursor.fp))
             ELSE IF is_plt_entry(rd, cursor.ip) THEN plt
             ELSE Crash
  <2> HIDE DEF cfa, lr, fp, cursor
  <2> QED BY RowStep, Zenon DEF AfterDwarf, cursor
<1>3. plt = LET new == IF cursor.lr[1] = "null" THEN 0 ELSE dwarf_get(rd, cursor.lr)
            IN  IF new = Fail
                THEN StepError(IF cursor.lr[1] = "mem" THEN cursor.lr[2] ELSE failed)
                ELSE IF new = 0 THEN EndOfStack
                ELSE Stepped(new, cursor.cfa, dwarf_get(rd, cursor.fp))
  BY Zenon DEF PltStep
<1> HIDE DEF cfa, lr, fp, cursor, plt, step
<1>4. \A ok, new : /\ C(ok, new).ok = ok /\ C(ok, new).ip = new /\ C(ok, new).cfa = cfa
                   /\ C(ok, new).lr = lr /\ C(ok, new).fp = fp
  BY Zenon
<1>5. cursor.cfa = cfa /\ cursor.lr = lr /\ cursor.fp = fp
  BY <1>1, <1>4, Zenon
<1>6. Fail # 0
  BY MarksAssumption, WidthAssumption DEF Addr
<1>7. \/ plt = EndOfStack /\ (lr[1] = "null" \/ n = 0)
      \/ \E e : plt = StepError(e) /\ n = Fail /\ lr[1] # "null"
      \/ plt = Stepped(n, cfa, b) /\ n \notin {0, Fail} /\ lr[1] # "null"
  <2> HIDE DEF n, b
  <2>1. CASE lr[1] = "null"
    BY <1>3, <1>5, <1>6, <2>1, Zenon
  <2>2. CASE lr[1] # "null"
    BY <1>3, <1>5, <2>2, Zenon DEF n, b
  <2> QED BY <2>1, <2>2, Zenon
<1> DEFINE Goal == \/ step = Crash
                   \/ step = EndOfStack /\ (lr[1] = "null" \/ n = 0 \/ b = 0)
                   \/ \E e : step = StepError(e) /\ n = Fail /\ lr[1] # "null"
                   \/ /\ step = Stepped(n, cfa, b) /\ lr[1] # "null"
                      /\ n # 0 /\ (b # 0 \/ (n = at /\ cfa = r.sp))
<1>8. CASE cursor = C("yes", new_ip) /\ new_ip # Fail
  <2>1. cursor.ok = "yes" /\ cursor.ip = new_ip
    BY <1>4, <1>8, Zenon
  <2> HIDE DEF C
  <2>2. ASSUME new_ip = 0 \/ b = 0
        PROVE  Goal
    <3>1. step = EndOfStack
      BY <1>2, <1>5, <2>1, <2>2, Zenon
    <3> QED BY <3>1, <2>2, Zenon
  <2>3. ASSUME new_ip # 0 /\ b # 0 /\ b # Fail
        PROVE  Goal
    <3>1. step = Stepped(n, cfa, b) /\ lr[1] # "null"
      BY <1>2, <1>5, <2>1, <2>3, Zenon
    <3> QED BY <3>1, <2>3, Zenon
  <2>4. ASSUME new_ip # 0 /\ b = Fail
        PROVE  Goal
    <3>1. step = plt \/ step = Crash
      BY <1>2, <1>5, <1>6, <2>1, <2>4, Zenon
    <3>2. lr[1] # "null" /\ n = new_ip /\ b # 0
      BY <1>6, <2>4, Zenon
    <3> HIDE DEF n, b
    <3> QED BY <1>7, <3>1, <3>2, Zenon
  <2>5. Goal
    <3> HIDE DEF Goal, n, b, new_ip
    <3> QED BY <2>2, <2>3, <2>4, Zenon
  <2> QED BY <2>5, Zenon DEF UsesRow, step, cfa, fp, lr, n, b
<1>9. CASE cursor = C("no", at) /\ (new_ip = Fail \/ (new_ip = at /\ cfa = r.sp))
  <2>1. cursor.ok = "no"
    BY <1>4, <1>9, Zenon
  <2>2. step = plt \/ step = Crash
    BY <1>2, <2>1, Zenon
  <2>3. lr[1] # "null" /\ n # Fail => n = at /\ cfa = r.sp
    BY <1>6, <1>9, Zenon
  <2> HIDE DEF n, b
  <2>4. Goal
    BY <1>7, <2>2, <2>3, Zenon
  <2> QED BY <2>4, Zenon DEF UsesRow, step, cfa, fp, lr, n, b
<1> QED BY <1>1, <1>8, <1>9, Zenon

\* What a step does with a row that it cannot use: it leaves a PLT entry by the
\* link register.
LEMMA UnusableRowStep ==
    ASSUME NEW rd \in Reader, NEW rws, NEW ip \in Addr, NEW r \in Reg, NEW row,
           StepsBy(rd, rws, ip, r, ip, row), rd[ip] # Fail, ~Usable(rd, row)
    PROVE  LET step == unw_step(rd, rws, ip, r)
           IN  \/ step \in {Crash, EndOfStack}
               \/ step = Stepped(r.lr, r.sp, r.fp) /\ ip \in DOMAIN PltCode
<1> DEFINE cursor == [ok |-> "no", ip |-> ip, cfa |-> r.sp, lr |-> <<"val", r.lr>>,
                      fp |-> <<"val", r.fp>>]
           step == unw_step(rd, rws, ip, r)
<1>1. dwarf_step(rd, row, ip, r) = cursor
  BY Zenon DEF dwarf_step, Usable
<1>2. step = IF is_plt_entry(rd, ip) THEN PltStep(rd, cursor, None) ELSE Crash
  <2>1. cursor.ok = "no" /\ cursor.ip = ip
    BY Zenon
  <2> HIDE DEF cursor
  <2>2. step = AfterDwarf(rd, ip, cursor)
    BY <1>1, RowStep
  <2> HIDE DEF step
  <2> QED BY <2>1, <2>2, Zenon DEF AfterDwarf
<1>3. /\ dwarf_get(rd, <<"val", r.lr>>) = r.lr
      /\ dwarf_get(rd, <<"val", r.fp>>) = r.fp
  BY Zenon DEF dwarf_get
<1>4. r.lr # Fail
  BY MarksAssumption, Zenon DEF Reg
<1>5. PltStep(rd, cursor, None)
        = IF r.lr = 0 THEN EndOfStack ELSE Stepped(r.lr, r.sp, r.fp)
  BY <1>3, <1>4, Zenon DEF PltStep
<1> HIDE DEF cursor, step
<1> QED BY <1>2, <1>5, Zenon DEF is_plt_entry, step

\* A caller comes from a step that succeeded.
LEMMA StepResultSome ==
    ASSUME NEW f \in Frame, NEW r \in Reg, NEW known, NEW step \in StepOutcome,
           StepResult(f, r, known, step).tag = "some"
    PROVE  LET out == StepResult(f, r, known, step)
           IN  /\ step.ret = "stepped"
               /\ out.ip = AdjustedIp(f, r, known, step.ip)
               /\ out.regs = CallerRegs(r, step.lr, step.sp, step.fp)
<1> DEFINE out == StepResult(f, r, known, step)
           new_ip == AdjustedIp(f, r, known, step.ip)
           callee == CallerRegs(r, step.lr, step.sp, step.fp)
<1>1. \/ out \in {NoReturn, NoCaller}
      \/ \E k, a : out = Failed(k, a)
      \/ /\ step.ret \notin {"crash", "end", "error"}
         /\ out = Caller(new_ip, callee)
  BY Zenon DEF StepResult
<1>2. out.tag = "some"
  BY Zenon
<1>3. step.ret \in {"stepped", "crash", "end", "error"}
  BY StepKinds, Zenon DEF StepOutcome
<1> HIDE DEF out, new_ip, callee
<1>4. /\ NoReturn.tag = "crash" /\ NoCaller.tag = "none"
      /\ \A k, a : Failed(k, a).tag = "err"
  BY Zenon DEF NoReturn, NoCaller, Failed
<1>5. Caller(new_ip, callee).ip = new_ip /\ Caller(new_ip, callee).regs = callee
  BY Zenon DEF Caller
<1> QED BY <1>1, <1>2, <1>3, <1>4, <1>5, Zenon DEF out, new_ip, callee

\* The fields of a successful step.
LEMMA SteppedFields ==
    ASSUME NEW n, NEW cfa, NEW b
    PROVE  LET step == Stepped(n, cfa, b)
           IN  /\ step.ip = n /\ step.lr = n /\ step.sp = cfa
               /\ step.fp = IF b = Fail THEN 0 ELSE b
BY Zenon DEF Stepped

\* Whatever the memory, the registry, the cache and the signature: the caller that
\* unwind_frame returns for a frame with unwind information is the caller its row
\* describes, and a row that cannot be used leaves every register alone.
THEOREM RecoveredCallerExact == Spec => []CallerExact
<1>1. TypeOK => CallerExact
  <2> SUFFICES ASSUME TypeOK, FdeAt[LookupIp] # None, OrdinaryCode,
                      CleanOutcome.tag = "some"
               PROVE  IF RowUsable
                      THEN /\ CleanOutcome.regs.lr = RowReturnAddress
                           /\ CleanOutcome.regs.sp = RowCfa
                           /\ CleanOutcome.regs.fp = IF RowFp = Fail THEN 0 ELSE RowFp
                           /\ ReportedOneOff \/ CleanOutcome.ip = RowReturnAddress
                      ELSE LookupIp \in DOMAIN PltCode /\ CleanOutcome.regs = regs
    BY Zenon DEF CallerExact
  <2> DEFINE f == state.frame
             ip == LookupIp
             rd == access_mem(mem, {})
             rws == rows(ip)
             known == cached \cup {FdeAt[ip]}
             step == unw_step(rd, rws, ip, regs)
             out == CleanOutcome
  <2>1. f \in Frame /\ regs \in Reg /\ IsMemory(mem) /\ regs.lr <= regs.mask
    BY Zenon DEF TypeOK
  <2>2. ip \in Addr
    BY <2>1, LookupType, StripType, Zenon DEF LookupIp, Reg
  <2>3. rd \in Reader
    BY <2>1, ReaderType, Zenon
  <2>4. Kind[ip] = "dwarf" /\ FdeAt[ip] \in DOMAIN Fdes
    BY <2>2, RegistryAssumption, Zenon
  <2>5. rws = Fdes[FdeAt[ip]].rows /\ rws \in [Addr -> Row]
        /\ rws # None /\ rws[ip] # None /\ rws[ip] = CurrentRow
    BY <2>2, <2>4, RegistryAssumption, Zenon DEF rows, CurrentRow
  <2>6. rd[ip] # Fail /\ ip \notin SigCode
    BY Zenon DEF OrdinaryCode
  <2>7. CachedAfter(cached, rd, ip) = known
    BY <2>6, Zenon DEF CachedAfter, IsSignalStub
  <2>8. out = StepResult(f, regs, known, step)
    BY <2>4, <2>7, Zenon DEF CleanOutcome, unwind_frame, LookupIp, has_unwind_info
  <2> HIDE DEF rd, rws, ip, known, step, out
  <2>9. step \in StepOutcome
    BY <2>1, <2>2, <2>3, <2>5, UnwStepType, Zenon DEF step
  <2>10. /\ step.ret = "stepped"
         /\ out.ip = AdjustedIp(f, regs, known, step.ip)
         /\ out.regs = CallerRegs(regs, step.lr, step.sp, step.fp)
    <3>1. StepResult(f, regs, known, step).tag = "some"
      BY <2>8, Zenon DEF out
    <3> QED BY <2>1, <2>8, <2>9, <3>1, StepResultSome, Zenon
  <2>11. CASE RowUsable
    <3> DEFINE row == rws[ip]
               cfa == Wrap(regs[row.cfa] + row.off)
               lr == Location(row.lr, regs.lr, cfa)
               n == dwarf_get(rd, lr)
               b == dwarf_get(rd, Location(row.fp, regs.fp, cfa))
    <3>1. StepsBy(rd, rws, ip, regs, ip, row) /\ Usable(rd, row)
      BY <2>5, <2>6, <2>11, Zenon DEF StepsBy, Usable, RowUsable, rd
    <3>2. \/ step = Crash
          \/ step = EndOfStack
          \/ \E e : step = StepError(e)
          \/ step = Stepped(n, cfa, b)
      <4> HIDE DEF cfa, lr, n, b
      <4>1. UsesRow(step, rd, row, ip, regs)
        BY <2>1, <2>2, <2>3, <3>1, UsableRowStep, Zenon DEF step
      <4> QED BY <4>1, Zenon DEF UsesRow, cfa, lr, n, b
    <3>3. /\ RowCfa = cfa /\ RowFp = b
          /\ RowReturnAddress = strip_ptr_auth(regs.mask, n)
      BY <2>5, Zenon DEF RowCfa, RowFp, RowReturnAddress, rd
    <3> HIDE DEF cfa, lr, n, b, row
    <3>4. step = Stepped(n, cfa, b)
      BY <2>10, <3>2, StepKinds, Zenon
    <3>5. /\ step.ip = n /\ step.lr = n /\ step.sp = cfa
          /\ step.fp = IF b = Fail THEN 0 ELSE b
      BY <3>4, SteppedFields
    <3>6. /\ out.regs.lr = RowReturnAddress /\ out.regs.sp = RowCfa
          /\ out.regs.fp = IF RowFp = Fail THEN 0 ELSE RowFp
      BY <2>10, <3>3, <3>5 DEF CallerRegs
    <3>7. ReportedOneOff \/ out.ip = RowReturnAddress
      BY <2>10, <3>3, <3>5, Zenon DEF AdjustedIp, ReportedOneOff, LookupIp, known, ip
    <3> QED BY <2>11, <3>6, <3>7, Zenon DEF out
  <2>12. CASE ~RowUsable
    <3> DEFINE row == rws[ip]
    <3>1. StepsBy(rd, rws, ip, regs, ip, row) /\ ~Usable(rd, row)
      BY <2>5, <2>6, <2>12, Zenon DEF StepsBy, Usable, RowUsable, rd
    <3>2. \/ step \in {Crash, EndOfStack}
          \/ step = Stepped(regs.lr, regs.sp, regs.fp) /\ ip \in DOMAIN PltCode
      BY <2>1, <2>2, <2>3, <2>6, <3>1, UnusableRowStep, Zenon DEF step
    <3>3. step = Stepped(regs.lr, regs.sp, regs.fp) /\ ip \in DOMAIN PltCode
      BY <2>10, <3>2, StepKinds, Zenon
    <3>4. regs.fp # Fail /\ regs.lr \in 0 .. MaxU /\ regs.mask \in 0 .. MaxU
          /\ MaxU \in Nat
      BY <2>1, MaskType, MarksAssumption, Zenon DEF Reg, Addr
    <3>5. step.lr = regs.lr /\ step.sp = regs.sp /\ step.fp = regs.fp
      BY <3>3, <3>4, SteppedFields
    <3>6. strip_ptr_auth(regs.mask, regs.lr) = regs.lr
      BY <2>1, <3>4, ModNear DEF strip_ptr_auth
    <3>7. CallerRegs(regs, regs.lr, regs.sp, regs.fp) = regs
      BY <2>1, <3>6, Zenon DEF CallerRegs, Reg
    <3> QED BY <2>10, <2>12, <3>3, <3>5, <3>7, Zenon DEF out, ip
  <2> QED BY <2>11, <2>12, Zenon
<1> QED BY <1>1, TypeCorrect, PTL

-----------------------------------------------------------------------------
(* Signatures *)

\* The same memory, but for the word at a: both versions of it are an address, and p
\* without the signature.
SignedAt(rd, rs, a, mask, p) ==
    /\ \A c \in Addr : c # a => rd[c] = rs[c]
    /\ a \in Addr /\ rd[a] \in Addr /\ rs[a] \in Addr
    /\ strip_ptr_auth(mask, rd[a]) = p
    /\ strip_ptr_auth(mask, rs[a]) = p

\* A signature makes no read fail, so that PLT entries are recognised alike.
LEMMA SignedReads ==
    ASSUME NEW rd \in Reader, NEW rs \in Reader, NEW a, NEW mask, NEW p,
           SignedAt(rd, rs, a, mask, p)
    PROVE  /\ \A c \in Addr : rd[c] = Fail <=> rs[c] = Fail
           /\ \A ip : is_plt_entry(rd, ip) <=> is_plt_entry(rs, ip)
<1>1. \A c \in Addr : rd[c] = Fail <=> rs[c] = Fail
  BY MarksAssumption, Zenon DEF SignedAt
<1>2. \A ip : is_plt_entry(rd, ip) <=> is_plt_entry(rs, ip)
  BY <1>1, CodeAssumption, Zenon DEF is_plt_entry
<1> QED BY <1>1, <1>2, Zenon

\* Signing a word of the tracee's memory.
LEMMA SignedMemory ==
    ASSUME NEW m, IsMemory(m), NEW a \in DOMAIN m, NEW signed \in Addr, NEW mask,
           strip_ptr_auth(mask, signed) = strip_ptr_auth(mask, m[a])
    PROVE  LET s == [m EXCEPT ![a] = signed]
               p == strip_ptr_auth(mask, m[a])
           IN  /\ IsMemory(s)
               /\ SignedAt(read_stack(m, {}), read_stack(s, {}), a, mask, p)
               /\ \/ access_mem(m, {}) = access_mem(s, {})
                  \/ SignedAt(access_mem(m, {}), access_mem(s, {}), a, mask, p)
<1> DEFINE s == [m EXCEPT ![a] = signed]
           p == strip_ptr_auth(mask, m[a])
<1>1. a \in Addr /\ m[a] \in Addr
  BY Zenon DEF IsMemory
<1>2. DOMAIN s = DOMAIN m /\ s[a] = signed /\ \A c \in DOMAIN m : c # a => s[c] = m[c]
  BY Zenon
<1>3. IsMemory(s)
  BY <1>1, <1>2, Zenon DEF IsMemory
<1> HIDE DEF s
<1>4. /\ \A c \in Addr : c # a => read_stack(m, {})[c] = read_stack(s, {})[c]
      /\ read_stack(m, {})[a] = m[a] /\ read_stack(s, {})[a] = signed
  BY <1>1, <1>2, Zenon DEF read_stack
<1>5. SignedAt(read_stack(m, {}), read_stack(s, {}), a, mask, p)
  BY <1>1, <1>4, Zenon DEF SignedAt
<1>6. CASE a \in DOMAIN Local
  <2>1. \A c \in Addr : access_mem(m, {})[c] = access_mem(s, {})[c]
    BY <1>4, <1>6, Zenon DEF access_mem
  <2>2. access_mem(m, {}) = access_mem(s, {})
    BY <2>1, Zenon DEF access_mem
  <2> QED BY <1>3, <1>5, <2>2, Zenon DEF s
<1>7. CASE a \notin DOMAIN Local
  <2>1. /\ \A c \in Addr : c # a => access_mem(m, {})[c] = access_mem(s, {})[c]
        /\ access_mem(m, {})[a] = m[a] /\ access_mem(s, {})[a] = signed
    BY <1>1, <1>4, <1>7, Zenon DEF access_mem
  <2>2. SignedAt(access_mem(m, {}), access_mem(s, {}), a, mask, p)
    BY <1>1, <2>1, Zenon DEF SignedAt
  <2> QED BY <1>3, <1>5, <2>2, Zenon DEF s
<1> QED BY <1>6, <1>7, Zenon

\* A step by frame pointers strips the return address before it is used.
LEMMA SignedFallback ==
    ASSUME NEW rd \in Reader, NEW rs \in Reader, NEW r \in Reg, NEW p, NEW cur,
           SignedAt(rd, rs, r.fp + Word, r.mask, p)
    PROVE  fallback_unwind_frame(cur, r, rd) = fallback_unwind_frame(cur, r, rs)
<1> DEFINE a == r.fp + Word
<1>1. r.fp \in Addr /\ r.fp # a
  <2>1. r.fp \in 0 .. MaxU /\ MaxU \in Nat /\ Word \in Nat \ {0}
    BY WidthAssumption, WordAssumption, Zenon DEF Reg, Addr
  <2> QED BY <2>1 DEF Addr
<1>2. rd[r.fp] = rs[r.fp] /\ rd[a] # Fail /\ rs[a] # Fail
  BY <1>1, MarksAssumption, Zenon DEF SignedAt
<1>3. strip_ptr_auth(r.mask, rd[a]) = strip_ptr_auth(r.mask, rs[a])
  BY Zenon DEF SignedAt
<1>4. \A sp, fp : CallerRegs(r, rd[a], sp, fp) = CallerRegs(r, rs[a], sp, fp)
  BY <1>3, Zenon DEF CallerRegs
<1> QED BY <1>2, <1>3, <1>4, Zenon DEF fallback_unwind_frame

\* Two successful steps whose return addresses differ in the signature only.
LEMMA SignedResult ==
    ASSUME NEW f, NEW r, NEW known, NEW n, NEW o, NEW cfa, NEW b,
           strip_ptr_auth(r.mask, n) = strip_ptr_auth(r.mask, o)
    PROVE  StepResult(f, r, known, Stepped(n, cfa, b))
             = StepResult(f, r, known, Stepped(o, cfa, b))
<1> DEFINE fp == IF b = Fail THEN 0 ELSE b
           Out(x) == IF strip_ptr_auth(r.mask, x) = 0 THEN NoCaller
                     ELSE IF AdjustedIp(f, r, known, x) > MaxU
                          THEN Failed("IntegerOverflow", None)
                     ELSE IF /\ AdjustedIp(f, r, known, x) = strip_ptr_auth(r.mask, f.addr)
                             /\ cfa = r.sp
                          THEN Failed("DidNotAdvance", None)
                     ELSE Caller(AdjustedIp(f, r, known, x), CallerRegs(r, x, cfa, fp))
<1>1. \A x : StepResult(f, r, known, Stepped(x, cfa, b)) = Out(x)
  BY Zenon DEF StepResult, Stepped
<1>2. /\ AdjustedIp(f, r, known, n) = AdjustedIp(f, r, known, o)
      /\ CallerRegs(r, n, cfa, fp) = CallerRegs(r, o, cfa, fp)
  BY Zenon DEF AdjustedIp, CallerRegs
<1>3. Out(n) = Out(o)
  BY <1>2, Zenon
<1> QED BY <1>1, <1>3, Zenon

\* The results of the steps that yield no caller.
LEMMA PlainResults ==
    ASSUME NEW f, NEW r, NEW known
    PROVE  /\ StepResult(f, r, known, Crash) = NoReturn
           /\ StepResult(f, r, known, EndOfStack) = NoCaller
           /\ \A n, cfa, b : strip_ptr_auth(r.mask, n) = 0
                => StepResult(f, r, known, Stepped(n, cfa, b)) = NoCaller
<1>1. StepResult(f, r, known, Crash) = NoReturn
  BY Zenon DEF StepResult, Crash
<1>2. StepResult(f, r, known, EndOfStack) = NoCaller
  BY Zenon DEF StepResult, EndOfStack
<1>3. ASSUME NEW n, NEW cfa, NEW b, strip_ptr_auth(r.mask, n) = 0
      PROVE  StepResult(f, r, known, Stepped(n, cfa, b)) = NoCaller
  BY <1>3, Zenon DEF StepResult, Stepped
<1> QED BY <1>1, <1>2, <1>3, Zenon

\* Two steps that are the same but for the signature of the return address.
SameButSigned(s, t, mask) ==
    \/ s = t
    \/ \E n, o, cfa, b :
         /\ s = Stepped(n, cfa, b) /\ t = Stepped(o, cfa, b)
         /\ strip_ptr_auth(mask, n) = strip_ptr_auth(mask, o)

\* A signal frame's return address is the PC of its sigcontext: whatever it is signed
\* with, the step succeeds or fails alike and restores the same registers.
LEMMA SignedSignalStep ==
    ASSUME NEW rd \in Reader, NEW rs \in Reader, NEW ip, NEW r \in Reg, NEW p,
           SignedAt(rd, rs, Wrap(r.sp + ScPc), r.mask, p)
    PROVE  SameButSigned(SignalStep(rd, ip, r), SignalStep(rs, ip, r), r.mask)
<1> DEFINE W(o) == Wrap(r.sp + o)
           a == W(ScPc)
           loc(o) == MemLocation(W(o))
           Got(m, o) == dwarf_get(m, loc(o))
           Lost(m, o) == loc(o)[1] = "mem" /\ Got(m, o) = Fail
           F(m) == IF m[W(ScRecords)] = Fail THEN W(ScRecords)
                   ELSE IF Lost(m, ScPc) THEN loc(ScPc)[2]
                   ELSE IF Lost(m, ScSp) THEN loc(ScSp)[2]
                   ELSE None
           N(m) == IF Got(m, ScPc) = Fail THEN ip ELSE Got(m, ScPc)
           S(m) == IF Got(m, ScSp) = Fail THEN r.sp ELSE Got(m, ScSp)
           Step(m) == IF Got(m, 0) = Fail
                      THEN StepError(IF Lost(m, 0) THEN r.sp ELSE None)
                      ELSE IF m[W(ScRecords)] # 0 THEN StepError(F(m))
                      ELSE Stepped(N(m), S(m), Got(m, ScFp))
<1>1. SignalStep(rd, ip, r) = Step(rd) /\ SignalStep(rs, ip, r) = Step(rs)
  BY Zenon DEF SignalStep
<1>2. /\ r.sp \in 0 .. MaxU /\ MaxU \in Nat
      /\ ScPc \in 0 .. MaxU /\ ScSp \in 0 .. MaxU /\ ScFp \in 0 .. MaxU
      /\ ScRecords \in 0 .. MaxU
  BY WidthAssumption, CodeAssumption, Zenon DEF Reg, Addr
<1>3. \A o \in 0 .. MaxU : W(o) \in Addr
  <2> SUFFICES ASSUME NEW o \in 0 .. MaxU PROVE W(o) \in Addr
    BY Zenon
  <2>1. r.sp + o \in Int
    BY <1>2
  <2> QED BY <2>1, WrapType, Zenon
<1>4. \A o \in 0 .. MaxU : o # ScPc => W(o) # a
  <2> SUFFICES ASSUME NEW o \in 0 .. MaxU, W(o) = a PROVE o = ScPc
    BY Zenon
  <2>1. MaxU + 1 \in Nat /\ MaxU + 1 > 0 /\ r.sp \in Int
        /\ o \in 0 .. (MaxU + 1) - 1 /\ ScPc \in 0 .. (MaxU + 1) - 1
    BY <1>2
  <2>2. (r.sp + o) % (MaxU + 1) = (r.sp + ScPc) % (MaxU + 1)
    BY Zenon DEF Wrap
  <2> QED BY <2>1, <2>2, ModDistinct, Zenon
<1>5. W(ScSp) # a /\ W(ScFp) # a /\ W(ScRecords) # a
  BY <1>2, <1>4, FieldAssumption, Zenon
<1> HIDE DEF W
<1>6. rd[W(ScRecords)] = rs[W(ScRecords)] /\ rd[W(ScSp)] = rs[W(ScSp)]
      /\ rd[W(ScFp)] = rs[W(ScFp)]
  BY <1>2, <1>3, <1>5, Zenon DEF SignedAt, W
<1>7. Got(rd, ScSp) = Got(rs, ScSp) /\ Got(rd, ScFp) = Got(rs, ScFp)
  BY <1>6, Zenon DEF MemLocation, dwarf_get
<1>8. \A o \in 0 .. MaxU : Got(rd, o) = Fail <=> Got(rs, o) = Fail
  <2>1. \A c \in Addr : rd[c] = Fail <=> rs[c] = Fail
    BY SignedReads, Zenon
  <2> QED BY <1>3, <2>1, Zenon DEF MemLocation, dwarf_get
<1>9. \/ Got(rd, ScPc) = Fail /\ Got(rs, ScPc) = Fail
      \/ strip_ptr_auth(r.mask, Got(rd, ScPc)) = strip_ptr_auth(r.mask, Got(rs, ScPc))
  BY Zenon DEF MemLocation, dwarf_get, SignedAt, W
<1>10. 0 \in 0 .. MaxU
  BY <1>2
<1> HIDE DEF Got
<1>11. /\ Got(rd, 0) = Fail <=> Got(rs, 0) = Fail
       /\ Got(rd, ScPc) = Fail <=> Got(rs, ScPc) = Fail
  BY <1>2, <1>8, <1>10, Zenon
<1>12. F(rd) = F(rs) /\ S(rd) = S(rs)
  BY <1>6, <1>7, <1>11, Zenon
<1>13. strip_ptr_auth(r.mask, N(rd)) = strip_ptr_auth(r.mask, N(rs))
  BY <1>9, <1>11, Zenon
<1> HIDE DEF F, N, S
<1>14. \/ Step(rd) = Step(rs)
       \/ /\ Step(rd) = Stepped(N(rd), S(rd), Got(rd, ScFp))
          /\ Step(rs) = Stepped(N(rs), S(rd), Got(rd, ScFp))
  BY <1>6, <1>7, <1>11, <1>12, Zenon
<1> HIDE DEF Step
<1> QED BY <1>1, <1>13, <1>14, Zenon DEF SameButSigned

\* A row that cannot be used: the step looks at the registers only.
LEMMA SignedUnusable ==
    ASSUME NEW rd \in Reader, NEW rs \in Reader, NEW a, NEW mask, NEW p,
           SignedAt(rd, rs, a, mask, p),
           NEW rws, NEW ip \in Addr, NEW r \in Reg, NEW at, NEW row \in Row,
           StepsBy(rd, rws, ip, r, at, row), ~Usable(rd, row)
    PROVE  unw_step(rd, rws, ip, r) = unw_step(rs, rws, ip, r)
<1> DEFINE cursor == [ok |-> "no", ip |-> at, cfa |-> r.sp, lr |-> <<"val", r.lr>>,
                      fp |-> <<"val", r.fp>>]
           failed == IF rd[ip] = Fail THEN ip ELSE None
           Step(m) == IF is_plt_entry(m, at) THEN PltStep(m, cursor, failed) ELSE Crash
<1>1. /\ \A c \in Addr : rd[c] = Fail <=> rs[c] = Fail
      /\ is_plt_entry(rd, at) <=> is_plt_entry(rs, at)
  BY SignedReads, Zenon
<1>2. StepsBy(rs, rws, ip, r, at, row) /\ ~Usable(rs, row)
  BY <1>1, Zenon DEF StepsBy, Usable, Row
<1>3. dwarf_step(rd, row, at, r) = cursor /\ dwarf_step(rs, row, at, r) = cursor
  BY <1>2, Zenon DEF dwarf_step, Usable
<1>4. cursor.ok = "no" /\ cursor.ip = at /\ cursor.lr = <<"val", r.lr>>
      /\ cursor.fp = <<"val", r.fp>>
  BY Zenon
<1>5. failed = IF rs[ip] = Fail THEN ip ELSE None
  BY <1>1, Zenon
<1> HIDE DEF cursor
<1>6. unw_step(rd, rws, ip, r) = AfterDwarf(rd, ip, cursor)
  BY <1>3, RowStep
<1>7. unw_step(rs, rws, ip, r) = AfterDwarf(rs, ip, cursor)
  BY <1>2, <1>3, RowStep
<1>8. AfterDwarf(rd, ip, cursor) = Step(rd) /\ AfterDwarf(rs, ip, cursor) = Step(rs)
  BY <1>4, <1>5, Zenon DEF AfterDwarf
<1> HIDE DEF failed
<1>9. PltStep(rd, cursor, failed) = PltStep(rs, cursor, failed)
  BY <1>4 DEF PltStep, dwarf_get
<1> QED BY <1>1, <1>6, <1>7, <1>8, <1>9, Zenon

\* Results that differ in a crash, or in the end of a stack: the frame at `at', of
\* the CFA cfa and the return address p, returns to itself.
Indistinct(x, y, r, cfa, p, at) ==
    \/ y = x
    \/ NoReturn \in {x, y}
    \/ NoCaller \in {x, y} /\ cfa = r.sp /\ p = at

\* A row with the CFA cfa whose return address is in memory, in a word a of its own.
SavesReturnAddress(row, r, cfa, a) ==
    /\ row.cfa # "reg" /\ cfa = Wrap(r[row.cfa] + row.off)
    /\ row.lr.where = "cfarel" /\ a = Wrap(cfa + row.lr.val)
    /\ ~(row.fp.where = "cfarel" /\ a = Wrap(cfa + row.fp.val))

\* With such a row, signatures make no difference but for a crash and for a frame that
\* returns to itself.
LEMMA SignedRow ==
    ASSUME NEW f, NEW r \in Reg, NEW known, NEW rd \in Reader, NEW rs \in Reader, NEW p,
           NEW row \in Row, NEW cfa, NEW a, SavesReturnAddress(row, r, cfa, a),
           SignedAt(rd, rs, a, r.mask, p),
           NEW at, strip_ptr_auth(r.mask, at) = at,
           NEW s, UsesRow(s, rd, row, at, r), NEW t, UsesRow(t, rs, row, at, r)
    PROVE  Indistinct(StepResult(f, r, known, s), StepResult(f, r, known, t),
                      r, cfa, p, at)
<1> DEFINE R(z) == StepResult(f, r, known, z)
           lr == Location(row.lr, r.lr, cfa)
           fp == Location(row.fp, r.fp, cfa)
           n == dwarf_get(rd, lr)
           o == dwarf_get(rs, lr)
           b == dwarf_get(rd, fp)
           Use(z, m) == \/ z = Crash
                        \/ z = EndOfStack /\ (lr[1] = "null" \/ m = 0 \/ b = 0)
                        \/ \E e : z = StepError(e) /\ m = Fail /\ lr[1] # "null"
                        \/ /\ z = Stepped(m, cfa, b) /\ lr[1] # "null"
                           /\ m # 0 /\ (b # 0 \/ (m = at /\ cfa = r.sp))
<1>1. b = dwarf_get(rs, fp)
  <2>1. cfa \in Addr /\ row.fp \in Rule /\ r.fp \in Addr
    <3>1. r[row.cfa] + row.off \in Int
      BY WidthAssumption DEF SavesReturnAddress, Row, Reg, Addr
    <3> QED BY <3>1, WrapType, Zenon DEF SavesReturnAddress, Row, Reg
  <2>2. fp \in Locations
    BY <2>1, LocationType, Zenon
  <2>3. fp[1] = "mem" => fp[2] # a
    BY <2>1, Zenon DEF SavesReturnAddress, Location, MemLocation, Rule
  <2> HIDE DEF fp
  <2> QED BY <2>2, <2>3 DEF dwarf_get, Locations, SignedAt
<1>2. lr = MemLocation(a)
  BY Zenon DEF SavesReturnAddress, Location
<1>3. Use(s, n) /\ Use(t, o)
  BY <1>1, Zenon DEF SavesReturnAddress, UsesRow
<1> HIDE DEF lr, fp
<1>4. lr[1] # "null" => /\ n # Fail /\ o # Fail
                        /\ strip_ptr_auth(r.mask, n) = p
                        /\ strip_ptr_auth(r.mask, o) = p
  BY <1>2, MarksAssumption, Zenon DEF MemLocation, dwarf_get, SignedAt
<1> HIDE DEF n, o, b
<1>5. R(Crash) = NoReturn /\ R(EndOfStack) = NoCaller
  BY PlainResults, Zenon
<1>6. CASE lr[1] = "null"
  BY <1>3, <1>5, <1>6, Zenon DEF Indistinct
<1>7. CASE lr[1] # "null"
  <2>1. \/ s \in {Crash, EndOfStack}
        \/ s = Stepped(n, cfa, b)
    BY <1>3, <1>4, <1>7, Zenon
  <2>2. \/ t \in {Crash, EndOfStack}
        \/ t = Stepped(o, cfa, b)
    BY <1>3, <1>4, <1>7, Zenon
  <2>3. R(Stepped(n, cfa, b)) = R(Stepped(o, cfa, b))
    BY <1>4, <1>7, SignedResult
  <2>4. p = 0 => R(Stepped(n, cfa, b)) = NoCaller
    BY <1>4, <1>7, PlainResults, Zenon
  <2>5. n = 0 \/ o = 0 => p = 0
    <3>1. r.mask \in 0 .. MaxU /\ MaxU \in Nat
      BY MaskType, Zenon
    <3>2. strip_ptr_auth(r.mask, 0) = 0
      BY <3>1, ModNear DEF strip_ptr_auth
    <3> QED BY <1>4, <1>7, <3>2, Zenon
  <2>6. EndOfStack # Crash /\ \A i, c, d : Stepped(i, c, d) \notin {EndOfStack, Crash}
    BY StepKinds, Zenon
  <2>7. CASE s = EndOfStack /\ t = Stepped(o, cfa, b)
    BY <1>3, <1>4, <1>5, <1>7, <2>3, <2>4, <2>5, <2>6, <2>7, StepKinds, Zenon
       DEF Indistinct
  <2>8. CASE t = EndOfStack /\ s = Stepped(n, cfa, b)
    BY <1>3, <1>4, <1>5, <1>7, <2>3, <2>4, <2>5, <2>6, <2>8, StepKinds, Zenon
       DEF Indistinct
  <2> QED BY <1>5, <2>1, <2>2, <2>3, <2>7, <2>8 DEF Indistinct
<1> QED BY <1>6, <1>7, Zenon

\* Whatever the memory, the mask and the registry, and whatever the return address of
\* a frame is signed with: unwind_frame returns what it returns for the plain address.
\* The exceptions are libunwind's: it may not come back, and it compares addresses
\* before they are stripped.
THEOREM SignaturesStayInvisible == Spec => []SignaturesInvisible
<1>1. TypeOK => SignaturesInvisible
  <2> DEFINE Out(m) == unwind_frame(state.frame, regs, cached, m, {})
             f == state.frame
             ip == LookupIp
             at == StepIp
  <2> SUFFICES ASSUME TypeOK,
                      NEW a \in ReturnSlot \cap DOMAIN mem,
                      NEW signed \in Addr,
                      strip_ptr_auth(regs.mask, signed) = strip_ptr_auth(regs.mask, mem[a])
               PROVE  LET y == Out([mem EXCEPT ![a] = signed])
                      IN  \/ y = Out(mem)
                          \/ NoReturn \in {y, Out(mem)}
                          \/ NoCaller \in {y, Out(mem)} /\ ReturnsToItself(mem[a])
    BY Zenon DEF SignaturesInvisible, CleanOutcome
  <2> DEFINE m == [mem EXCEPT ![a] = signed]
             p == strip_ptr_auth(regs.mask, mem[a])
             rd == access_mem(mem, {})
             rs == access_mem(m, {})
             Fallback(w) == fallback_unwind_frame(strip_ptr_auth(regs.mask, f.addr), regs,
                                                  read_stack(w, {}))
             Result(c) == StepResult(f, regs, CachedAfter(cached, c, ip),
                                     unw_step(c, rows(ip), ip, regs))
  <2>1. /\ f \in Frame /\ regs \in Reg /\ IsMemory(mem) /\ regs.lr <= regs.mask
        /\ a \in DOMAIN mem
    BY Zenon DEF TypeOK
  <2>2. ip \in Addr /\ ip <= regs.mask
    BY <2>1, LookupType, StripType, Zenon DEF LookupIp, Reg
  <2>3. /\ IsMemory(m)
        /\ SignedAt(read_stack(mem, {}), read_stack(m, {}), a, regs.mask, p)
        /\ rd = rs \/ SignedAt(rd, rs, a, regs.mask, p)
    BY <2>1, SignedMemory, Zenon
  <2>4. \A w : Out(w) = IF Kind[ip] = "invalid" THEN Failed("UnwindInfo", None)
                        ELSE IF ~has_unwind_info(ip) THEN Fallback(w)
                        ELSE Result(access_mem(w, {}))
    BY Zenon DEF unwind_frame, LookupIp
  <2> HIDE DEF m, Out, Fallback, Result
  <2>5. /\ rd \in Reader /\ rs \in Reader
        /\ read_stack(mem, {}) \in Reader /\ read_stack(m, {}) \in Reader
    BY <2>1, <2>3, ReaderType, Zenon
  <2>6. CASE Kind[ip] = "invalid"
    BY <2>4, <2>6, Zenon DEF m
  <2>7. CASE Kind[ip] # "invalid" /\ ~has_unwind_info(ip)
    <3>1. a = regs.fp + Word
      BY <2>7, Zenon DEF ReturnSlot
    <3> HIDE DEF rd, rs, ip, at, p
    <3>2. Fallback(mem) = Fallback(m)
      BY <2>1, <2>3, <2>5, <3>1, SignedFallback DEF Fallback
    <3> QED BY <2>4, <2>7, <3>2, Zenon DEF m
  <2>8. CASE Kind[ip] # "invalid" /\ has_unwind_info(ip)
    <3>1. Out(mem) = Result(rd) /\ Out(m) = Result(rs)
      BY <2>4, <2>8, Zenon
    <3> HIDE DEF rd, rs, ip, p
    <3>2. CASE rd = rs
      BY <3>1, <3>2, Zenon DEF m
    <3>3. CASE SignedAt(rd, rs, a, regs.mask, p)
      <4> DEFINE known == CachedAfter(cached, rd, ip)
                 s == unw_step(rd, rows(ip), ip, regs)
                 t == unw_step(rs, rows(ip), ip, regs)
                 R(z) == StepResult(f, regs, known, z)
      <4>1. \A c \in Addr : rd[c] = Fail <=> rs[c] = Fail
        BY <2>5, <3>3, SignedReads, Zenon
      <4>2. CachedAfter(cached, rs, ip) = known
        BY <2>2, <4>1, Zenon DEF CachedAfter, IsSignalStub
      <4>3. Out(mem) = R(s) /\ Out(m) = R(t)
        BY <3>1, <4>2, Zenon DEF Result
      <4> HIDE DEF known, s, t, R
      <4>4. CASE IsSignalStub(rd, ip)
        <5>1. a = Wrap(regs.sp + ScPc)
          BY <2>8, <4>4, Zenon DEF ReturnSlot, rd, ip
        <5>2. IsSignalStub(rs, ip)
          BY <2>2, <4>1, <4>4, Zenon DEF IsSignalStub
        <5>3. s = SignalStep(rd, ip, regs) /\ t = SignalStep(rs, ip, regs)
          BY <4>4, <5>2, SignalStubStep, Zenon DEF s, t
        <5>4. SameButSigned(s, t, regs.mask)
          BY <2>1, <2>5, <3>3, <5>1, <5>3, SignedSignalStep, Zenon
        <5>5. R(s) = R(t)
          BY <5>4, SignedResult DEF SameButSigned, R
        <5> QED BY <4>3, <5>5, Zenon DEF m
      <4>5. CASE ~IsSignalStub(rd, ip)
        <5> DEFINE row == StepRow
                   cfa == StepCfa
        <5>1. /\ FdeAt[ip] # None /\ row.cfa # "reg"
              /\ row.lr.where = "cfarel" /\ a = Wrap(cfa + row.lr.val)
              /\ ~(row.fp.where = "cfarel" /\ a = Wrap(cfa + row.fp.val))
          BY <2>8, <4>5, Zenon DEF ReturnSlot, SavedAt, rd, ip
        <5>2. at = IF rd[ip] = Fail THEN regs.lr ELSE ip
          BY Zenon DEF StepIp, rd, ip
        <5>3. at \in Addr /\ at <= regs.mask
          BY <2>1, <2>2, <5>2, Zenon DEF Reg
        <5>4. strip_ptr_auth(regs.mask, at) = at
          <6>1. regs.mask \in 0 .. MaxU /\ at \in 0 .. MaxU /\ MaxU \in Nat
            BY <2>1, <5>3, MaskType, Zenon DEF Addr
          <6> QED BY <5>3, <6>1, ModNear DEF strip_ptr_auth
        <5>5. /\ rows(ip) # None /\ row = rows(ip)[at] /\ row # None /\ row \in Row
              /\ cfa = Wrap(regs[row.cfa] + row.off)
          <6>1. FdeAt[ip] \in DOMAIN Fdes
            BY <2>2, <5>1, RegistryAssumption, Zenon
          <6>2. rows(ip) = Fdes[FdeAt[ip]].rows
            BY <5>1, Zenon DEF rows
          <6>3. row = rows(ip)[at] /\ cfa = Wrap(regs[row.cfa] + row.off)
            BY <6>2, Zenon DEF StepRow, StepCfa, ip
          <6>4. rows(ip) \in [Addr -> Row] /\ rows(ip) # None
                /\ \A c \in Addr : rows(ip)[c] # None
            BY <6>1, <6>2, RegistryAssumption
          <6> HIDE DEF row, cfa, at
          <6> QED BY <5>3, <6>3, <6>4, Zenon
        <5> HIDE DEF row, cfa, at
        <5>6. StepsBy(rd, rows(ip), ip, regs, at, row)
          BY <4>5, <5>2, <5>5, Zenon DEF StepsBy, IsSignalStub
        <5>7. StepsBy(rs, rows(ip), ip, regs, at, row)
          BY <2>2, <4>1, <5>6, Zenon DEF StepsBy
        <5>8. CASE ~Usable(rd, row)
          <6>1. row \in Row
            BY <5>5, Zenon
          <6>2. s = t
            BY <2>1, <2>2, <2>5, <3>3, <5>6, <5>8, <6>1, SignedUnusable DEF s, t
          <6> QED BY <4>3, <6>2, Zenon DEF m
        <5>9. CASE Usable(rd, row)
          <6>1. Usable(rs, row)
            BY <4>1, <5>5, <5>9, Zenon DEF Usable, Row
          <6>2. UsesRow(s, rd, row, at, regs)
            BY <2>1, <2>2, <2>5, <5>6, <5>9, UsableRowStep, Zenon DEF s
          <6>3. UsesRow(t, rs, row, at, regs)
            BY <2>1, <2>2, <2>5, <5>7, <6>1, UsableRowStep, Zenon DEF t
          <6>4. Indistinct(R(s), R(t), regs, cfa, p, at)
            <7>1. SavesReturnAddress(row, regs, cfa, a)
              BY <5>1, <5>5, Zenon DEF SavesReturnAddress
            <7>2. row \in Row
              BY <5>5, Zenon
            <7> HIDE DEF f
            <7>3. Indistinct(StepResult(f, regs, known, s), StepResult(f, regs, known, t),
                             regs, cfa, p, at)
              BY <2>1, <2>5, <3>3, <5>4, <6>2, <6>3, <7>1, <7>2, SignedRow, Zenon
            <7> QED BY <7>3, Zenon DEF R
          <6>5. cfa = regs.sp /\ p = at => ReturnsToItself(mem[a])
            BY <5>1, Zenon DEF ReturnsToItself, cfa, at, p, ip
          <6> QED BY <4>3, <6>4, <6>5, Zenon DEF m, Indistinct
        <5> QED BY <5>8, <5>9, Zenon
      <4> QED BY <4>4, <4>5, Zenon
    <3> QED BY <2>3, <3>2, <3>3, Zenon DEF rd, rs, p
  <2> QED BY <2>6, <2>7, <2>8, Zenon
<1> QED BY <1>1, TypeCorrect, PTL
=============================================================================
