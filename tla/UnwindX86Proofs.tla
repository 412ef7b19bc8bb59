-------------------------- MODULE UnwindX86Proofs --------------------------
(***************************************************************************)
(* Proofs about UnwindX86, for every memory, registry and set of failing   *)
(* reads: the walk's state keeps its type, a frame-pointer step makes      *)
(* progress, failed reads are contained, recovered callers are the ones    *)
(* their rows describe, and no register keeps a stale value.               *)
(***************************************************************************)
EXTENDS UnwindX86, TLAPS

\* The range of a remainder.
LEMMA ModRange ==
    ASSUME NEW a \in Int, NEW b \in Nat, b > 0
    PROVE  a % b \in 0 .. b - 1
OBVIOUS

\* The remainder of numbers at most one period away.
LEMMA ModNear ==
    ASSUME NEW a \in Int, NEW b \in Nat, b > 0
    PROVE  /\ a \in 0 .. b - 1 => a % b = a
           /\ a \in b .. 2 * b - 1 => a % b = a - b
           /\ a \in -b .. -1 => a % b = a + b
OBVIOUS

\* A number is made of its quotient and its remainder.
LEMMA ModDivides ==
    ASSUME NEW a \in Int, NEW b \in Nat, b > 0
    PROVE  a = b * (a \div b) + (a % b) /\ a \div b \in Int /\ a % b \in 0 .. b - 1
OBVIOUS

\* A remainder is determined by its range.
LEMMA ModUnique ==
    ASSUME NEW b \in Nat, b > 0, NEW q \in Int, NEW r \in 0 .. b - 1
    PROVE  (b * q + r) % b = r
OBVIOUS

\* The remainder of a successor.
LEMMA ModSucc ==
    ASSUME NEW a \in Int, NEW b \in Nat, b > 0
    PROVE  (a + 1) % b = IF a % b = b - 1 THEN 0 ELSE (a % b) + 1
<1> DEFINE q == a \div b
           r == a % b
<1>1. a = b * q + r /\ q \in Int /\ r \in 0 .. b - 1
  BY ModDivides, Zenon
<1> HIDE DEF q, r
<1>2. CASE r = b - 1
  <2>1. a + 1 = b * (q + 1) + 0
    BY <1>1, <1>2
  <2>2. (b * (q + 1) + 0) % b = 0
    BY <1>1, ModUnique
  <2> QED BY <2>1, <2>2, <1>2, Zenon DEF r
<1>3. CASE r # b - 1
  <2>1. a + 1 = b * q + (r + 1) /\ r + 1 \in 0 .. b - 1
    BY <1>1, <1>3
  <2>2. (b * q + (r + 1)) % b = r + 1
    BY <1>1, <2>1, ModUnique, Zenon
  <2> QED BY <2>1, <2>2, <1>3, Zenon DEF r
<1> QED BY <1>2, <1>3, Zenon

\* Wrapping a summand first changes nothing.
LEMMA ModAdd ==
    ASSUME NEW a \in Int, NEW k \in Int, NEW b \in Nat, b > 0
    PROVE  ((a % b) + k) % b = (a + k) % b
<1> DEFINE q == a \div b
           r == a % b
           p == (r + k) \div b
           s == (r + k) % b
<1>1. a = b * q + r /\ q \in Int /\ r \in 0 .. b - 1
  BY ModDivides, Zenon
<1>2. r + k = b * p + s /\ p \in Int /\ s \in 0 .. b - 1
  <2> HIDE DEF r
  <2> QED BY <1>1, ModDivides
<1> HIDE DEF q, r, p, s
<1>3. a + k = b * (q + p) + s
  BY <1>1, <1>2
<1>4. (b * (q + p) + s) % b = s
  BY <1>1, <1>2, ModUnique
<1> QED BY <1>3, <1>4, Zenon DEF r, s

\* What a memory access can yield.
Reader == [Addr -> Addr \cup {Fail}]

\* Wrapping arithmetic yields addresses.
LEMMA WrapType ==
    ASSUME NEW n \in Int PROVE Wrap(n) \in Addr
<1>1. MaxU + 1 \in Nat /\ MaxU + 1 > 0
  BY WordAssumption
<1>2. n % (MaxU + 1) \in 0 .. (MaxU + 1) - 1
  BY <1>1, ModRange, Zenon
<1> QED BY <1>2, WordAssumption DEF Wrap, Addr

\* read_stack and access_mem yield words or failures.
LEMMA ReaderType ==
    ASSUME NEW m, IsMemory(m), NEW fails
    PROVE  read_stack(m, fails) \in Reader /\ access_mem(m, fails) \in Reader
<1>1. read_stack(m, fails) \in Reader
  BY Zenon DEF IsMemory, read_stack, Reader
<1>2. access_mem(m, fails) \in Reader
  BY <1>1, RegistryAssumption, Zenon DEF IsMemory, access_mem, Reader
<1> QED BY <1>1, <1>2, Zenon

-----------------------------------------------------------------------------
\* What fallback_unwind_frame guarantees: a caller's registers are addresses,
\* its return address is not null, and both pointers moved up.
LEMMA FallbackOutcome ==
    ASSUME NEW r \in Reg, NEW rd \in Reader, NEW cur
    PROVE  LET out == fallback_unwind_frame(cur, r, rd) IN
           /\ out.tag \in {"some", "none", "err"}
           /\ out.tag = "some" =>
                /\ out.regs \in Reg
                /\ out.regs.ip # 0
                /\ out.regs.sp > r.sp
                /\ out.regs.bp = 0 \/ out.regs.bp > r.bp
<1> DEFINE out == fallback_unwind_frame(cur, r, rd)
<1>1. /\ MaxU \in Nat /\ Word \in Nat /\ Word > 0
      /\ r.bp \in 0 .. MaxU /\ r.sp \in 0 .. MaxU
  BY WordAssumption DEF Reg, Addr
<1>2. \A a \in 0 .. MaxU : rd[a] \in 0 .. MaxU \/ rd[a] = Fail
  BY Zenon DEF Reader, Addr
<1>3. \/ out = NoCaller
      \/ \E k, a : out = Failed(k, a)
      \/ /\ out = Caller(CallerRegs(r, rd[r.bp + Word], r.bp + 2 * Word, rd[r.bp]))
         /\ ~(r.bp + 2 * Word > MaxU)
         /\ ~(r.bp + 2 * Word <= r.sp)
         /\ rd[r.bp] # Fail
         /\ ~(rd[r.bp] # 0 /\ rd[r.bp] <= r.bp)
         /\ rd[r.bp + Word] # Fail
         /\ rd[r.bp + Word] # 0
  BY Zenon DEF fallback_unwind_frame
<1> HIDE DEF out
<1>4. CASE out = NoCaller
  BY <1>4 DEF NoCaller, out
<1>5. CASE \E k, a : out = Failed(k, a)
  BY <1>5 DEF Failed, out
<1>6. CASE /\ out = Caller(CallerRegs(r, rd[r.bp + Word], r.bp + 2 * Word, rd[r.bp]))
           /\ ~(r.bp + 2 * Word > MaxU)
           /\ ~(r.bp + 2 * Word <= r.sp)
           /\ rd[r.bp] # Fail
           /\ ~(rd[r.bp] # 0 /\ rd[r.bp] <= r.bp)
           /\ rd[r.bp + Word] # Fail
           /\ rd[r.bp + Word] # 0
  <2>1. /\ r.bp + Word \in 0 .. MaxU
        /\ r.bp + 2 * Word \in 0 .. MaxU
        /\ r.bp + 2 * Word > r.sp
    BY <1>1, <1>6
  <2>2. rd[r.bp] \in 0 .. MaxU /\ rd[r.bp + Word] \in 0 .. MaxU
    BY <1>1, <1>2, <1>6, <2>1, Zenon
  <2>3. rd[r.bp] = 0 \/ rd[r.bp] > r.bp
    BY <1>1, <1>6, <2>2
  <2>4. out.tag = "some"
        /\ out.regs = [ip |-> rd[r.bp + Word], sp |-> r.bp + 2 * Word,
                       bp |-> rd[r.bp], r10 |-> None]
    BY <1>6, Zenon DEF Caller, CallerRegs, Reg
  <2> QED BY <2>1, <2>2, <2>3, <2>4, <1>6 DEF Reg, Addr, out
<1> QED BY <1>3, <1>4, <1>5, <1>6, Zenon

-----------------------------------------------------------------------------
\* The possible results of a libunwind step.
StepOutcome ==
    [ret : {"stepped"}, ip : Addr, sp : Addr, bp : Addr]
    \cup {EndOfStack}
    \cup {StepError(c, a) : c \in {"EINVAL", "EBADREG", "EBADFRAME"},
                            a \in Addr \cup {None}}

\* A register's location holds an address or is null.
LEMMA LocationType ==
    ASSUME NEW rule \in Rule, NEW reg \in Addr, NEW cfa \in Addr, NEW ip \in Addr
    PROVE  Location(rule, reg, cfa, ip)
               \in {<<"null", 0>>} \cup ({"val", "mem"} \X Addr)
<1>1. cfa + rule.val \in Int /\ ip + rule.val \in Int
  BY WordAssumption DEF Rule, Addr
<1>2. Wrap(cfa + rule.val) \in Addr /\ Wrap(ip + rule.val) \in Addr
  BY <1>1, WrapType, Zenon
<1>3. rule.where \in {"undef", "same", "cfa", "cfarel", "iprel"}
  BY Zenon DEF Rule, Where
<1> QED BY <1>2, <1>3, Zenon DEF Location, MemLocation

\* A location that is not null yields a word or a failed read of its address.
LEMMA GetType ==
    ASSUME NEW rd \in Reader, NEW loc \in {"val", "mem"} \X Addr
    PROVE  dwarf_get(rd, loc) \in Addr \cup {Fail} /\ loc[2] \in Addr
BY Zenon DEF dwarf_get, Reader

\* The DWARF step yields one of the possible results.
LEMMA DwarfStepType ==
    ASSUME NEW rd \in Reader, NEW row \in Row, NEW ip \in Addr, NEW r \in Reg
    PROVE  dwarf_step(rd, row, ip, r) \in StepOutcome
<1> DEFINE cfa == Wrap(r[row.cfa] + row.off)
           ra_loc == Location(row.ra, ip, cfa, ip)
           sp_loc == Location(row.sp, r.sp, cfa, ip)
           bp_loc == Location(row.bp, r.bp, cfa, ip)
           new_ip == IF ra_loc[1] = "null" THEN 0 ELSE dwarf_get(rd, ra_loc)
<1>1. row.cfa \in {"sp", "bp", "r10"} /\ row.off \in Int
      /\ row.cfi \in Addr \cup {None} /\ row.ra \in Rule
      /\ row.sp \in Rule /\ row.bp \in Rule
  BY Zenon DEF Row
<1>2. r.sp \in Addr /\ r.bp \in Addr /\ r[row.cfa] \in Addr \cup {None}
  BY <1>1, Zenon DEF Reg
<1>3. CASE row.cfi # None /\ rd[row.cfi] = Fail
  BY <1>1, <1>3 DEF dwarf_step, StepOutcome
<1>4. CASE ~(row.cfi # None /\ rd[row.cfi] = Fail) /\ r[row.cfa] = None
  BY <1>4 DEF dwarf_step, StepOutcome
<1>5. CASE ~(row.cfi # None /\ rd[row.cfi] = Fail) /\ r[row.cfa] # None
  <2>1. r[row.cfa] + row.off \in Int
    BY <1>1, <1>2, <1>5, WordAssumption DEF Addr
  <2>2. cfa \in Addr
    BY <2>1, WrapType, Zenon
  <2>3. /\ ra_loc \in {<<"null", 0>>} \cup ({"val", "mem"} \X Addr)
        /\ sp_loc \in {<<"null", 0>>} \cup ({"val", "mem"} \X Addr)
        /\ bp_loc \in {<<"null", 0>>} \cup ({"val", "mem"} \X Addr)
    <3> HIDE DEF cfa
    <3> QED BY <1>1, <1>2, <2>2, LocationType, Zenon
  <2> SUFFICES
        (IF new_ip = Fail THEN StepError("EINVAL", ra_loc[2])
         ELSE IF new_ip = ip /\ cfa = r.sp THEN StepError("EBADFRAME", None)
         ELSE IF bp_loc[1] = "null" \/ new_ip = 0 THEN EndOfStack
         ELSE IF sp_loc[1] = "null" THEN StepError("EBADREG", None)
         ELSE GetRegs(rd, new_ip, sp_loc, bp_loc)) \in StepOutcome
    BY <1>5, Zenon DEF dwarf_step
  <2> HIDE DEF cfa, ra_loc, sp_loc, bp_loc
  <2>4. 0 \in Addr /\ Fail # 0
    BY WordAssumption, MarksAssumption DEF Addr
  <2>5. new_ip \in Addr \cup {Fail} /\ (new_ip = Fail => ra_loc[2] \in Addr)
    BY <2>3, <2>4, GetType
  <2> HIDE DEF new_ip
  <2>6. ASSUME new_ip # Fail, sp_loc[1] # "null", bp_loc[1] # "null"
        PROVE  GetRegs(rd, new_ip, sp_loc, bp_loc) \in StepOutcome
    <3>1. sp_loc \in {"val", "mem"} \X Addr /\ bp_loc \in {"val", "mem"} \X Addr
      BY <2>3, <2>6
    <3>2. /\ dwarf_get(rd, sp_loc) \in Addr \cup {Fail} /\ sp_loc[2] \in Addr
          /\ dwarf_get(rd, bp_loc) \in Addr \cup {Fail}
      BY <3>1, GetType, Zenon
    <3> QED BY <3>2, <2>4, <2>5, <2>6 DEF GetRegs, Stepped, StepOutcome
  <2> QED BY <2>5, <2>6 DEF StepOutcome
<1> QED BY <1>3, <1>4, <1>5, Zenon

\* So do the heuristics.
LEMMA HeuristicStepType ==
    ASSUME NEW rd \in Reader, NEW ip \in Addr, NEW r \in Reg
    PROVE  heuristic_step(rd, ip, r) \in StepOutcome
<1>1. /\ r.sp \in Addr /\ r.bp \in Addr
      /\ \A a \in Addr : rd[a] \in Addr \cup {Fail}
  BY Zenon DEF Reg, Reader
<1>2. /\ Wrap(r.sp + Word) \in Addr
      /\ Wrap(r.bp + Word) \in Addr
      /\ Wrap(r.bp + 2 * Word) \in Addr
  <2>1. r.sp + Word \in Int /\ r.bp + Word \in Int /\ r.bp + 2 * Word \in Int
    BY <1>1, WordAssumption DEF Addr
  <2> QED BY <2>1, WrapType, Zenon
<1>3. PltStep(rd, r) \in StepOutcome
  BY <1>1 DEF PltStep, Stepped, StepOutcome
<1>4. FixupApplies(rd, ip, r) => FixupStep(rd, r) \in StepOutcome
  BY <1>1, <1>2 DEF FixupApplies, FixupStep, Stepped, StepOutcome
<1>5. GuessStep(rd, ip, r) \in StepOutcome
  <2>1. LastFailed(rd, ip, r) \in Addr
    BY <1>1, Zenon DEF LastFailed
  <2> QED BY <1>1, <1>2, <2>1 DEF GuessStep, GuessedFrame, Stepped, StepOutcome
<1> QED BY <1>3, <1>4, <1>5 DEF heuristic_step, StepOutcome

-----------------------------------------------------------------------------
\* A frame's lookup address is an address: a return address is not null.
LEMMA LookupType ==
    ASSUME NEW f \in Frame
    PROVE  address_for_lookup(f) \in Addr /\ f.addr \in Addr
<1>1. CASE f \in {InstructionPointer(a) : a \in Addr}
  BY <1>1 DEF InstructionPointer, address_for_lookup
<1>2. CASE f \in {ReturnAddress(a) : a \in Addr \ {0}}
  <2>1. PICK a \in Addr \ {0} : f = ReturnAddress(a)
    BY <1>2, Zenon
  <2>2. f.kind = "ra" /\ f.addr = a
    BY <2>1, Zenon DEF ReturnAddress
  <2>3. a - 1 \in Addr
    BY WordAssumption DEF Addr
  <2> QED BY <2>2, <2>3, Zenon DEF address_for_lookup
<1> QED BY <1>1, <1>2, Zenon DEF Frame

\* What unwind_frame makes of a libunwind step.
LEMMA StepResultType ==
    ASSUME NEW f \in Frame, NEW r \in Reg, NEW step \in StepOutcome
    PROVE  LET out == StepResult(f, r, step) IN
           /\ out.tag \in {"some", "none", "err"}
           /\ out.tag = "some" => out.regs \in Reg /\ out.regs.ip # 0
<1>1. CASE step \in [ret : {"stepped"}, ip : Addr, sp : Addr, bp : Addr]
  <2> DEFINE new_ip == AdjustedIp(f, step.ip)
  <2>1. step.ret = "stepped" /\ step.ip \in 0 .. MaxU
        /\ step.sp \in Addr /\ step.bp \in Addr
    BY <1>1, Zenon DEF Addr
  <2>2. new_ip = step.ip \/ new_ip = step.ip + 1
    BY Zenon DEF AdjustedIp
  <2>3. step.ip # 0 /\ ~(new_ip > MaxU) => new_ip \in Addr /\ new_ip # 0
    BY <2>1, <2>2, WordAssumption DEF Addr
  <2>4. ASSUME new_ip \in Addr
        PROVE  CallerRegs(r, new_ip, step.sp, step.bp) \in Reg
               /\ CallerRegs(r, new_ip, step.sp, step.bp).ip = new_ip
    BY <2>1, <2>4, Zenon DEF CallerRegs, Reg
  <2> HIDE DEF new_ip
  <2>5. StepResult(f, r, step) =
          IF step.ip = 0 THEN NoCaller
          ELSE IF new_ip > MaxU THEN Failed("IntegerOverflow", None)
          ELSE IF new_ip = f.addr /\ step.sp = r.sp THEN Failed("DidNotAdvance", None)
          ELSE Caller(CallerRegs(r, new_ip, step.sp, step.bp))
    BY <2>1, Zenon DEF StepResult, new_ip
  <2>6. CASE StepResult(f, r, step) = Caller(CallerRegs(r, new_ip, step.sp, step.bp))
             /\ step.ip # 0 /\ ~(new_ip > MaxU)
    BY <2>3, <2>4, <2>6 DEF Caller
  <2>7. CASE StepResult(f, r, step) = NoCaller
    BY <2>7 DEF NoCaller
  <2>8. CASE \E k : StepResult(f, r, step) = Failed(k, None)
    BY <2>8 DEF Failed
  <2> QED BY <2>5, <2>6, <2>7, <2>8, Zenon
<1>2. CASE step = EndOfStack
  BY <1>2, Zenon DEF EndOfStack, StepResult, NoCaller
<1>3. CASE step \in {StepError(c, a) : c \in {"EINVAL", "EBADREG", "EBADFRAME"},
                                      a \in Addr \cup {None}}
  <2>1. step.ret = "error"
    BY <1>3 DEF StepError
  <2>2. \E k, a : StepResult(f, r, step) = Failed(k, a)
    BY <2>1, Zenon DEF StepResult
  <2> QED BY <2>2 DEF Failed
<1> QED BY <1>1, <1>2, <1>3 DEF StepOutcome

\* What unwind_frame returns.
LEMMA UnwindFrameType ==
    ASSUME NEW f \in Frame, NEW r \in Reg, NEW m, IsMemory(m), NEW fails
    PROVE  LET out == unwind_frame(f, r, m, fails) IN
           /\ out.tag \in {"some", "none", "err"}
           /\ out.tag = "some" => out.regs \in Reg /\ out.regs.ip # 0
<1> DEFINE a == address_for_lookup(f)
<1>1. a \in Addr
  BY LookupType, Zenon
<1>2. read_stack(m, fails) \in Reader /\ access_mem(m, fails) \in Reader
  BY ReaderType, Zenon
<1>3. init_and_step(access_mem(m, fails), Rows[a], a, r) \in StepOutcome
  <2>0. NonNull(access_mem(m, fails)) \in Reader
    BY <1>2, Zenon DEF NonNull, Reader
  <2>1. Rows[a] \in Row \cup {None}
    BY <1>1, RegistryAssumption, Zenon
  <2> HIDE DEF a
  <2>2. CASE Rows[a] = None
    BY <2>2, <2>0, <1>1, HeuristicStepType, Zenon DEF init_and_step
  <2>3. CASE Rows[a] # None
    BY <2>1, <2>3, <2>0, <1>1, DwarfStepType, Zenon DEF init_and_step
  <2> QED BY <2>2, <2>3, Zenon
<1>4. CASE Kind[a] = "invalid"
  BY <1>4, Zenon DEF unwind_frame, Failed
<1>5. CASE Kind[a] # "invalid" /\ ~has_unwind_info(a)
  <2>1. unwind_frame(f, r, m, fails)
          = fallback_unwind_frame(f.addr, r, read_stack(m, fails))
    BY <1>5, Zenon DEF unwind_frame
  <2> QED BY <2>1, <1>2, FallbackOutcome, Zenon
<1>6. CASE Kind[a] # "invalid" /\ has_unwind_info(a)
  <2>1. unwind_frame(f, r, m, fails)
          = StepResult(f, r, init_and_step(access_mem(m, fails), Rows[a], a, r))
    BY <1>6, Zenon DEF unwind_frame
  <2> QED BY <2>1, <1>3, StepResultType
<1> QED BY <1>4, <1>5, <1>6, Zenon

-----------------------------------------------------------------------------
\* The frame above a frame is well formed.
LEMMA CallerFrameType ==
    ASSUME NEW f, NEW ra \in Addr \ {0}
    PROVE  CallerFrame(f, ra) \in Frame
BY Zenon DEF CallerFrame, Frame

\* Every call of next() preserves the type invariant.
LEMMA TypeStep == TypeOK /\ [Next]_vars => TypeOK'
<1> SUFFICES ASSUME TypeOK, [Next]_vars PROVE TypeOK'
  BY Zenon
<1>1. CASE NextInitial
  BY <1>1, Zenon DEF NextInitial, TypeOK, Unwinding, Frames
<1>2. ASSUME NEW fails \in FailSets, NextUnwinding(fails) PROVE TypeOK'
  <2> DEFINE f == state.frame
             out == unwind_frame(f, regs, mem, fails)
  <2>1. f \in Frame /\ regs \in Reg /\ IsMemory(mem)
    BY Zenon DEF TypeOK
  <2>2. out.tag = "some" => out.regs \in Reg /\ out.regs.ip # 0
    BY <2>1, UnwindFrameType, Zenon
  <2>3. /\ mem' = mem
        /\ \/ /\ out.tag = "some" /\ regs' = out.regs
              /\ state' = Unwinding(CallerFrame(f, out.regs.ip))
              /\ ret' = Frames(CallerFrame(f, out.regs.ip))
           \/ state' = Done /\ ret' = EndOfWalk /\ regs' = regs
           \/ out.tag = "err" /\ ret' = out /\ UNCHANGED <<regs, state>>
    BY <1>2, Zenon DEF NextUnwinding
  <2> HIDE DEF f, out
  <2>4. CASE /\ out.tag = "some" /\ regs' = out.regs
             /\ state' = Unwinding(CallerFrame(f, out.regs.ip))
             /\ ret' = Frames(CallerFrame(f, out.regs.ip))
    <3>1. out.regs.ip \in Addr \ {0}
      BY <2>2, <2>4, Zenon DEF Reg
    <3>2. CallerFrame(f, out.regs.ip) \in Frame
      BY <3>1, CallerFrameType, Zenon
    <3> QED BY <2>1, <2>2, <2>3, <2>4, <3>2, Zenon DEF TypeOK, Unwinding, Frames
  <2>5. CASE state' = Done /\ ret' = EndOfWalk /\ regs' = regs
    <3>1. InstructionPointer(0) \in Frame
      BY WordAssumption DEF Frame, Addr
    <3> QED BY <2>1, <2>3, <2>5, <3>1, Zenon DEF TypeOK, Done, EndOfWalk
  <2>6. CASE out.tag = "err" /\ ret' = out /\ UNCHANGED <<regs, state>>
    BY <2>3, <2>6, Zenon DEF TypeOK
  <2> QED BY <2>3, <2>4, <2>5, <2>6, Zenon
<1>3. CASE NextDone
  BY <1>3, Zenon DEF NextDone, TypeOK, EndOfWalk
<1>4. CASE UNCHANGED vars
  BY <1>4, Zenon DEF vars, TypeOK
<1> QED BY <1>1, <1>2, <1>3, <1>4, Zenon DEF Next

\* The walk's state keeps its type: in particular the lookup address of every
\* frame is an address, since no frame is a null return address.
THEOREM TypeCorrect == Spec => []TypeOK
<1>1. Init => TypeOK
  <2> SUFFICES ASSUME Init PROVE TypeOK
    BY Zenon
  <2>1. regs \in Reg /\ regs.ip \in Addr
    BY RegistryAssumption, Zenon DEF Init, Reg
  <2>2. InstructionPointer(regs.ip) \in Frame
    BY <2>1, Zenon DEF Frame
  <2>3. IsMemory(mem)
    BY RegistryAssumption, Zenon DEF Init
  <2> QED BY <2>1, <2>2, <2>3, Zenon DEF Init, TypeOK, Initial, EndOfWalk
<1>2. TypeOK /\ [Next]_vars => TypeOK'
  BY TypeStep, Zenon
<1> QED BY <1>1, <1>2, PTL DEF Spec

\* Each frame-pointer step moves up the stack, for every memory: the measure
\* that makes a walk by frame pointers end.
THEOREM FallbackMakesProgress == Spec => FallbackProgress
<1>1. TypeOK /\ [Next]_vars =>
        [/\ state.tag = "unwinding"
         /\ ~has_unwind_info(LookupIp)
         /\ ret'.tag = "frame"
         => regs'.sp > regs.sp /\ (regs'.bp = 0 \/ regs'.bp > regs.bp)]_vars
  <2> SUFFICES ASSUME TypeOK, Next, state.tag = "unwinding",
                      ~has_unwind_info(LookupIp), ret'.tag = "frame"
               PROVE  regs'.sp > regs.sp /\ (regs'.bp = 0 \/ regs'.bp > regs.bp)
    BY Zenon DEF vars
  <2>1. PICK fails \in FailSets : NextUnwinding(fails)
    BY Zenon DEF Next, NextInitial, NextDone
  <2> DEFINE out == unwind_frame(state.frame, regs, mem, fails)
  <2>2. out.tag = "some" /\ regs' = out.regs
    BY <2>1 DEF NextUnwinding, EndOfWalk
  <2>3. /\ regs \in Reg /\ read_stack(mem, fails) \in Reader
    BY ReaderType, Zenon DEF TypeOK
  <2>4. out = fallback_unwind_frame(state.frame.addr, regs, read_stack(mem, fails))
    BY <2>2, Zenon DEF unwind_frame, LookupIp, Failed
  <2> QED BY <2>2, <2>3, <2>4, FallbackOutcome, Zenon
<1> QED BY <1>1, TypeCorrect, PTL DEF Spec, FallbackProgress

-----------------------------------------------------------------------------
\* A failing read changes a frame-pointer step only into an error that names
\* an address that was unreadable.
LEMMA FallbackReports ==
    ASSUME NEW r \in Reg, NEW m, IsMemory(m), NEW fails, NEW cur
    PROVE  LET out == fallback_unwind_frame(cur, r, read_stack(m, fails)) IN
           \/ out = fallback_unwind_frame(cur, r, read_stack(m, {}))
           \/ out.tag = "err" /\ out.kind = "CouldNotReadStack" /\ out.addr \in fails
<1> DEFINE rd == read_stack(m, fails)
           clean == read_stack(m, {})
           out == fallback_unwind_frame(cur, r, rd)
           Reported == /\ out.tag = "err"
                       /\ out.kind = "CouldNotReadStack"
                       /\ out.addr \in fails
<1> SUFFICES out = fallback_unwind_frame(cur, r, clean) \/ Reported
  BY Zenon
<1>0. \A a \in fails : out = Failed("CouldNotReadStack", a) => Reported
  <2> HIDE DEF out
  <2> QED BY DEF Failed
<1>1. \A a \in Addr : rd[a] = clean[a] \/ (a \in fails /\ rd[a] = Fail)
  BY Zenon DEF read_stack
<1>2. r.bp \in Addr /\ MaxU \in Nat /\ Word \in Nat /\ Word > 0
  BY WordAssumption DEF Reg
<1> HIDE DEF rd, clean, Reported
<1>3. CASE r.bp = 0 \/ r.bp + 2 * Word > MaxU \/ r.bp + 2 * Word <= r.sp
  BY <1>3, Zenon DEF fallback_unwind_frame
<1>4. CASE ~(r.bp = 0 \/ r.bp + 2 * Word > MaxU \/ r.bp + 2 * Word <= r.sp)
  <2>1. r.bp + Word \in Addr
    BY <1>2, <1>4 DEF Addr
  <2>2. CASE rd[r.bp] = clean[r.bp] /\ rd[r.bp + Word] = clean[r.bp + Word]
    BY <2>2, Zenon DEF fallback_unwind_frame
  <2>3. CASE r.bp \in fails /\ rd[r.bp] = Fail
    <3>1. out = Failed("CouldNotReadStack", r.bp)
      BY <1>4, <2>3, Zenon DEF fallback_unwind_frame
    <3> HIDE DEF out
    <3> QED BY <3>1, <2>3, <1>0, Zenon
  <2>4. CASE /\ rd[r.bp] = clean[r.bp]
             /\ r.bp + Word \in fails /\ rd[r.bp + Word] = Fail
    <3>1. CASE rd[r.bp] = Fail \/ (rd[r.bp] # 0 /\ rd[r.bp] <= r.bp)
      BY <1>4, <2>4, <3>1, Zenon DEF fallback_unwind_frame
    <3>2. CASE ~(rd[r.bp] = Fail \/ (rd[r.bp] # 0 /\ rd[r.bp] <= r.bp))
      <4>1. out = Failed("CouldNotReadStack", r.bp + Word)
        BY <1>4, <2>4, <3>2, Zenon DEF fallback_unwind_frame
      <4> HIDE DEF out
      <4> QED BY <4>1, <2>4, <1>0, Zenon
    <3> QED BY <3>1, <3>2, Zenon
  <2> QED BY <1>1, <1>2, <2>1, <2>2, <2>3, <2>4, Zenon
<1> QED BY <1>3, <1>4, Zenon

\* A failing read changes a step by a row only into an error that names an
\* address that was unreadable, or into a step that loses RBP.
LEMMA DwarfStepReports ==
    ASSUME NEW rd \in Reader, NEW clean \in Reader, NEW fails,
           \A a \in Addr : rd[a] = clean[a] \/ (a \in fails /\ rd[a] = Fail),
           NEW row \in Row, NEW ip \in Addr, NEW r \in Reg
    PROVE  \/ dwarf_step(rd, row, ip, r) = dwarf_step(clean, row, ip, r)
           \/ \E a \in Addr : a \in fails /\ dwarf_step(rd, row, ip, r) = StepError("EINVAL", a)
           \/ \E i \in Addr, s \in Addr, b \in Addr :
                /\ dwarf_step(clean, row, ip, r) = Stepped(i, s, b)
                /\ dwarf_step(rd, row, ip, r) = Stepped(i, s, 0)
<1> DEFINE cfa == Wrap(r[row.cfa] + row.off)
           ra_loc == Location(row.ra, ip, cfa, ip)
           sp_loc == Location(row.sp, r.sp, cfa, ip)
           bp_loc == Location(row.bp, r.bp, cfa, ip)
           NewIp(m) == IF ra_loc[1] = "null" THEN 0 ELSE dwarf_get(m, ra_loc)
           Rest(m) == IF NewIp(m) = Fail THEN StepError("EINVAL", ra_loc[2])
                      ELSE IF NewIp(m) = ip /\ cfa = r.sp THEN StepError("EBADFRAME", None)
                      ELSE IF bp_loc[1] = "null" \/ NewIp(m) = 0 THEN EndOfStack
                      ELSE IF sp_loc[1] = "null" THEN StepError("EBADREG", None)
                      ELSE GetRegs(m, NewIp(m), sp_loc, bp_loc)
<1>1. row.cfa \in {"sp", "bp", "r10"} /\ row.off \in Int
      /\ row.cfi \in Addr \cup {None} /\ row.ra \in Rule
      /\ row.sp \in Rule /\ row.bp \in Rule
  BY Zenon DEF Row
<1>2. r.sp \in Addr /\ r.bp \in Addr /\ r[row.cfa] \in Addr \cup {None}
  BY <1>1, Zenon DEF Reg
<1>3. CASE row.cfi # None /\ rd[row.cfi] = Fail
  <2>1. dwarf_step(rd, row, ip, r) = StepError("EINVAL", row.cfi)
    BY <1>3, Zenon DEF dwarf_step
  <2>2. CASE clean[row.cfi] = Fail
    BY <1>3, <2>1, <2>2, Zenon DEF dwarf_step
  <2>3. CASE clean[row.cfi] # Fail
    <3>1. row.cfi \in Addr /\ row.cfi \in fails
      BY <1>1, <1>3, <2>3, Zenon
    <3> QED BY <2>1, <3>1, Zenon
  <2> QED BY <2>2, <2>3, Zenon
<1>4. CASE ~(row.cfi # None /\ rd[row.cfi] = Fail) /\ r[row.cfa] = None
  <2>1. ~(row.cfi # None /\ clean[row.cfi] = Fail)
    BY <1>1, <1>4, Zenon
  <2> QED BY <1>4, <2>1, Zenon DEF dwarf_step
<1>5. CASE ~(row.cfi # None /\ rd[row.cfi] = Fail) /\ r[row.cfa] # None
  <2>1. ~(row.cfi # None /\ clean[row.cfi] = Fail)
    BY <1>1, <1>5, Zenon
  <2>2. dwarf_step(rd, row, ip, r) = Rest(rd) /\ dwarf_step(clean, row, ip, r) = Rest(clean)
    BY <1>5, <2>1, Zenon DEF dwarf_step
  <2>3. r[row.cfa] + row.off \in Int
    BY <1>1, <1>2, <1>5, WordAssumption DEF Addr
  <2>4. cfa \in Addr
    BY <2>3, WrapType, Zenon
  <2>5. /\ ra_loc \in {<<"null", 0>>} \cup ({"val", "mem"} \X Addr)
        /\ sp_loc \in {<<"null", 0>>} \cup ({"val", "mem"} \X Addr)
        /\ bp_loc \in {<<"null", 0>>} \cup ({"val", "mem"} \X Addr)
    <3> HIDE DEF cfa
    <3> QED BY <1>1, <1>2, <2>4, LocationType, Zenon
  <2> HIDE DEF cfa, ra_loc, sp_loc, bp_loc
  <2>6. ASSUME NEW loc \in {"val", "mem"} \X Addr
        PROVE  /\ dwarf_get(clean, loc) \in Addr \cup {Fail} /\ loc[2] \in Addr
               /\ \/ dwarf_get(rd, loc) = dwarf_get(clean, loc)
                  \/ dwarf_get(rd, loc) = Fail /\ loc[2] \in fails
    BY GetType, Zenon DEF dwarf_get
  <2>7. 0 \in Addr /\ Fail # 0
    BY WordAssumption, MarksAssumption DEF Addr
  <2>8. CASE NewIp(rd) # NewIp(clean)
    <3>1. NewIp(rd) = Fail /\ ra_loc[2] \in fails /\ ra_loc[2] \in Addr
      BY <2>5, <2>6, <2>8
    <3>2. Rest(rd) = StepError("EINVAL", ra_loc[2])
      BY <3>1, Zenon
    <3> HIDE DEF Rest, NewIp
    <3> QED BY <2>2, <3>1, <3>2, Zenon
  <2>9. CASE NewIp(rd) = NewIp(clean)
    <3>1. CASE \/ NewIp(rd) = Fail
               \/ NewIp(rd) = ip /\ cfa = r.sp
               \/ bp_loc[1] = "null" \/ NewIp(rd) = 0
               \/ sp_loc[1] = "null"
      BY <2>2, <2>9, <3>1, Zenon
    <3>2. CASE /\ NewIp(rd) # Fail
               /\ ~(NewIp(rd) = ip /\ cfa = r.sp)
               /\ bp_loc[1] # "null" /\ NewIp(rd) # 0
               /\ sp_loc[1] # "null"
      <4> DEFINE i == NewIp(clean)
      <4>1. Rest(rd) = GetRegs(rd, i, sp_loc, bp_loc)
            /\ Rest(clean) = GetRegs(clean, i, sp_loc, bp_loc)
        BY <2>9, <3>2, Zenon
      <4>2. i \in Addr
        BY <2>5, <2>6, <2>7, <2>9, <3>2
      <4>3. sp_loc \in {"val", "mem"} \X Addr /\ bp_loc \in {"val", "mem"} \X Addr
        BY <2>5, <3>2
      <4> HIDE DEF i, Rest, NewIp
      <4>4. CASE dwarf_get(rd, sp_loc) # dwarf_get(clean, sp_loc)
        <5>1. dwarf_get(rd, sp_loc) = Fail /\ sp_loc[2] \in fails /\ sp_loc[2] \in Addr
          BY <2>6, <4>3, <4>4, Zenon
        <5>2. GetRegs(rd, i, sp_loc, bp_loc) = StepError("EINVAL", sp_loc[2])
          BY <5>1, Zenon DEF GetRegs
        <5> QED BY <2>2, <4>1, <5>1, <5>2, Zenon
      <4>5. CASE /\ dwarf_get(rd, sp_loc) = dwarf_get(clean, sp_loc)
                 /\ \/ dwarf_get(rd, sp_loc) = Fail
                    \/ dwarf_get(rd, bp_loc) = dwarf_get(clean, bp_loc)
        BY <2>2, <4>1, <4>5, Zenon DEF GetRegs
      <4>6. CASE /\ dwarf_get(rd, sp_loc) = dwarf_get(clean, sp_loc)
                 /\ dwarf_get(rd, sp_loc) # Fail
                 /\ dwarf_get(rd, bp_loc) # dwarf_get(clean, bp_loc)
        <5>1. /\ dwarf_get(rd, bp_loc) = Fail
              /\ dwarf_get(clean, bp_loc) \in Addr
              /\ dwarf_get(clean, sp_loc) \in Addr
          BY <2>6, <4>3, <4>6, Zenon
        <5>2. dwarf_get(clean, bp_loc) # Fail
          BY <4>6, <5>1, Zenon
        <5>3. /\ GetRegs(clean, i, sp_loc, bp_loc)
                   = Stepped(i, dwarf_get(clean, sp_loc), dwarf_get(clean, bp_loc))
              /\ GetRegs(rd, i, sp_loc, bp_loc) = Stepped(i, dwarf_get(clean, sp_loc), 0)
          BY <4>6, <5>1, <5>2, Zenon DEF GetRegs
        <5> DEFINE sp == dwarf_get(clean, sp_loc)
                   bp == dwarf_get(clean, bp_loc)
        <5>4. sp \in Addr /\ bp \in Addr
          BY <5>1, Zenon
        <5>5. /\ dwarf_step(clean, row, ip, r) = Stepped(i, sp, bp)
              /\ dwarf_step(rd, row, ip, r) = Stepped(i, sp, 0)
          BY <2>2, <4>1, <5>3, Zenon
        <5> HIDE DEF sp, bp
        <5> QED BY <4>2, <5>4, <5>5, Zenon
      <4> QED BY <4>4, <4>5, <4>6, Zenon
    <3> QED BY <3>1, <3>2, Zenon
  <2> QED BY <2>8, <2>9, Zenon
<1> QED BY <1>3, <1>4, <1>5, Zenon

\* A step that loses RBP is reported as the same caller without it.
LEMMA LostBpResult ==
    ASSUME NEW f \in Frame, NEW r \in Reg, NEW i \in Addr, NEW s \in Addr, NEW b \in Addr
    PROVE  LET out == StepResult(f, r, Stepped(i, s, 0))
               clean == StepResult(f, r, Stepped(i, s, b))
           IN  \/ out = clean
               \/ /\ out.tag = "some" /\ clean.tag = "some"
                  /\ out.regs = [clean.regs EXCEPT !.bp = 0]
<1> DEFINE new_ip == AdjustedIp(f, i)
           Result(bp) == IF i = 0 THEN NoCaller
                         ELSE IF new_ip > MaxU THEN Failed("IntegerOverflow", None)
                         ELSE IF new_ip = f.addr /\ s = r.sp THEN Failed("DidNotAdvance", None)
                         ELSE Caller(CallerRegs(r, new_ip, s, bp))
<1>1. /\ StepResult(f, r, Stepped(i, s, 0)) = Result(0)
      /\ StepResult(f, r, Stepped(i, s, b)) = Result(b)
  BY Zenon DEF StepResult, Stepped
<1> HIDE DEF new_ip
<1>2. /\ Caller(CallerRegs(r, new_ip, s, 0)).tag = "some"
      /\ Caller(CallerRegs(r, new_ip, s, b)).tag = "some"
      /\ Caller(CallerRegs(r, new_ip, s, 0)).regs
           = [Caller(CallerRegs(r, new_ip, s, b)).regs EXCEPT !.bp = 0]
  BY Zenon DEF Caller, CallerRegs, Reg
<1> QED BY <1>1, <1>2

\* Read failures are contained in every frame that is not in a gap between FDEs,
\* for every memory, registry and set of failing addresses.
THEOREM FailuresAreContained == Spec => []FailuresContained
<1>1. TypeOK => FailuresContained
  <2> DEFINE a == address_for_lookup(state.frame)
             Out(s) == unwind_frame(state.frame, regs, mem, s)
  <2> SUFFICES ASSUME TypeOK, NEW fails \in FailSets,
                      has_unwind_info(a) => Rows[a] # None
      PROVE  \/ Out(fails) = Out({})
             \/ /\ Out(fails).tag = "err" /\ Out(fails).kind = "CouldNotReadStack"
                /\ Out(fails).addr \in fails
             \/ /\ has_unwind_info(a)
                /\ Out(fails).tag = "some" /\ Out({}).tag = "some"
                /\ Out(fails).regs = [Out({}).regs EXCEPT !.bp = 0]
    BY Zenon DEF FailuresContained, CleanOutcome, LookupIp
  <2>1. regs \in Reg /\ IsMemory(mem) /\ state.frame \in Frame /\ a \in Addr
    BY LookupType, Zenon DEF TypeOK
  <2>2. CASE Kind[a] = "invalid"
    BY <2>2, Zenon DEF unwind_frame
  <2>3. CASE Kind[a] # "invalid" /\ ~has_unwind_info(a)
    <3>1. \A s : Out(s) = fallback_unwind_frame(state.frame.addr, regs, read_stack(mem, s))
      BY <2>3, Zenon DEF unwind_frame
    <3> HIDE DEF Out
    <3> QED BY <2>1, <3>1, FallbackReports
  <2>4. CASE Kind[a] # "invalid" /\ has_unwind_info(a)
    <3> DEFINE Mem(s) == NonNull(access_mem(mem, s))
               Step(s) == dwarf_step(Mem(s), Rows[a], a, regs)
    <3>1. Rows[a] \in Row
      BY <2>1, <2>4, RegistryAssumption, Zenon
    <3>2. \A s : Out(s) = StepResult(state.frame, regs, Step(s))
      BY <2>4, Zenon DEF unwind_frame, init_and_step
    <3>3. \A s : Mem(s) \in Reader
      <4>1. \A s : access_mem(mem, s) \in Reader
        BY <2>1, ReaderType, Zenon
      <4> QED BY <4>1, Zenon DEF NonNull, Reader
    <3>4. \A c \in Addr : Mem(fails)[c] = Mem({})[c] \/ (c \in fails /\ Mem(fails)[c] = Fail)
      BY Zenon DEF NonNull, access_mem, read_stack
    <3> HIDE DEF Out, Mem, a
    <3>5. Mem(fails) \in Reader /\ Mem({}) \in Reader
      BY <3>3, Zenon
    <3>6. \/ Step(fails) = Step({})
          \/ \E c \in Addr : c \in fails /\ Step(fails) = StepError("EINVAL", c)
          \/ \E i \in Addr, s \in Addr, b \in Addr :
               Step({}) = Stepped(i, s, b) /\ Step(fails) = Stepped(i, s, 0)
      BY <2>1, <3>1, <3>5, <3>4, DwarfStepReports
    <3> HIDE DEF Step
    <3>7. CASE Step(fails) = Step({})
      BY <3>2, <3>7, Zenon
    <3>8. CASE \E c \in Addr : c \in fails /\ Step(fails) = StepError("EINVAL", c)
      <4>1. PICK c \in Addr : c \in fails /\ Step(fails) = StepError("EINVAL", c)
        BY <3>8, Zenon
      <4>2. c # None
        BY MarksAssumption, Zenon
      <4>3. Out(fails) = Failed("CouldNotReadStack", c)
        BY <3>2, <4>1, <4>2 DEF StepResult, StepError
      <4> QED BY <4>1, <4>3 DEF Failed
    <3>9. CASE \E i \in Addr, s \in Addr, b \in Addr :
                 Step({}) = Stepped(i, s, b) /\ Step(fails) = Stepped(i, s, 0)
      BY <2>1, <2>4, <3>2, <3>9, LostBpResult
    <3> QED BY <3>6, <3>7, <3>8, <3>9, Zenon
  <2> QED BY <2>2, <2>3, <2>4, Zenon
<1> QED BY <1>1, TypeCorrect, PTL

-----------------------------------------------------------------------------
(* The recovered caller *)

\* A step by a row succeeds only with the row's CFA register, and goes to the
\* return address that the row locates.
LEMMA DwarfStepIp ==
    ASSUME NEW rd \in Reader, NEW row \in Row, NEW ip \in Addr, NEW r \in Reg,
           dwarf_step(rd, row, ip, r).ret = "stepped"
    PROVE  LET cfa == Wrap(r[row.cfa] + row.off)
               loc == Location(row.ra, ip, cfa, ip)
           IN  /\ r[row.cfa] # None
               /\ loc[1] # "null"
               /\ dwarf_step(rd, row, ip, r).ip = dwarf_get(rd, loc)
<1> DEFINE cfa == Wrap(r[row.cfa] + row.off)
           ra_loc == Location(row.ra, ip, cfa, ip)
           sp_loc == Location(row.sp, r.sp, cfa, ip)
           bp_loc == Location(row.bp, r.bp, cfa, ip)
           new_ip == IF ra_loc[1] = "null" THEN 0 ELSE dwarf_get(rd, ra_loc)
           step == dwarf_step(rd, row, ip, r)
<1>1. step = IF row.cfi # None /\ rd[row.cfi] = Fail THEN StepError("EINVAL", row.cfi)
             ELSE IF r[row.cfa] = None THEN StepError("EBADREG", None)
             ELSE IF new_ip = Fail THEN StepError("EINVAL", ra_loc[2])
             ELSE IF new_ip = ip /\ cfa = r.sp THEN StepError("EBADFRAME", None)
             ELSE IF bp_loc[1] = "null" \/ new_ip = 0 THEN EndOfStack
             ELSE IF sp_loc[1] = "null" THEN StepError("EBADREG", None)
             ELSE GetRegs(rd, new_ip, sp_loc, bp_loc)
  BY Zenon DEF dwarf_step
<1>2. step.ret = "stepped"
  BY Zenon
<1> HIDE DEF step, cfa, ra_loc, sp_loc, bp_loc
<1>3. \A c, a : StepError(c, a).ret = "error"
  BY Zenon DEF StepError
<1>4. EndOfStack.ret = "end"
  BY Zenon DEF EndOfStack
<1>5. /\ r[row.cfa] # None
      /\ new_ip # 0
      /\ step = GetRegs(rd, new_ip, sp_loc, bp_loc)
  BY <1>1, <1>2, <1>3, <1>4, Zenon
<1>6. step.ip = new_ip
  BY <1>2, <1>3, <1>5, Zenon DEF GetRegs, Stepped
<1> QED BY <1>5, <1>6, Zenon DEF step, cfa, ra_loc

\* unwind_frame reports a caller only for a step that succeeded, at the adjusted
\* address.
LEMMA StepResultIp ==
    ASSUME NEW f \in Frame, NEW r \in Reg, NEW step \in StepOutcome,
           StepResult(f, r, step).tag = "some"
    PROVE  /\ step.ret = "stepped"
           /\ step.ip \in Addr
           /\ StepResult(f, r, step).regs.ip = AdjustedIp(f, step.ip)
           /\ ~(AdjustedIp(f, step.ip) > MaxU)
<1>1. \A k, a : Failed(k, a).tag = "err"
  BY Zenon DEF Failed
<1>2. NoCaller.tag = "none"
  BY Zenon DEF NoCaller
<1>3. CASE step \in [ret : {"stepped"}, ip : Addr, sp : Addr, bp : Addr]
  <2> DEFINE new_ip == AdjustedIp(f, step.ip)
             out == StepResult(f, r, step)
  <2>1. step.ret = "stepped" /\ step.ip \in Addr
    BY <1>3, Zenon
  <2>2. out = IF step.ip = 0 THEN NoCaller
              ELSE IF new_ip > MaxU THEN Failed("IntegerOverflow", None)
              ELSE IF new_ip = f.addr /\ step.sp = r.sp THEN Failed("DidNotAdvance", None)
              ELSE Caller(CallerRegs(r, new_ip, step.sp, step.bp))
    BY <2>1, Zenon DEF StepResult
  <2>3. out.tag = "some"
    BY Zenon
  <2> HIDE DEF new_ip, out
  <2>4. /\ out = Caller(CallerRegs(r, new_ip, step.sp, step.bp))
        /\ ~(new_ip > MaxU)
    BY <1>1, <1>2, <2>2, <2>3, Zenon
  <2>5. Caller(CallerRegs(r, new_ip, step.sp, step.bp)).regs.ip = new_ip
    BY Zenon DEF Caller, CallerRegs, Reg
  <2> QED BY <2>1, <2>4, <2>5, Zenon DEF out, new_ip
<1>4. CASE step = EndOfStack
  BY <1>2, <1>4, Zenon DEF EndOfStack, StepResult
<1>5. CASE step \in {StepError(c, a) : c \in {"EINVAL", "EBADREG", "EBADFRAME"},
                                      a \in Addr \cup {None}}
  <2>1. step.ret = "error"
    BY <1>5 DEF StepError
  <2>2. \E k, a : StepResult(f, r, step) = Failed(k, a)
    BY <2>1, Zenon DEF StepResult
  <2> QED BY <1>1, <2>2, Zenon
<1> QED BY <1>3, <1>4, <1>5 DEF StepOutcome

\* What a call of unwind_frame that finds a caller by a row has done.
LEMMA RecoveredStep ==
    ASSUME NEW f \in Frame, NEW r \in Reg, NEW m, IsMemory(m), NEW fails,
           has_unwind_info(address_for_lookup(f)),
           Rows[address_for_lookup(f)] # None,
           unwind_frame(f, r, m, fails).tag = "some"
    PROVE  LET a == address_for_lookup(f)
               row == Rows[a]
               cfa == Wrap(r[row.cfa] + row.off)
               loc == Location(row.ra, a, cfa, a)
               new_ip == dwarf_get(access_mem(m, fails), loc)
           IN  /\ r[row.cfa] # None
               /\ loc[1] # "null"
               /\ new_ip \in Addr
               /\ unwind_frame(f, r, m, fails).regs.ip = AdjustedIp(f, new_ip)
               /\ ~(AdjustedIp(f, new_ip) > MaxU)
<1> DEFINE a == address_for_lookup(f)
           row == Rows[a]
           rd == access_mem(m, fails)
           step == dwarf_step(NonNull(rd), row, a, r)
           loc == Location(row.ra, a, Wrap(r[row.cfa] + row.off), a)
<1>1. a \in Addr /\ row \in Row
  BY LookupType, RegistryAssumption, Zenon
<1>2. rd \in Reader /\ NonNull(rd) \in Reader
  BY ReaderType DEF NonNull, Reader
<1>3. unwind_frame(f, r, m, fails) = StepResult(f, r, step)
  BY Zenon DEF unwind_frame, has_unwind_info, init_and_step
<1>4. StepResult(f, r, step).tag = "some"
  BY <1>3, Zenon
<1> HIDE DEF a, row, rd
<1>5. step \in StepOutcome
  BY <1>1, <1>2, DwarfStepType, Zenon
<1>6. /\ step.ret = "stepped" /\ step.ip \in Addr
      /\ StepResult(f, r, step).regs.ip = AdjustedIp(f, step.ip)
      /\ ~(AdjustedIp(f, step.ip) > MaxU)
  BY <1>4, <1>5, StepResultIp, Zenon
<1>7. /\ r[row.cfa] # None
      /\ loc[1] # "null"
      /\ step.ip = dwarf_get(NonNull(rd), loc)
  BY <1>1, <1>2, <1>6, DwarfStepIp, Zenon
<1>8. dwarf_get(NonNull(rd), loc) = dwarf_get(rd, loc)
  <2>1. row.ra \in Rule /\ row.off \in Int /\ row.cfa \in {"sp", "bp", "r10"}
    BY <1>1, Zenon DEF Row
  <2>2. r[row.cfa] + row.off \in Int
    BY <1>7, <2>1, WordAssumption DEF Reg, Addr
  <2> DEFINE cfa == Wrap(r[row.cfa] + row.off)
  <2>3. cfa \in Addr
    BY <2>2, WrapType, Zenon
  <2>4. cfa + row.ra.val \in Int
    BY <2>1, <2>3, WordAssumption DEF Addr, Rule
  <2> HIDE DEF cfa
  <2>5. Wrap(cfa + row.ra.val) \in Addr
    BY <2>4, WrapType, Zenon
  <2>6. loc[1] = "mem" => loc[2] \in Addr /\ loc[2] # 0
    BY <2>1, <2>5, Zenon DEF Location, MemLocation, Rule, Where, cfa
  <2> HIDE DEF loc
  <2> QED BY <2>6, Zenon DEF dwarf_get, NonNull
<1> QED BY <1>3, <1>6, <1>7, <1>8, Zenon DEF a, row, rd

\* One byte further, or one byte back, of a wrapping sum.
LEMMA WrapNext ==
    ASSUME NEW n \in Int
    PROVE  /\ Wrap(n) < MaxU => Wrap(n + 1) = Wrap(n) + 1
           /\ Wrap(Wrap(n + 1) - 1) = Wrap(n)
<1>1. MaxU \in Nat /\ MaxU + 1 \in Nat /\ MaxU + 1 > 0 /\ n + 1 \in Int
  BY WordAssumption
<1>2. (n + 1) % (MaxU + 1) = IF n % (MaxU + 1) = (MaxU + 1) - 1 THEN 0 ELSE (n % (MaxU + 1)) + 1
  BY <1>1, ModSucc, Zenon
<1>3. (((n + 1) % (MaxU + 1)) + (-1)) % (MaxU + 1) = (n + 1 + (-1)) % (MaxU + 1)
  BY <1>1, ModAdd
<1>4. n + 1 + (-1) = n /\ Wrap(n) \in Addr /\ Wrap(n + 1) \in Addr
  BY <1>1, WrapType
<1>5. Wrap(n) < MaxU => Wrap(n + 1) = Wrap(n) + 1
  BY <1>1, <1>2 DEF Wrap
<1>6. Wrap(n + 1) + (-1) = Wrap(n + 1) - 1
  BY <1>4, WordAssumption, Zenon DEF Addr
<1> QED BY <1>3, <1>4, <1>5, <1>6, Zenon DEF Wrap

\* An address is its own remainder.
LEMMA WrapSmall ==
    ASSUME NEW a \in Addr
    PROVE  Wrap(a) = a
BY WordAssumption, ModNear DEF Wrap, Addr

\* What RIP is to the row of a return-address frame: the byte before it.
LEMMA ReturnFrame ==
    ASSUME NEW f \in Frame
    PROVE  f.addr = IF is_return_address(f) THEN address_for_lookup(f) + 1
                    ELSE address_for_lookup(f)
<1>1. f.addr \in Int /\ f.kind \in {"ip", "ra"}
  BY WordAssumption DEF Frame, InstructionPointer, ReturnAddress, Addr
<1> QED BY <1>1 DEF is_return_address, address_for_lookup

\* The recovered caller is the one the row describes, in every registry, memory
\* and register state, up to the two cases in which a byte is added or missing.
THEOREM RecoveredCallerExact == Spec => []CallerExact
<1>1. TypeOK => CallerExact
  <2> SUFFICES ASSUME TypeOK, RecoveredFromRow, is_return_address(state.frame) =>
                                                  ~LoadedInModule /\ ~ComputedOutside
               PROVE  CleanOutcome.regs.ip = RowReturnAddress
    BY Zenon DEF CallerExact
  <2> DEFINE f == state.frame
             a == address_for_lookup(f)
             row == Rows[a]
             cfa == Wrap(regs[row.cfa] + row.off)
             rd == access_mem(mem, {})
             loc == Location(row.ra, a, cfa, a)
             new_ip == dwarf_get(rd, loc)
  <2>1. f \in Frame /\ regs \in Reg /\ IsMemory(mem) /\ a \in Addr /\ row \in Row
    BY LookupType, RegistryAssumption, Zenon DEF TypeOK, RecoveredFromRow, LookupIp
  <2>2. has_unwind_info(a) /\ row # None /\ unwind_frame(f, regs, mem, {}).tag = "some"
    BY Zenon DEF RecoveredFromRow, LookupIp, CleanOutcome
  <2>3. /\ regs[row.cfa] # None
        /\ loc[1] # "null" /\ new_ip \in Addr
        /\ CleanOutcome.regs.ip = AdjustedIp(f, new_ip)
        /\ ~(AdjustedIp(f, new_ip) > MaxU)
    <3> DEFINE out == unwind_frame(f, regs, mem, {})
    <3>1. CleanOutcome = out
      BY Zenon DEF CleanOutcome
    <3> HIDE DEF f
    <3>2. /\ regs[row.cfa] # None
          /\ loc[1] # "null" /\ new_ip \in Addr
          /\ out.regs.ip = AdjustedIp(f, new_ip)
          /\ ~(AdjustedIp(f, new_ip) > MaxU)
      BY <2>1, <2>2, RecoveredStep, Zenon
    <3> QED BY <3>1, <3>2, Zenon
  <2>4. RowReturnAddress = dwarf_get(rd, Location(row.ra, f.addr, cfa, f.addr))
    BY Zenon DEF RowReturnAddress, LookupIp
  <2>5. f.addr = IF is_return_address(f) THEN a + 1 ELSE a
    BY <2>1, ReturnFrame, Zenon
  <2>6. row.ra \in Rule /\ row.ra.val \in Int /\ a \in Int
    BY <2>1, WordAssumption DEF Row, Rule, Addr
  <2>7. /\ FromRip <=> row.ra.where \in {"same", "iprel"}
        /\ LoadedInModule <=> ~FromRip /\ ~is_signal_frame(a) /\ contains_address(RowReturnAddress)
        /\ ComputedOutside <=>
             FromRip /\ (is_signal_frame(a) \/ ~contains_address(Wrap(RowReturnAddress - 1)))
    BY Zenon DEF FromRip, LoadedInModule, ComputedOutside, LookupIp
  <2>8. AdjustedIp(f, new_ip) = IF is_return_address(f) /\ ~is_signal_frame(a)
                                     /\ contains_address(new_ip)
                                THEN new_ip + 1 ELSE new_ip
    BY Zenon DEF AdjustedIp
  <2> HIDE DEF f, a, row, cfa, rd
  <2>9. CASE ~is_return_address(f)
    BY <2>3, <2>4, <2>5, <2>8, <2>9, Zenon
  <2>10. CASE is_return_address(f) /\ ~FromRip
    <3>1. Location(row.ra, f.addr, cfa, f.addr) = loc
      BY <2>6, <2>7, <2>10, Zenon DEF Location, Rule, Where
    <3>2. RowReturnAddress = new_ip
      BY <2>4, <3>1, Zenon
    <3> QED BY <2>3, <2>7, <2>8, <2>10, <3>2, Zenon DEF f
  <2>11. CASE is_return_address(f) /\ FromRip
    <3>1. PICK n \in Int : new_ip = Wrap(n) /\ RowReturnAddress = Wrap(n + 1)
      <4>1. CASE row.ra.where = "same"
        <5>1. loc = <<"val", a>> /\ Location(row.ra, f.addr, cfa, f.addr) = <<"val", a + 1>>
          BY <2>5, <2>11, <4>1, Zenon DEF Location
        <5>2. new_ip = a /\ RowReturnAddress = a + 1
          BY <2>4, <5>1 DEF dwarf_get
        <5>3. a + 1 \in Addr
          BY <2>1, <2>5, <2>11, LookupType, Zenon
        <5> QED BY <2>1, <2>6, <5>2, <5>3, WrapSmall, Zenon
      <4>2. CASE row.ra.where = "iprel"
        <5>1. /\ loc = <<"val", Wrap(a + row.ra.val)>>
              /\ Location(row.ra, f.addr, cfa, f.addr) = <<"val", Wrap(a + 1 + row.ra.val)>>
          BY <2>5, <2>11, <4>2, Zenon DEF Location
        <5>2. a + 1 + row.ra.val = (a + row.ra.val) + 1 /\ a + row.ra.val \in Int
          BY <2>6
        <5> QED BY <2>4, <5>1, <5>2 DEF dwarf_get
      <4> QED BY <2>7, <2>11, <4>1, <4>2, Zenon
    <3>2. Wrap(RowReturnAddress - 1) = new_ip
      BY <3>1, WrapNext, Zenon
    <3>3. AdjustedIp(f, new_ip) = new_ip + 1
      BY <2>7, <2>8, <2>11, <3>2, Zenon DEF f
    <3>4. new_ip < MaxU
      BY <2>3, <3>3, WordAssumption DEF Addr
    <3> QED BY <2>3, <3>1, <3>3, <3>4, WrapNext, Zenon
  <2> QED BY <2>9, <2>10, <2>11, Zenon
<1> QED BY <1>1, TypeCorrect, PTL

-----------------------------------------------------------------------------
(* Registers that were not recovered *)

\* A caller never has the callee's R10.
LEMMA OthersCleared ==
    ASSUME NEW f, NEW r \in Reg, NEW m, NEW fails,
           unwind_frame(f, r, m, fails).tag = "some"
    PROVE  unwind_frame(f, r, m, fails).regs.r10 = None
<1> DEFINE out == unwind_frame(f, r, m, fails)
           a == address_for_lookup(f)
<1>1. \A k, c : Failed(k, c).tag = "err"
  BY Zenon DEF Failed
<1>2. NoCaller.tag = "none"
  BY Zenon DEF NoCaller
<1>3. \A i, s, b : Caller(CallerRegs(r, i, s, b)).regs.r10 = None
  BY Zenon DEF Caller, CallerRegs, Reg
<1>4. ASSUME NEW cur, NEW rd, NEW o, o = fallback_unwind_frame(cur, r, rd), o.tag = "some"
      PROVE  o.regs.r10 = None
  <2>1. \/ o = NoCaller
        \/ \E k, c : o = Failed(k, c)
        \/ \E i, s, b : o = Caller(CallerRegs(r, i, s, b))
    BY <1>4, Zenon DEF fallback_unwind_frame
  <2> QED BY <1>1, <1>2, <1>3, <1>4, <2>1, Zenon
<1>5. ASSUME NEW step, NEW o, o = StepResult(f, r, step), o.tag = "some"
      PROVE  o.regs.r10 = None
  <2>1. \/ o = NoCaller
        \/ \E k, c : o = Failed(k, c)
        \/ \E i, s, b : o = Caller(CallerRegs(r, i, s, b))
    BY <1>5, Zenon DEF StepResult
  <2> QED BY <1>1, <1>2, <1>3, <1>5, <2>1, Zenon
<1>6. \/ out = Failed("UnwindInfo", None)
      \/ out = fallback_unwind_frame(f.addr, r, read_stack(m, fails))
      \/ out = StepResult(f, r, init_and_step(access_mem(m, fails), Rows[a], a, r))
  BY Zenon DEF unwind_frame
<1>7. out.tag = "some"
  BY Zenon
<1> HIDE DEF out, a
<1>8. out.regs.r10 = None
  BY <1>1, <1>4, <1>5, <1>6, <1>7, Zenon
<1> QED BY <1>8, Zenon DEF out

\* The walk's registers are those of the snapshot, or R10 is cleared.
SnapshotOrCleared == regs \in StartRegs \/ regs.r10 = None

\* Every frame after the first has R10 cleared.
LEMMA ClearedStep == TypeOK /\ SnapshotOrCleared /\ [Next]_vars => SnapshotOrCleared'
<1> SUFFICES ASSUME TypeOK, SnapshotOrCleared, [Next]_vars PROVE SnapshotOrCleared'
  BY Zenon
<1>1. CASE UNCHANGED regs
  BY <1>1, Zenon DEF SnapshotOrCleared
<1>2. ASSUME NEW fails \in FailSets, NextUnwinding(fails) PROVE SnapshotOrCleared'
  <2> DEFINE out == unwind_frame(state.frame, regs, mem, fails)
  <2>1. (out.tag = "some" /\ regs' = out.regs) \/ UNCHANGED regs
    BY <1>2, Zenon DEF NextUnwinding
  <2>2. out.tag = "some" => out.regs.r10 = None
    BY OthersCleared DEF TypeOK
  <2> HIDE DEF out
  <2> QED BY <1>1, <2>1, <2>2, Zenon DEF SnapshotOrCleared
<1> QED BY <1>1, <1>2, Zenon DEF Next, vars, NextInitial, NextDone

\* A row that needs a register the walk has not recovered never yields a frame:
\* in every walk such a row succeeds on the snapshot's registers only.
THEOREM StaleRegistersUnused == Spec => NoStaleRegister
<1>1. Init => SnapshotOrCleared
  BY Zenon DEF Init, SnapshotOrCleared
<1>2. Spec => []SnapshotOrCleared
  BY <1>1, ClearedStep, TypeCorrect, PTL DEF Spec
<1>3. TypeOK /\ SnapshotOrCleared /\ [Next]_vars =>
        [/\ state.tag = "unwinding"
         /\ has_unwind_info(LookupIp)
         /\ Rows[LookupIp] # None
         /\ Rows[LookupIp].cfa = "r10"
         /\ ret'.tag = "frame"
         => regs \in StartRegs]_vars
  <2> SUFFICES ASSUME TypeOK, SnapshotOrCleared, Next, state.tag = "unwinding",
                      has_unwind_info(LookupIp), Rows[LookupIp] # None,
                      Rows[LookupIp].cfa = "r10", ret'.tag = "frame"
               PROVE  regs \in StartRegs
    BY Zenon DEF vars
  <2>1. PICK fails \in FailSets : NextUnwinding(fails)
    BY Zenon DEF Next, NextInitial, NextDone
  <2> DEFINE f == state.frame
  <2>2. unwind_frame(f, regs, mem, fails).tag = "some"
    BY <2>1 DEF NextUnwinding, EndOfWalk
  <2>3. f \in Frame /\ regs \in Reg /\ IsMemory(mem)
    BY Zenon DEF TypeOK
  <2>4. /\ has_unwind_info(address_for_lookup(f))
        /\ Rows[address_for_lookup(f)] # None
        /\ Rows[address_for_lookup(f)].cfa = "r10"
    BY Zenon DEF LookupIp
  <2> HIDE DEF f
  <2>5. regs[Rows[address_for_lookup(f)].cfa] # None
    BY <2>2, <2>3, <2>4, RecoveredStep, Zenon
  <2> QED BY <2>4, <2>5, Zenon DEF SnapshotOrCleared
<1> QED BY <1>2, <1>3, TypeCorrect, PTL DEF Spec, NoStaleRegister
=============================================================================
