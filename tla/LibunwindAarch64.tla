-------------------------- MODULE LibunwindAarch64 --------------------------
(***************************************************************************)
(* One unw_step of the vendored libunwind on a freshly initialised aarch64 *)
(* cursor, as init_and_step (src/address_space.rs) uses it.                *)
(*                                                                         *)
(* `rd' is access_mem as a function, Fail where the read fails; `rows' the *)
(* rows of the FDE that find_proc_info answers with, by address.  A step   *)
(* is always asked for the address of the lookup, but libunwind evaluates  *)
(* the rows where its cursor is.                                           *)
(***************************************************************************)
EXTENDS Integers

CONSTANTS
    MaxU,     \* u64::MAX
    SigCode,  \* addresses whose code word is the sigreturn stub
    PltCode,  \* for an address in a PLT entry, the words that entry spans
    ScFp, ScSp, ScPc,  \* offsets from the SP of a signal frame to its sigcontext
    ScRecords,         \* and to the records that follow it
    Fail,     \* a read that fails
    None

Addr == 0 .. MaxU

ASSUME WidthAssumption == MaxU \in Nat

ASSUME MarksAssumption == Fail \notin Addr /\ None \notin Addr

ASSUME CodeAssumption ==
    /\ SigCode \subseteq Addr
    /\ DOMAIN PltCode \subseteq Addr
    /\ \A a \in DOMAIN PltCode : PltCode[a] \subseteq Addr
    /\ {ScFp, ScSp, ScPc, ScRecords} \subseteq 0 .. MaxU

\* The PC is a field of the sigcontext of its own.
ASSUME FieldAssumption == ScPc \notin {ScFp, ScSp, ScRecords}

Wrap(n) == n % (MaxU + 1)

\* A register rule of a row: lost, unchanged, in memory, or in a register that
\* a snapshot does not have.
Rule == [where : {"undef", "same", "cfarel", "reg"}, val : Int]

\* The return address column is X30.  `cfi' is the address of a CFI word that
\* straddles the end of the local mirror, None if there is none.
Row == [cfa : {"sp", "fp", "reg"}, off : Int, lr : Rule, fp : Rule,
        cfi : Addr \cup {None}]

-----------------------------------------------------------------------------
(* Locations.  access_reg knows PC, SP, FP and LR only, and the location of *)
(* address 0 is DWARF_NULL_LOC.                                             *)

MemLocation(a) == IF a = 0 THEN <<"null", 0>> ELSE <<"mem", a>>

Location(rule, reg, cfa) ==
    CASE rule.where = "undef" -> <<"null", 0>>
      [] rule.where = "same" -> <<"val", reg>>
      [] rule.where = "cfarel" -> MemLocation(Wrap(cfa + rule.val))
      [] rule.where = "reg" -> <<"badreg", 0>>

\* Mutant of dwarf_get: a failed read yields zero.
dwarf_get_Zero(rd, loc) ==
    CASE loc[1] = "mem" -> IF rd[loc[2]] = Fail THEN 0 ELSE rd[loc[2]]
      [] loc[1] = "val" -> loc[2]
      [] OTHER -> Fail

dwarf_get(rd, loc) ==
    CASE loc[1] = "mem" -> rd[loc[2]]
      [] loc[1] = "val" -> loc[2]
      [] OTHER -> Fail

\* The results of init_and_step.  unw_get_reg(SP) is the CFA, and because
\* UNW_REG_IP is X30, unw_get_reg(X30) is the new IP, whatever X30 was.  An FP
\* that cannot be read is zero.
Stepped(ip, cfa, fp) ==
    [ret |-> "stepped", ip |-> ip, sp |-> cfa, fp |-> IF fp = Fail THEN 0 ELSE fp, lr |-> ip]
EndOfStack == [ret |-> "end"]
StepError(failed) == [ret |-> "error", failed |-> failed]

\* The accessor table has no get_proc_name, and get_frame_state calls it.
Crash == [ret |-> "crash"]

-----------------------------------------------------------------------------
(* The steps *)

\* aarch64_handle_signal_frame: the registers are those of the sigcontext.  A
\* PC or SP that cannot be read stays what it was.  The records after it are a
\* word, zero if they are well formed.
SignalStep(rd, ip, regs) ==
    LET loc(o) == MemLocation(Wrap(regs.sp + o))
        got(o) == dwarf_get(rd, loc(o))
        lost(o) == loc(o)[1] = "mem" /\ got(o) = Fail
        records == Wrap(regs.sp + ScRecords)
        failed == IF rd[records] = Fail THEN records
                  ELSE IF lost(ScPc) THEN loc(ScPc)[2]
                  ELSE IF lost(ScSp) THEN loc(ScSp)[2]
                  ELSE None
    IN  IF got(0) = Fail THEN StepError(IF lost(0) THEN regs.sp ELSE None)
        ELSE IF rd[records] # 0 THEN StepError(failed)
        ELSE Stepped(IF got(ScPc) = Fail THEN ip ELSE got(ScPc),
                     IF got(ScSp) = Fail THEN regs.sp ELSE got(ScSp),
                     got(ScFp))

\* dwarf_step: whether it succeeded, and what it left in the cursor.
dwarf_step(rd, row, ip, regs) ==
    LET cfa == Wrap(regs[row.cfa] + row.off)
        lr == Location(row.lr, regs.lr, cfa)
        new_ip == IF lr[1] = "null" THEN 0 ELSE dwarf_get(rd, lr)
        Cursor(ok, new) == [ok |-> ok, ip |-> new, cfa |-> cfa, lr |-> lr,
                            fp |-> Location(row.fp, regs.fp, cfa)]
    IN  IF \/ row = None
           \/ row.cfi # None /\ rd[row.cfi] = Fail
           \/ row.cfa = "reg"
        THEN [ok |-> "no", ip |-> ip, cfa |-> regs.sp, lr |-> <<"val", regs.lr>>,
              fp |-> <<"val", regs.fp>>]
        ELSE IF new_ip = Fail THEN Cursor("no", ip)
        ELSE IF new_ip = ip /\ cfa = regs.sp THEN Cursor("no", ip)
        ELSE Cursor("yes", new_ip)

is_plt_entry(rd, ip) ==
    ip \in DOMAIN PltCode /\ \A a \in PltCode[ip] : rd[a] # Fail

\* The fallback to the link register, for a PLT entry.  `failed' is a read that
\* failed before.
PltStep(rd, cursor, failed) ==
    LET new_ip == IF cursor.lr[1] = "null" THEN 0 ELSE dwarf_get(rd, cursor.lr)
    IN  IF new_ip = Fail
        THEN StepError(IF cursor.lr[1] = "mem" THEN cursor.lr[2] ELSE failed)
        ELSE IF new_ip = 0 THEN EndOfStack
        ELSE Stepped(new_ip, cursor.cfa, dwarf_get(rd, cursor.fp))

\* If the code at `ip' cannot be read, libunwind goes on at the link register.
\* A frame pointer of zero ends the stack; one that cannot be read is handled
\* like a failure of dwarf_step, at the new IP.
unw_step(rd, rows, ip, regs) ==
    LET at == IF rd[ip] = Fail THEN regs.lr ELSE ip
        cursor == dwarf_step(rd, IF rows = None THEN None ELSE rows[at], at, regs)
        fp == dwarf_get(rd, cursor.fp)
    IN  IF rd[ip] # Fail /\ ip \in SigCode THEN SignalStep(rd, ip, regs)
        ELSE IF cursor.ok = "yes" /\ (cursor.ip = 0 \/ fp = 0) THEN EndOfStack
        ELSE IF cursor.ok = "yes" /\ fp # Fail THEN Stepped(cursor.ip, cursor.cfa, fp)
        ELSE IF is_plt_entry(rd, cursor.ip)
             THEN PltStep(rd, cursor, IF rd[ip] = Fail THEN ip ELSE None)
        ELSE Crash
=============================================================================
