---------------------------- MODULE FunctionCache ----------------------------
(***************************************************************************)
(* The function cache of one module (src/callbacks.rs, is_signal_frame in  *)
(* src/module_set.rs), used by threads that unwind at the same time.       *)
(*                                                                         *)
(* Unwinders are Sync and clones share the module's Arc, so several        *)
(* threads run find_proc_info on one cache.  Taking the cache's Mutex is a *)
(* step that may have to wait; the critical section, to the release, is    *)
(* the next one.  Parsing happens between two critical sections.           *)
(* FunctionDetails live in allocations `obj`: an allocation is free when   *)
(* its value is None, and a freed one may be handed out again.  `cache`    *)
(* and `details` hold strong references, `unwind_info` a raw pointer.      *)
(***************************************************************************)
EXTENDS Integers, FiniteSets

CONSTANTS
    Thread,
    None,
    MaxAddr,    \* tracee addresses are 0 .. MaxAddr
    Fde,        \* frame description entries of the module
    Lo, Hi,     \* code range of an entry: initial_pc and end_ip (exclusive)
    Signal,     \* entries whose CIE has the 'S' augmentation
    Malformed,  \* entries the CIE or FDE parser rejects
    Candidate,  \* Candidate[ip]: entry the .eh_frame_hdr search finds, or None
    Obj,        \* allocations for FunctionDetails
    Garbage     \* contents of memory that is read after it was freed

Addr == 0 .. MaxAddr

Failures == {"EhFrameHeaderLookupMiss", "ParseError"}

ASSUME NoneAssumption ==
    /\ None \notin Fde
    /\ None \notin Obj
    /\ None \notin Addr
    /\ None \notin Thread
    /\ None \notin Failures
    /\ Garbage \notin Fde
    /\ Fde \cap Failures = {}
    /\ Signal \subseteq Fde

ASSUME TableAssumption ==
    /\ MaxAddr \in Nat
    /\ Lo \in [Fde -> Addr]
    /\ Hi \in [Fde -> Addr]
    /\ Candidate \in [Addr -> Fde \cup {None}]

\* A process has finitely many threads.
ASSUME ThreadAssumption == IsFiniteSet(Thread)

VARIABLES
    obj,          \* obj[o]: the entry allocation o describes, None if free
    cache,        \* function_cache: start_ip -> allocation
    lock,         \* the thread that has locked function_cache, or None
    pc,           \* where each thread is in unwind_frame
    ip,           \* its lookup_ip
    details,      \* the Arc it holds inside find_proc_info
    unwind_info,  \* the raw pointer in its cursor's proc info
    answer,       \* what find_proc_info returned to libunwind
    seen,         \* the entry libunwind read through unwind_info
    signal        \* what is_signal_frame returned after the step

vars == <<obj, cache, lock, pc, ip, details, unwind_info, answer, seen, signal>>

-----------------------------------------------------------------------------
\* The entry covers the address (ip < end_ip, and for a parsed entry also
\* ip >= initial_pc).
Covers(f, a) == Lo[f] <= a /\ a < Hi[f]

\* The header search, the CIE and FDE parsers and the final range check.
parse_function_details(a) ==
    LET f == Candidate[a] IN
    CASE f = None         -> "EhFrameHeaderLookupMiss"
      [] f # None /\ f \in Malformed -> "ParseError"
      [] f # None /\ f \notin Malformed /\ ~Covers(f, a)
                          -> "EhFrameHeaderLookupMiss"
      [] OTHER            -> f

\* Mutant of Cached: a hit is not checked against the entry's end.
Cached_NoEnd(a, o) ==
    \E k \in Addr :
        /\ k <= a
        /\ cache[k] = o
        /\ \A j \in Addr : j <= a /\ cache[j] # None => j <= k

\* The map's greatest key not above a whose entry ends above a.
Cached(a, o) ==
    \E k \in Addr :
        /\ k <= a
        /\ cache[k] = o
        /\ \A j \in Addr : j <= a /\ cache[j] # None => j <= k
        /\ a < Hi[obj[o]]

Hits(a) == {o \in Obj : Cached(a, o)}

\* Allocations with a strong reference.
Owned(o, c, d) == (\E k \in Addr : c[k] = o) \/ (\E t \in Thread : d[t] = o)

\* Mutant of Release: a replaced allocation is never freed.
Release_Leak(objs) == obj' = objs

\* An allocation whose last strong reference went away is freed.
Release(objs) ==
    obj' = [o \in Obj |-> IF Owned(o, cache', details') THEN objs[o] ELSE None]

Init ==
    /\ obj = [o \in Obj |-> None]
    /\ cache = [a \in Addr |-> None]
    /\ lock = None
    /\ pc = [t \in Thread |-> "idle"]
    /\ ip = [t \in Thread |-> None]
    /\ details = [t \in Thread |-> None]
    /\ unwind_info = [t \in Thread |-> None]
    /\ answer = [t \in Thread |-> None]
    /\ seen = [t \in Thread |-> None]
    /\ signal = [t \in Thread |-> "unasked"]

\* unwind_frame starts a libunwind step, which calls find_proc_info.
Begin(t, a) ==
    /\ pc[t] = "idle"
    /\ pc' = [pc EXCEPT ![t] = "lookup"]
    /\ ip' = [ip EXCEPT ![t] = a]
    /\ UNCHANGED <<obj, cache, lock, details, unwind_info, answer, seen, signal>>

\* The critical section that each call of function_cache.lock() leads into.
Section == [lookup |-> "find", insert |-> "store", stepped |-> "ask"]

\* function_cache.lock(), for a lookup, an insert or is_signal_frame.
Lock(t) ==
    /\ pc[t] \in DOMAIN Section
    /\ lock = None
    /\ lock' = t
    /\ pc' = [pc EXCEPT ![t] = Section[@]]
    /\ UNCHANGED <<obj, cache, ip, details, unwind_info, answer, seen, signal>>

\* The guard goes out of scope.
Unlock(t) == lock = t /\ lock' = None

\* First critical section: a hit clones the Arc.
LookupHit(t) ==
    /\ pc[t] = "find"
    /\ Unlock(t)
    /\ \E o \in Hits(ip[t]) :
         details' = [details EXCEPT ![t] = o]
    /\ pc' = [pc EXCEPT ![t] = "answer"]
    /\ UNCHANGED <<obj, cache, ip, unwind_info, answer, seen, signal>>

\* A miss: the guard is dropped before the parse.
LookupMiss(t) ==
    /\ pc[t] = "find"
    /\ Unlock(t)
    /\ Hits(ip[t]) = {}
    /\ pc' = [pc EXCEPT ![t] = "parse"]
    /\ UNCHANGED <<obj, cache, ip, details, unwind_info, answer, seen, signal>>

\* parse_function_details succeeds, without the lock, in a new allocation.
ParseOk(t) ==
    /\ pc[t] = "parse"
    /\ parse_function_details(ip[t]) \in Fde
    /\ \E o \in Obj :
         /\ obj[o] = None
         /\ obj' = [obj EXCEPT ![o] = parse_function_details(ip[t])]
         /\ details' = [details EXCEPT ![t] = o]
    /\ pc' = [pc EXCEPT ![t] = "insert"]
    /\ UNCHANGED <<cache, lock, ip, unwind_info, answer, seen, signal>>

\* Mutants of ParseFail: a failed parse is tried again; it is not reported.
ParseFail_Retry(t) ==
    /\ pc[t] = "parse"
    /\ parse_function_details(ip[t]) \in Failures
    /\ pc' = [pc EXCEPT ![t] = "lookup"]
    /\ UNCHANGED <<obj, cache, lock, ip, details, unwind_info, answer, seen, signal>>

ParseFail_Silent(t) ==
    /\ pc[t] = "parse"
    /\ parse_function_details(ip[t]) \in Failures
    /\ pc' = [pc EXCEPT ![t] = "stepped"]
    /\ UNCHANGED <<obj, cache, lock, ip, details, unwind_info, answer, seen, signal>>

\* find_proc_info records the error and returns -UNW_ENOINFO; libunwind
\* finishes the step without unwind info.
ParseFail(t) ==
    /\ pc[t] = "parse"
    /\ parse_function_details(ip[t]) \in Failures
    /\ answer' = [answer EXCEPT ![t] = parse_function_details(ip[t])]
    /\ pc' = [pc EXCEPT ![t] = "stepped"]
    /\ UNCHANGED <<obj, cache, lock, ip, details, unwind_info, seen, signal>>

\* Mutants of Insert: the entry is cached under the looked-up address; and
\* the cache keeps one entry only.
Insert_ByIp(t) ==
    /\ pc[t] = "store"
    /\ Unlock(t)
    /\ cache' = [cache EXCEPT ![ip[t]] = details[t]]
    /\ UNCHANGED <<ip, details, unwind_info, answer, seen, signal>>
    /\ Release(obj)
    /\ pc' = [pc EXCEPT ![t] = "answer"]

Insert_Evicting(t) ==
    /\ pc[t] = "store"
    /\ Unlock(t)
    /\ cache' = [a \in Addr |->
                   IF a = Lo[obj[details[t]]] THEN details[t] ELSE None]
    /\ UNCHANGED <<ip, details, unwind_info, answer, seen, signal>>
    /\ Release(obj)
    /\ pc' = [pc EXCEPT ![t] = "answer"]

\* Mutant of Insert: the parsed details are answered but not cached.
Insert_Skipped(t) ==
    /\ pc[t] = "store"
    /\ Unlock(t)
    /\ UNCHANGED <<obj, cache, ip, details, unwind_info, answer, seen, signal>>
    /\ pc' = [pc EXCEPT ![t] = "answer"]

\* Second critical section: the insert replaces, and drops, any Arc that
\* another thread cached for the same start_ip in the meantime.
Insert(t) ==
    /\ pc[t] = "store"
    /\ Unlock(t)
    /\ cache' = [cache EXCEPT ![Lo[obj[details[t]]]] = details[t]]
    /\ UNCHANGED <<ip, details, unwind_info, answer, seen, signal>>
    /\ Release(obj)
    /\ pc' = [pc EXCEPT ![t] = "answer"]

\* find_proc_info stores the raw pointer and drops its Arc on return.
FillProcInfo(t) ==
    /\ pc[t] = "answer"
    /\ unwind_info' = [unwind_info EXCEPT ![t] = details[t]]
    /\ answer' = [answer EXCEPT ![t] = obj[details[t]]]
    /\ details' = [details EXCEPT ![t] = None]
    /\ pc' = [pc EXCEPT ![t] = "cursor"]
    /\ UNCHANGED <<cache, lock, ip, seen, signal>>
    /\ Release(obj)

\* What a read through a raw pointer may yield.
Contents(o) == IF obj[o] # None THEN {obj[o]} ELSE Fde \cup {Garbage}

\* libunwind evaluates the CFI rules behind pi.unwind_info.
ReadProcInfo(t) ==
    /\ pc[t] = "cursor"
    /\ \E f \in Contents(unwind_info[t]) : seen' = [seen EXCEPT ![t] = f]
    /\ pc' = [pc EXCEPT ![t] = "stepped"]
    /\ UNCHANGED <<obj, cache, lock, ip, details, unwind_info, answer, signal>>

is_signal_frame(a) == \E o \in Hits(a) : obj[o] \in Signal

\* The step succeeded: unwind_frame asks is_signal_frame, under the lock.
AskSignal(t) ==
    /\ pc[t] = "ask"
    /\ Unlock(t)
    /\ signal' = [signal EXCEPT ![t] =
                   IF is_signal_frame(ip[t]) THEN "signal" ELSE "plain"]
    /\ unwind_info' = [unwind_info EXCEPT ![t] = None]
    /\ pc' = [pc EXCEPT ![t] = "done"]
    /\ UNCHANGED <<obj, cache, ip, details, answer, seen>>

\* Mutant of StepEnds: the cursor's proc info outlives the step.
StepEnds_KeepsCursor(t) ==
    /\ pc[t] = "stepped"
    /\ pc' = [pc EXCEPT ![t] = "done"]
    /\ UNCHANGED <<obj, cache, lock, ip, details, unwind_info, answer, seen, signal>>

\* The step ended the stack or failed: unwind_frame returns at once.
StepEnds(t) ==
    /\ pc[t] = "stepped"
    /\ unwind_info' = [unwind_info EXCEPT ![t] = None]
    /\ pc' = [pc EXCEPT ![t] = "done"]
    /\ UNCHANGED <<obj, cache, lock, ip, details, answer, seen, signal>>

Return(t) ==
    /\ pc[t] = "done"
    /\ pc' = [pc EXCEPT ![t] = "idle"]
    /\ ip' = [ip EXCEPT ![t] = None]
    /\ answer' = [answer EXCEPT ![t] = None]
    /\ seen' = [seen EXCEPT ![t] = None]
    /\ signal' = [signal EXCEPT ![t] = "unasked"]
    /\ UNCHANGED <<obj, cache, lock, details, unwind_info>>

Step(t) ==
    \/ Lock(t)
    \/ LookupHit(t) \/ LookupMiss(t)
    \/ ParseOk(t) \/ ParseFail(t)
    \/ Insert(t) \/ FillProcInfo(t)
    \/ ReadProcInfo(t) \/ AskSignal(t) \/ StepEnds(t) \/ Return(t)

Next == \E t \in Thread : (\E a \in Addr : Begin(t, a)) \/ Step(t)

Spec == Init /\ [][Next]_vars

\* A thread inside unwind_frame keeps running while it can.  The Mutex is not
\* fair: a thread that waits may find it taken whenever it looks.
FairSpec == Spec /\ \A t \in Thread : WF_vars(Step(t))

-----------------------------------------------------------------------------
(* Properties *)

\* Every variable has its type, a thread has a pointer to details only while
\* its cursor exists, and it has the lock exactly where it uses the cache.
TypeOK ==
    /\ obj \in [Obj -> Fde \cup {None}]
    /\ cache \in [Addr -> Obj \cup {None}]
    /\ lock \in Thread \cup {None}
    /\ pc \in [Thread -> {"idle", "lookup", "find", "parse", "insert", "store",
                          "answer", "cursor", "stepped", "ask", "done"}]
    /\ ip \in [Thread -> Addr \cup {None}]
    /\ details \in [Thread -> Obj \cup {None}]
    /\ unwind_info \in [Thread -> Obj \cup {None}]
    /\ answer \in [Thread -> Fde \cup Failures \cup {None}]
    /\ seen \in [Thread -> Fde \cup {Garbage, None}]
    /\ signal \in [Thread -> {"unasked", "signal", "plain"}]
    /\ \A t \in Thread :
         /\ unwind_info[t] # None => pc[t] \in {"cursor", "stepped", "ask"}
         /\ lock = t <=> pc[t] \in {"find", "store", "ask"}

\* The table is consistent: an address inside an entry that some address is
\* resolved to, is resolved to it as well (entries do not overlap and the
\* header table lists them all in order).
TableConsistent ==
    \A a, b \in Addr :
        LET f == parse_function_details(a) IN
        f \in Fde /\ Covers(f, b) => parse_function_details(b) = f

\* A cached allocation is live, and describes the entry that starts at its
\* key: insert, replacement and reuse of allocations keep the map sound.
CacheSound ==
    \A a \in Addr : cache[a] # None =>
        /\ obj[cache[a]] \in Fde
        /\ Lo[obj[cache[a]]] = a
        /\ \E b \in Addr : parse_function_details(b) = obj[cache[a]]

\* The answer libunwind gets is the one a parse of the sections would give,
\* whether it came from the cache, from this thread's parse or from an entry
\* another thread inserted between lookup and insert.
CacheTransparent ==
    TableConsistent =>
        \A t \in Thread : answer[t] # None =>
            answer[t] = parse_function_details(ip[t])

\* is_signal_frame, asked after a step, reports the 'S' flag of the entry that
\* was used (which is still cached by then), and FALSE where there was none.
SignalAgrees ==
    TableConsistent =>
        \A t \in Thread :
            /\ signal[t] = "signal" => answer[t] \in Signal
            /\ signal[t] = "plain" => answer[t] \notin Signal

\* Duplicate parses do not pile up: there is one allocation per entry of the
\* table, and one more for each thread that is inside find_proc_info.
AllocationsBounded ==
    Cardinality({o \in Obj : obj[o] # None})
        <= Cardinality({f \in Fde : \E a \in Addr : parse_function_details(a) = f})
           + Cardinality({t \in Thread : details[t] # None})

\* A cached start_ip stays cached, and always describes the same entry.
CacheMonotone ==
    [][\A a \in Addr : cache[a] # None =>
         /\ cache'[a] # None
         /\ obj'[cache'[a]] = obj[cache[a]]]_vars

\* A call that takes the lock up to three times, with a parse and a libunwind
\* step in between, never waits for ever: once no new call begins, every call
\* under way returns.  (While calls keep beginning they may starve one of the
\* lock.)
CallsReturn ==
    <>[][\A t \in Thread, a \in Addr : ~Begin(t, a)]_vars
        => \A t \in Thread : (pc[t] # "idle") ~> (pc[t] = "idle")

\* The comment in find_proc_info: the pointer stored in the proc info is
\* valid for as long as the cursor that consumes it.
ProcInfoPointerValid ==
    \A t \in Thread : unwind_info[t] # None => obj[unwind_info[t]] # None

(***************************************************************************)
(* The cache implements the atomic lookup service.                         *)
(***************************************************************************)
Phase == [t \in Thread |->
            IF pc[t] = "idle" THEN "idle"
            ELSE IF answer[t] = None THEN "asked" ELSE "answered"]

Service == INSTANCE ProcInfoService
             WITH phase <- Phase, request <- ip, reply <- answer,
                  Answer <- parse_function_details

\* Seen from libunwind, concurrent find_proc_info calls behave like atomic
\* lookups in an immutable table, when the table is consistent.
ImplementsService == Service!Spec
=============================================================================
