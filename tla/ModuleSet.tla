------------------------------ MODULE ModuleSet ------------------------------
(***************************************************************************)
(* The per-unwinder registry of loaded modules (src/module_set.rs) and the *)
(* handles through which a profiler fills it (Module, Unwinder).           *)
(*                                                                         *)
(* Every unwinder owns two ordered maps keyed by tracee address: `modules` *)
(* (start of the code range -> module) and `redirects` (start of a locally *)
(* mirrored section -> section and owner).  The maps are functions on the  *)
(* whole address space whose value is None where the map has no key.  A    *)
(* section is identified by its owner and its start address.               *)
(***************************************************************************)
EXTENDS PtrAuthMask, Words

CONSTANTS
    Unwinder,   \* unwinder values a profiler may create, clone and drop
    Module,     \* module objects (one Arc<ModuleData> allocation each)
    Word,       \* bytes in one access_mem read (8 in the code)
    Start,      \* Start[m], End[m]: avma_range of module m
    End,
    Sec         \* Sec[m]: section start |-> byte length, for local_sections

ASSUME NoneAssumption ==
    /\ None \notin Module
    /\ None \notin Module \X Addr

ASSUME BoundsAssumption ==
    /\ MaxU \in Nat
    /\ Word \in Nat
    /\ Masks \subseteq Addr
    /\ MaxU \in Masks

\* A section has a start address and a length; the two sections of a module
\* start at different addresses.
ASSUME LayoutAssumption ==
    /\ Start \in [Module -> Addr]
    /\ End \in [Module -> Addr]
    /\ \A m \in Module : /\ DOMAIN Sec[m] \subseteq Addr
                         /\ \A k \in DOMAIN Sec[m] : Sec[m][k] \in Nat

VARIABLES
    live,       \* unwinders that exist
    modules,    \* modules[u]: the BTreeMap from start address to module
    redirects,  \* redirects[u]: the BTreeMap from section start to owner
    held,       \* modules the profiler holds a handle of
    arc         \* what has become of each module's allocation

vars == <<live, modules, redirects, held, arc>>

EmptyMap == [a \in Addr |-> None]

Keys(map) == {a \in Addr : map[a] # None}

\* BTreeMap::range(..=addr).next_back(): the greatest key not above addr.
HasFloor(map, addr) == \E k \in Keys(map) : k <= addr
Floor(map, addr) ==
    CHOOSE k \in Keys(map) :
        k <= addr /\ \A j \in Keys(map) : j <= addr => j <= k

\* avma_end of the section of m that starts at k.
SecEnd(m, k) == SatAdd(k, Sec[m][k])

Registered(u) == {modules[u][a] : a \in Addr} \ {None}

-----------------------------------------------------------------------------
(* Queries *)

InRange(m, addr) == addr >= Start[m] /\ addr < End[m]

\* Mutant of find_module: the module with the nearest start is returned
\* without a test of its end.
find_module_Floor(u, addr) ==
    IF HasFloor(modules[u], addr) THEN modules[u][Floor(modules[u], addr)]
    ELSE None

find_module(u, addr) ==
    IF HasFloor(modules[u], addr)
    THEN LET m == modules[u][Floor(modules[u], addr)]
         IN  IF InRange(m, addr) THEN m ELSE None
    ELSE None

contains_address(u, addr) == find_module(u, addr) # None

\* Mutant of max_known_code_address: the end of the module that starts last.
max_known_code_address_Last(u) ==
    IF Registered(u) = {} THEN 0
    ELSE End[modules[u][Floor(modules[u], MaxU)]]

max_known_code_address(u) ==
    IF Registered(u) = {} THEN 0
    ELSE CHOOSE e \in {End[m] : m \in Registered(u)} :
           \A m \in Registered(u) : End[m] <= e

\* Mutants of SectionCovers: only the first byte of the read is tested, and
\* a read that ends with the section is refused.
SectionCovers_FirstByte(m, k, addr) == addr < SecEnd(m, k)
SectionCovers_Strict(m, k, addr) == SatAdd(addr, Word) < SecEnd(m, k)

\* The bound test of lookup_local, on the section of m that starts at k.
SectionCovers(m, k, addr) == SatAdd(addr, Word) <= SecEnd(m, k)

\* The section an 8-byte read at addr is served from, as <<owner, start>>;
\* the read then takes Word bytes at offset addr - start of the section.
lookup_local(u, addr) ==
    IF HasFloor(redirects[u], addr)
    THEN LET k == Floor(redirects[u], addr)
             m == redirects[u][k]
         IN  IF SectionCovers(m, k, addr) THEN <<m, k>> ELSE None
    ELSE None

-----------------------------------------------------------------------------
(* Operations *)

\* Mutant of Referenced: a redirect entry has no _owner.
Referenced_NoOwner(m, hs, mods, reds) ==
    \/ m \in hs
    \/ \E u \in Unwinder, a \in Addr : mods[u][a] = m

\* The strong references a module's allocation has: the profiler's handles,
\* the modules maps and the _owner fields of the redirect entries.
Referenced(m, hs, mods, reds) ==
    \/ m \in hs
    \/ \E u \in Unwinder, a \in Addr : mods[u][a] = m
    \/ \E u \in Unwinder, a \in Addr : reds[u][a] = m

\* An allocation nobody refers to any more is freed.
DropUnreferenced ==
    arc' = [m \in Module |->
              IF arc[m] = "alive" /\ ~Referenced(m, held', modules', redirects')
              THEN "freed" ELSE arc[m]]

Init ==
    /\ live = {}
    /\ modules = [u \in Unwinder |-> EmptyMap]
    /\ redirects = [u \in Unwinder |-> EmptyMap]
    /\ held = {}
    /\ arc = [m \in Module |-> "unbuilt"]

\* A Module constructor returns the first handle of a module.
BuildModule(m) ==
    /\ arc[m] = "unbuilt"
    /\ arc' = [arc EXCEPT ![m] = "alive"]
    /\ held' = held \cup {m}
    /\ UNCHANGED <<live, modules, redirects>>

DropModule(m) ==
    /\ m \in held
    /\ held' = held \ {m}
    /\ UNCHANGED <<live, modules, redirects>>
    /\ DropUnreferenced

NewUnwinder(u) ==
    /\ u \notin live
    /\ live' = live \cup {u}
    /\ UNCHANGED <<modules, redirects, held, arc>>

\* Mutant of DropUnwinder: the redirects of a dropped unwinder leak.
DropUnwinder_Leak(u) ==
    /\ u \in live
    /\ live' = live \ {u}
    /\ modules' = [modules EXCEPT ![u] = EmptyMap]
    /\ UNCHANGED <<redirects, held>>
    /\ DropUnreferenced

DropUnwinder(u) ==
    /\ u \in live
    /\ live' = live \ {u}
    /\ modules' = [modules EXCEPT ![u] = EmptyMap]
    /\ redirects' = [redirects EXCEPT ![u] = EmptyMap]
    /\ UNCHANGED held
    /\ DropUnreferenced

\* The redirects map after the sections of m were inserted into it.
InsertSections(map, m) ==
    [a \in Addr |-> IF a \in DOMAIN Sec[m] THEN m ELSE map[a]]

\* add_module takes the handle by value; the profiler may have cloned it.
add(u, m, keep) ==
    /\ u \in live
    /\ m \in held
    /\ redirects' = [redirects EXCEPT ![u] = InsertSections(@, m)]
    /\ modules' = [modules EXCEPT ![u][Start[m]] = m]
    /\ held' = IF keep THEN held ELSE held \ {m}
    /\ UNCHANGED live
    /\ DropUnreferenced

\* Mutant of RemoveSections: every redirect from the module's first section
\* on is removed.
RemoveSections_FromFirst(map, m) ==
    [a \in Addr |->
       IF \E k \in DOMAIN Sec[m] : k <= a THEN None ELSE map[a]]

\* The redirects map after the sections of m were removed from it.
RemoveSections(map, m) ==
    [a \in Addr |-> IF a \in DOMAIN Sec[m] THEN None ELSE map[a]]

remove(u, avma_start) ==
    /\ u \in live
    /\ modules[u][avma_start] # None
    /\ modules' = [modules EXCEPT ![u][avma_start] = None]
    /\ redirects' = [redirects EXCEPT
                       ![u] = RemoveSections(@, modules[u][avma_start])]
    /\ UNCHANGED <<live, held>>
    /\ DropUnreferenced

\* The redirects of a registry filled by adding the modules of mods in
\* ascending key order: of two sections with one start the last one stays.
RebuiltRedirects(mods) ==
    LET Owners(a) == {k \in Keys(mods) : a \in DOMAIN Sec[mods[k]]}
    IN  [a \in Addr |->
           IF Owners(a) = {} THEN None
           ELSE mods[CHOOSE k \in Owners(a) : \A j \in Owners(a) : j <= k]]

\* Mutant of clone: a derived Clone copies the redirects as they are.
clone_Derived(u, v) ==
    /\ u \in live
    /\ v \notin live
    /\ live' = live \cup {v}
    /\ modules' = [modules EXCEPT ![v] = modules[u]]
    /\ redirects' = [redirects EXCEPT ![v] = redirects[u]]
    /\ UNCHANGED <<held, arc>>

clone(u, v) ==
    /\ u \in live
    /\ v \notin live
    /\ live' = live \cup {v}
    /\ modules' = [modules EXCEPT ![v] = modules[u]]
    /\ redirects' = [redirects EXCEPT ![v] = RebuiltRedirects(modules[u])]
    /\ UNCHANGED <<held, arc>>

Next ==
    \/ \E m \in Module : BuildModule(m) \/ DropModule(m)
    \/ \E u \in Unwinder : NewUnwinder(u) \/ DropUnwinder(u)
    \/ \E u \in Unwinder, m \in Module, keep \in BOOLEAN : add(u, m, keep)
    \/ \E u \in Unwinder, a \in Addr : remove(u, a)
    \/ \E u, v \in Unwinder : clone(u, v)

Spec == Init /\ [][Next]_vars

-----------------------------------------------------------------------------
(* Properties *)

\* An unwinder that does not exist refers to no module.
DroppedIsEmpty ==
    \A u \in Unwinder \ live :
        modules[u] = EmptyMap /\ redirects[u] = EmptyMap

\* The maps hold modules, and an unwinder that was dropped holds none.
TypeOK ==
    /\ live \subseteq Unwinder
    /\ modules \in [Unwinder -> [Addr -> Module \cup {None}]]
    /\ redirects \in [Unwinder -> [Addr -> Module \cup {None}]]
    /\ held \subseteq Module
    /\ arc \in [Module -> {"unbuilt", "alive", "freed"}]
    /\ DroppedIsEmpty

\* A module is registered under its own start address, and a redirect under
\* the start of a section of its owner (the keys `add` inserts with are the
\* ones `remove`, find_module and lookup_local rely on).
KeysMatch ==
    \A u \in Unwinder, a \in Addr :
        /\ modules[u][a] # None => Start[modules[u][a]] = a
        /\ redirects[u][a] # None => a \in DOMAIN Sec[redirects[u][a]]

\* A registered module that starts inside n, not above the address, and ends
\* before it.
Hides(u, h, n, addr) ==
    h \in Registered(u) /\ InRange(n, Start[h]) /\ Start[h] <= addr /\ ~InRange(h, addr)

\* find_module returns the innermost registered module that contains the
\* address, and misses one that contains it only where a module nested in it
\* starts and ends below the address, after any history of add, remove and
\* clone; with separate ranges it is exact.
FindModuleExact ==
    \A u \in Unwinder, a \in Addr :
        LET m == find_module(u, a) IN
        /\ m # None => m \in Registered(u) /\ InRange(m, a)
        /\ \A n \in Registered(u) : InRange(n, a) =>
             \/ m # None /\ Start[n] <= Start[m]
             \/ m = None /\ \E h \in Module : Hides(u, h, n, a)

\* The mask a profiler derives from an unwinder's modules keeps every address
\* that a frame in them can have: those of their code, and the end of the range,
\* where a call that is the last instruction returns to.  A mask that is kept
\* stays good for every module added later that ends no higher than those.
MaskKeepsCode ==
    \A u \in live : \A m \in Module, a \in Addr :
        /\ m \in Registered(u) \/ End[m] <= max_known_code_address(u)
        /\ InRange(m, a) \/ a = End[m]
        => strip_ptr_auth(from_max_known_address(max_known_code_address(u)), a) = a

\* No two modules of the program that can be registered together have sections
\* that start at the same address.
SectionStartsDistinct ==
    \A m, n \in Module : Start[m] # Start[n] => DOMAIN Sec[m] \cap DOMAIN Sec[n] = {}

\* No section of a registered module starts inside another one.
SectionsSeparate(u) ==
    \A m, n \in Registered(u) : \A k \in DOMAIN Sec[m], j \in DOMAIN Sec[n] :
        <<m, k>> # <<n, j>> => ~(k <= j /\ j < SecEnd(m, k))

\* A redirect that a replaced module left behind starts between k and addr.
Shadowed(u, k, addr) ==
    \E j \in Keys(redirects[u]) :
        k < j /\ j <= addr /\ redirects[u][j] \notin Registered(u)

\* Every section of a registered module has its redirect: neither replacing a
\* module at the same start, nor removing another one, nor cloning loses it.
Mirrored ==
    SectionStartsDistinct =>
        \A u \in Unwinder : \A m \in Registered(u) :
            \A k \in DOMAIN Sec[m] : redirects[u][k] = m

\* A read that fits in a section of a registered module is served from that
\* section, unless, and only unless, a redirect of a replaced module starts
\* inside the section not above the address: `add` leaves such redirects
\* behind, and the nearest start decides.
CoveredReadIsLocal ==
    SectionStartsDistinct =>
        \A u \in Unwinder, a \in Addr : \A m \in Registered(u) : \A k \in DOMAIN Sec[m] :
            SectionsSeparate(u) /\ k <= a /\ a + Word <= SecEnd(m, k) /\ 0 < Word
                => (lookup_local(u, a) = <<m, k>> <=> ~Shadowed(u, k, a))

\* The Word bytes a redirected read takes lie inside the section's bytes, with
\* one exception: in a section that reaches the top of the address space the
\* saturating test of lookup_local also accepts reads that wrap around it.
LocalReadInBounds ==
    \A u \in Unwinder, a \in Addr :
        LET hit == lookup_local(u, a) IN
        hit # None =>
            \/ a - hit[2] + Word <= Sec[hit[1]][hit[2]]
            \/ SecEnd(hit[1], hit[2]) = MaxU /\ a + Word > MaxU

\* Bytes served through a redirect belong to an allocation that has not been
\* freed, also when the module was replaced or every handle was dropped.
MirrorsAlive ==
    \A u \in Unwinder, a \in Addr :
        redirects[u][a] # None => arc[redirects[u][a]] = "alive"

\* A clone has the modules of the original, and exactly those of its
\* redirects whose owner is still registered.
CloneKeepsCurrentMirrors ==
    [][\A u, v \in Unwinder :
         clone(u, v) /\ SectionStartsDistinct =>
            /\ modules'[v] = modules[u]
            /\ redirects'[v] = [a \in Addr |->
                 IF redirects[u][a] \in Registered(u)
                 THEN redirects[u][a] ELSE None]]_vars

(***************************************************************************)
(* A claim of the source's comments that the code does not keep.           *)
(***************************************************************************)

\* lookup_local's comment, "if" part: a read that fits in a section of a
\* registered module is served locally.
RegisteredSectionServed ==
    \A u \in Unwinder, a \in Addr : \A m \in Registered(u) :
        \A k \in DOMAIN Sec[m] :
            k <= a /\ a + Word <= SecEnd(m, k) => lookup_local(u, a) # None
=============================================================================
