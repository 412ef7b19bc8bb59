----------------------------- MODULE ModuleLoad -----------------------------
(***************************************************************************)
(* Building a module from its sections (src/module.rs) and choosing how to *)
(* unwind a frame of it (src/module_set.rs, src/x86_64.rs).                *)
(*                                                                         *)
(* Section bytes are abstracted to their length; a .eh_frame_hdr also      *)
(* carries what EhFrameTable::parse makes of it, an error or the number of *)
(* table entries (module EhFrameTable models the parser).                  *)
(***************************************************************************)
EXTENDS Words, Sequences

CONSTANTS
    Parts,   \* ModuleParts: what a caller or an object file provides
    Frames   \* code addresses to unwind

\* An absent range or absent bytes is None.
Range == [start : Addr, end : Addr]
ModuleParts ==
    [avma_range : Range, base_avma : Addr, base_svma : Addr,
     text_svma : {None} \cup Range,
     eh_frame_svma : {None} \cup Range, eh_frame : {None} \cup [len : Nat],
     eh_frame_hdr_svma : {None} \cup Range,
     eh_frame_hdr : {None} \cup [len : Nat, error : {None} \cup STRING, n : Nat]]

ASSUME PartsAssumption == MaxU \in Nat /\ Parts \subseteq ModuleParts

VARIABLES
    parts,     \* what the module was built from, None before
    strict,    \* "strict" if the constructor validates, "forgiving" otherwise
    module,    \* the ModuleData, None if there is none
    error,     \* the ModuleError of a strict constructor
    dispatch   \* how the last frame was unwound

load_vars == <<parts, strict, module, error, dispatch>>

WrapAdd(a, b) == (a + b) % (MaxU + 1)
WrapSub(a, b) == (a - b) % (MaxU + 1)

\* Mutant of Slide: the difference is taken the other way round.
Slide_Swapped(p) == WrapSub(p.base_svma, p.base_avma)

Slide(p) == WrapSub(p.base_avma, p.base_svma)

\* Mutant of LocalSection: the end comes from the file's address range.
LocalSection_SvmaEnd(p, svma, bytes) ==
    [avma_start |-> WrapAdd(svma.start, Slide(p)),
     avma_end |-> WrapAdd(svma.end, Slide(p)), bytes |-> bytes]

\* A section's local mirror: where it is in the tracee, and its bytes.
LocalSection(p, svma, bytes) ==
    LET avma == WrapAdd(svma.start, Slide(p)) IN
    [avma_start |-> avma, avma_end |-> SatAdd(avma, bytes.len), bytes |-> bytes]

\* Both the bytes and the address range of a section are there.
HasHdr(p) == p.eh_frame_hdr # None /\ p.eh_frame_hdr_svma # None
HasFrame(p) == p.eh_frame # None /\ p.eh_frame_svma # None

HdrSection(p) == LocalSection(p, p.eh_frame_hdr_svma, p.eh_frame_hdr)
FrameSection(p) == LocalSection(p, p.eh_frame_svma, p.eh_frame)

\* The local pointers are the sections whose bytes they point to, None if null.
from_parts(p) ==
    [avma_range |-> p.avma_range,
     base_avma |-> p.base_avma,
     local_sections |-> (IF HasHdr(p) THEN <<HdrSection(p)>> ELSE <<>>)
                        \o (IF HasFrame(p) THEN <<FrameSection(p)>> ELSE <<>>),
     entry_count |-> IF HasHdr(p) /\ p.eh_frame_hdr.error = None
                     THEN p.eh_frame_hdr.n ELSE 0,
     eh_frame_hdr_error |-> IF HasHdr(p) THEN p.eh_frame_hdr.error ELSE None,
     eh_frame_hdr_local |-> IF HasHdr(p) THEN p.eh_frame_hdr ELSE None,
     eh_frame_local |-> IF HasFrame(p) THEN p.eh_frame ELSE None,
     eh_frame_avma |-> IF HasFrame(p) THEN FrameSection(p).avma_start ELSE 0,
     data_base |-> IF HasHdr(p) THEN HdrSection(p).avma_start ELSE 0,
     text_base |-> IF p.text_svma = None THEN p.avma_range.start
                   ELSE WrapAdd(p.text_svma.start, Slide(p))]

\* The errors of validate_module_parts.
ModuleErrors == {"EmptyAvmaRange", "MissingEhFrameSvma", "MissingEhFrame",
                 "MissingEhFrameHdrSvma", "MissingEhFrameHdr", "InvalidEhFrameHdr"}

ASSUME PartsNoneAssumption ==
    None \notin ModuleErrors /\ None \notin ModuleParts /\ \A p \in Parts : from_parts(p) # None

\* Mutant of validate_module_parts: the header is not parsed.
validate_NoHeader(p) ==
    IF p.avma_range.start >= p.avma_range.end THEN "EmptyAvmaRange"
    ELSE IF p.eh_frame_svma = None THEN "MissingEhFrameSvma"
    ELSE IF p.eh_frame = None THEN "MissingEhFrame"
    ELSE IF p.eh_frame_hdr_svma = None THEN "MissingEhFrameHdrSvma"
    ELSE IF p.eh_frame_hdr = None THEN "MissingEhFrameHdr"
    ELSE None

\* The first check of validate_module_parts that fails, None if all pass.
validate_module_parts(p) ==
    IF p.avma_range.start >= p.avma_range.end THEN "EmptyAvmaRange"
    ELSE IF p.eh_frame_svma = None THEN "MissingEhFrameSvma"
    ELSE IF p.eh_frame = None THEN "MissingEhFrame"
    ELSE IF p.eh_frame_hdr_svma = None THEN "MissingEhFrameHdrSvma"
    ELSE IF p.eh_frame_hdr = None THEN "MissingEhFrameHdr"
    ELSE IF p.eh_frame_hdr.error # None THEN "InvalidEhFrameHdr"
    ELSE None

LoadInit ==
    /\ parts = None
    /\ strict = "forgiving"
    /\ module = None
    /\ error = None
    /\ dispatch = None

\* Module::new and from_mmap_file.
New(p) ==
    /\ parts = None
    /\ parts' = p
    /\ module' = from_parts(p)
    /\ UNCHANGED <<strict, error, dispatch>>

\* from_dwarf_sections, try_from_section_info and try_from_mmap_file.
TryFrom(p) ==
    /\ parts = None
    /\ parts' = p
    /\ strict' = "strict"
    /\ \/ /\ validate_module_parts(p) = None
          /\ module' = from_parts(p)
          /\ UNCHANGED error
       \/ /\ validate_module_parts(p) # None
          /\ error' = validate_module_parts(p)
          /\ UNCHANGED module
    /\ UNCHANGED dispatch

NoSections(p) ==
    [p EXCEPT !.base_svma = p.base_avma, !.text_svma = None,
              !.eh_frame_svma = None, !.eh_frame = None,
              !.eh_frame_hdr_svma = None, !.eh_frame_hdr = None]

\* Module::fallback_only, which takes the name, the range and the base of p.
FallbackOnly(p) ==
    /\ parts = None
    /\ parts' = NoSections(p)
    /\ module' = from_parts(NoSections(p))
    /\ UNCHANGED <<strict, error, dispatch>>

-----------------------------------------------------------------------------
\* find_module, when the module is the only one.
Contains(a) == module.avma_range.start <= a /\ a < module.avma_range.end

unwind_info_error(a) == Contains(a) /\ module.eh_frame_hdr_error # None

has_unwind_info(a) ==
    /\ Contains(a)
    /\ module.entry_count # 0
    /\ module.eh_frame_hdr_local # None
    /\ module.eh_frame_local # None

\* The head of unwind_frame.
UnwindFrame(a) ==
    /\ module # None
    /\ dispatch' = IF unwind_info_error(a) THEN "UnwindInfo"
                   ELSE IF ~has_unwind_info(a) THEN "fallback"
                   ELSE "dwarf"
    /\ UNCHANGED <<parts, strict, module, error>>

LoadNext ==
    \/ \E p \in Parts : New(p) \/ TryFrom(p) \/ FallbackOnly(p)
    \/ \E a \in Frames : UnwindFrame(a)

LoadSpec == LoadInit /\ [][LoadNext]_load_vars

-----------------------------------------------------------------------------
(* Properties *)

\* A mirror covers no address whose byte it does not have, although its end is
\* computed from a wrapped start with a saturating addition.
MirrorWithinBytes ==
    module # None =>
        \A i \in DOMAIN module.local_sections :
            LET s == module.local_sections[i] IN
            /\ s.avma_end >= s.avma_start
            /\ s.avma_end - s.avma_start <= s.bytes.len

\* The tracee's image is moved as one piece: every address derived from a
\* section is as far from the load address as the section is from the file's
\* base, modulo 2^64.
MovedAsOnePiece ==
    module # None =>
        /\ HasHdr(parts) =>
             WrapSub(module.data_base, parts.base_avma)
               = WrapSub(parts.eh_frame_hdr_svma.start, parts.base_svma)
        /\ HasFrame(parts) =>
             WrapSub(module.eh_frame_avma, parts.base_avma)
               = WrapSub(parts.eh_frame_svma.start, parts.base_svma)
        /\ parts.text_svma # None =>
             WrapSub(module.text_base, parts.base_avma)
               = WrapSub(parts.text_svma.start, parts.base_svma)

\* A strict constructor succeeds exactly when the module it builds has a valid
\* header and both sections, so that its frames never report a header error.
StrictIsComplete ==
    strict = "strict" =>
        (module # None <=>
            /\ parts.avma_range.start < parts.avma_range.end
            /\ from_parts(parts).eh_frame_hdr_error = None
            /\ Len(from_parts(parts).local_sections) = 2)

\* A forgivingly built module can still use frame-pointer fallback when its
\* unwind sections are missing or unsupported.
ForgivingFallsBack ==
    strict = "forgiving" => dispatch \in {None, "dwarf", "fallback"}
=============================================================================
