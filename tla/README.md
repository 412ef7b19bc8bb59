# Verification of libunwinder in TLA+

libunwinder lets a profiler walk the stack of another process. The caller
registers the loaded images as *modules*, hands over a register snapshot and a
function that reads stack words, and gets return addresses back. Steps are done
by a vendored libunwind, which calls back into the crate for unwind information
and memory; where a module has none, the crate follows frame pointers itself.

This directory holds TLA+ models of that system, TLC configurations that check
them on small instances, and TLAPS proofs of the main results for every value
of the constants. `PROJECT.json` lists the components, the runs, the source
lines each definition models, the hazards and the results.

## Inventory

| part | source | module | state |
|---|---|---|---|
| module registry | `module_set.rs` | `ModuleSet` | two ordered maps per unwinder, references to modules |
| function cache | `callbacks.rs`, `module_set.rs` | `FunctionCache`, `ProcInfoService` | cache, allocations, threads inside `unwind_frame` |
| `.eh_frame_hdr` table | `eh_frame_table.rs` | `EhFrameTable` | parser verdict, search interval |
| CIE and FDE parser | `dwarf.rs`, `callbacks.rs` | `DwarfParser`, `DwarfLayout` | cursor, fields parsed so far, result |
| x86_64 unwinder | `x86_64.rs`, `frame_address.rs` | `UnwindX86`, `FrameAddress` | registers, iterator state |
| aarch64 unwinder | `aarch64.rs`, `frame_address.rs` | `UnwindAarch64`, `FrameAddress`, `PtrAuthMask` | the same, and the cached functions |
| stack iterator | `module.rs` (`UnwindIterator`) | `UnwindX86`, `UnwindAarch64` | the same |
| libunwind step | `address_space.rs`, `callbacks.rs`, vendored `Gstep.c`, `Gparser.c` | `Libunwind`, `LibunwindAarch64` | none: operators |
| module construction | `module.rs` | `ModuleLoad` | the module, the constructor's error, the dispatch |
| object files, errors, FFI | `module.rs`, `error.rs`, `ffi/` | none | input/output, wording, declarations |

How the parts interact: constructors (`ModuleLoad`) use the header parser
(`EhFrameTable`) and produce the modules that the registry (`ModuleSet`) holds.
The iterator calls `unwind_frame` (`UnwindX86`, `UnwindAarch64`), which asks the
registry how to treat an address and runs a libunwind step (`Libunwind`,
`LibunwindAarch64`); inside the step libunwind calls `find_proc_info`
(`FunctionCache`), which searches the header table and parses the entry it finds
(`DwarfParser`), and `access_mem` (redirected by `ModuleSet.lookup_local`).

## Modules

**ModuleSet.** `modules[u]` and `redirects[u]` are the BTreeMaps of unwinder
`u`, as functions on the address space that are `None` where there is no key.
A redirect is identified by its owner and start. `held` are the module handles
the profiler has, `arc` the fate of each `Arc<ModuleData>`: `DropUnreferenced`
is part of every action that may drop a reference. Actions: `BuildModule`,
`DropModule`, `NewUnwinder`, `DropUnwinder`, `add`, `remove`, `clone`. `add`
keeps the code's behaviour of not cleaning up after a replaced module, and
`clone` rebuilds the redirects from the modules in key order.
`max_known_code_address` is the query from which callers derive the mask that
strips pointer-authentication signatures (`PtrAuthMask`).

**FunctionCache.** Several threads run `find_proc_info` on one module. `lock` is
the cache's Mutex: taking it is a step that may have to wait (`Lock`), and the
critical section with the release of the guard is the next one (`LookupHit`,
`LookupMiss`, `Insert`, `AskSignal`). Parsing happens between critical sections,
without the guard. Nothing panics while it holds the guard, so the Mutex is never
poisoned. `obj[o]` is what an allocation of `FunctionDetails` describes, `None` when free; `cache`
and `details` are strong references, `unwind_info` is the raw pointer that
libunwind reads through. Reading through a freed pointer yields any entry or
garbage. `ProcInfoService` is the abstract specification: a request is answered
once, atomically, with what a parse yields. The refinement mapping sends a
thread to `asked` until `find_proc_info` answers and to `answered` until
`unwind_frame` returns.

**EhFrameTable.** `parse_error` is the parser's chain of checks with saturating
64-bit arithmetic; a count in a signed encoding is reduced modulo 2^64. A lookup
is `LookupStart`, one `Bisect` per loop iteration, and `LookupEnd`.

**DwarfParser.** `parse_function_details` over the bytes of one `.eh_frame`. A
field is read in one step, or in one step per LEB128 byte, and used in the next:
`cur` is the cursor with the field it is at, `cie` and `fde` what has been parsed.
`Locate` is the first pass that follows the FDE's CIE pointer; `ParseCie` and
`ParseFde` are the two parsers, one action per field; `Refuse`, `ReadFixed` and
`ReadLeb128` are the cursor's reads; `BuildDetails` ends a successful parse. The
sizes of `u16`, `u32` and `u64` are constants. Errors carry their kind and not
their position. An entry that is shorter than its own fields makes an unchecked
subtraction underflow: the model takes the panic of a debug build and the wrapped
length of a release build as alternatives.

**DwarfLayout.** What a section means, without a parser. A *layout* gives the
offsets of the fields of a CIE and an FDE and the values they hold; a table of
rows (`Rows`, `CharRows`) says in which format each field is stored, and
`HasLayout` that the bytes hold it: little-endian words, LEB128 numbers as sums of
digits, pointers as differences to their base. `Meaning` is the result that a call
must have. The writer of sections in `MCDwarfParser` takes its expectations from
here, and TLC checks that every section it writes without a defect has the layout
it was written for (`LayoutsAssumption`). `DwarfFields` and `DwarfTrack` hold
what the proofs need besides: the order of the fields, and the invariant.

**Libunwind.** Operators for one `unw_step` on a fresh cursor. A *row* is what a
CFI program leaves for the CFA, the return address, RSP and RBP. `dwarf_step`
applies it; `heuristic_step` is what x86_64 libunwind does when
`find_proc_info` has nothing (PLT stubs, calls through bad pointers, guessed
frame pointers). `rd` is `access_mem` as a function, `Fail` where a read fails.

**UnwindX86.** `Kind[a]` and `Rows[a]` summarise the registry: no module, a
module without unwind information, one with a rejected header, or one with a
table, and then the row (`None` where no FDE covers the address). One call of
`next()` is one step; in each call a set of addresses from `FailSets` may be
unreadable, so a read can fail now and succeed in a retry. R10 stands for the
registers that `clear_unrestored_caller_registers` invalidates.

**LibunwindAarch64.** The same for aarch64: the sigreturn stub, whose frame is
read from the signal context; the retry at the link register when the code word
cannot be read; applying a row, of which X29 and X30 matter; the fallback for PLT
entries; and `get_frame_state`, whose first act is to call the accessor
`get_proc_name`. The crate's table leaves that accessor null, so the outcome is
`Crash`. UNW_REG_IP is X30 there, so a step returns one value for the address and
the link register. The RA sign state of a row has no effect, because there is no
`ptrauth_insn_mask` accessor.

**UnwindAarch64.** As `UnwindX86`, with a return address that may carry a
signature above the bits of the walk's mask. `is_signal_frame` asks the function
cache only; `cached` is the set of FDEs in it, filled by steps and by earlier
walks. The state `crashed` is the end of the process.

**ModuleLoad.** `from_parts` and `validate_module_parts` over sections that are
lengths plus the parser's verdict; `New`, `TryFrom` and `FallbackOnly` are the
constructors and `UnwindFrame` the head of `unwind_frame`.

Operators whose comment begins with "Mutant" are deliberate faults, each
replacing one definition. They show that a property can fail; no specification
uses them.

## Runs

Passing runs:

| run | shows | bounds |
|---|---|---|
| `ModuleSet` | which module `find_module` returns and when it misses one, a mask that keeps every code address, complete mirrors, which reads they serve, reads in bounds, no freed bytes, clones keep what is current | 2 unwinders, 4 modules: adjacent, replacing at the same start with a section over the old ones, nested, one with a section at the top of the address space and one with none; 16 addresses, 2-byte words |
| `FunctionCache` | answers equal a parse, signal flags agree, the cache is sound and monotone, allocations are bounded, no call waits for ever; refinement of `ProcInfoService` | 2 threads, 3 entries with a gap and a malformed one, 7 addresses, 4 allocations |
| `EhFrameTable` | an accepted table lies in the bytes; the search stays inside, ends, and is exact on sorted tables | headers of 10 lengths around each boundary, 8 count encodings, counts -1, 0, 1, 2 and one that overflows; every table of 3 and 4 entries over 5 offsets, 7 addresses |
| `DwarfParser` | details are exactly those a section describes, a failure names the defect, reads stay in the bytes, instruction ranges in their entry, every parse ends | sections written from descriptions in every format and application, CIE versions 1, 3, 4, both length forms; every cut of six sections, five values for each byte of six sections, one section per defect; 3-byte words |
| `UnwindX86` | recovered callers are those of the rows, a failed read is reported or costs no more than RBP, stale registers are not used, frame pointers make progress, walks along them end | 8 rows (leaf, frame pointer, signal, two RIP-relative, R10-based, undefined RBP, undefined RSP), one CFI word inside the mirror and one straddling its end, a PLT entry and another gap, a plain and a rejected module; every stack of 4 words over 4 values, 3 fail sets |
| `UnwindAarch64` | a signature changes no outcome but that of a frame that returns to itself, recovered callers are those of the rows, a failed read is reported or costs no more than X29 | 8 rows, two of them with a CFI word that some memories lack, the sigreturn stub and another signal frame, a PLT entry with and one without an FDE, a plain and a rejected module; signed and plain words, masks with and without signature bits, warm and cold caches, 5 fail sets, one of them code |
| `ModuleLoad` | mirrors within bytes, one slide for all addresses, strict means complete | all presence combinations, wrapping slides, an empty range |

In `DwarfParser` the expected result is computed from the description of a
section (the meaning of its layout) and never from its bytes, so the writer and
the parser are independent.

The bounds are chosen so that the interesting cases occur: two threads are
enough for the cache race, because it needs one loser per function; four
modules give adjacency, nesting and replacement at once; `MaxU` is small so that
wrap-around and saturation happen; 3 and 4 entries exercise odd and even
intervals; a word of three bytes takes LEB128 numbers of one to four bytes, the
last of them partial, like the tenth byte of a 64-bit number. The error paths and
outcomes of the parser, the constructors, the unwind paths, the heuristics and
the cache were probed one by one, by checking that TLC refutes the claim that
each is never taken. Two never
are: the last test of `fallback_unwind_frame` (`new_sp == sp`, after
`new_sp <= sp` has returned), and `Error::UnwindInfo` after a failed lookup,
because the modelled heuristics fail only after a failed read, which is reported
first. The proofs below lift many of the results to all sizes.

Runs that refute a statement of the repository, each quoted in `PROJECT.json`:

| run | statement | what the code does |
|---|---|---|
| `FunctionCacheRace` | the pointer in the proc info is valid as long as its cursor | two threads parse one function; the second insert frees the details the first one's cursor uses |
| `ModuleSetShared` | a read that fits in a registered section is local | `remove` deletes the redirect of another module with the same section start |
| `UnwindLookup` | the lookup lands inside the call instruction | a stack-loaded return address above a caller frame is reported one too high |
| `ModuleLoadForgiving` | unsupported sections fall back to frame pointers | a rejected header makes every frame an error |
| `UnwindAarch64Crash` | the accessor `get_proc_name` may be null | on aarch64 libunwind calls it when a step fails, here after a signal interrupted a function that keeps its return address in X30 |

Seen while modelling, and not the subject of a run of its own:

- replacing a module at the same start leaves its redirects behind, until the
  unwinder is dropped or a section with the same start is added or removed (a clone
  does not have them). They never outlive their bytes (`MirrorsAlive`), but one that
  starts inside a section of a registered module hides the rest of it: reads there
  get the replaced module's bytes, or none and go to the tracee. This is a second
  way in which the comment of `lookup_local` fails, next to the one of
  `ModuleSetShared`. `CoveredReadIsLocal` says that it happens for exactly these
  reads, and both outcomes occur in the run `ModuleSet`;
- a registered module that starts inside another one and ends below an address hides
  the outer one, and `find_module` returns nothing; `FindModuleExact` says that there
  is no other way to miss a module;
- in a section that ends at `u64::MAX` the saturating test of `lookup_local` accepts
  reads that wrap around the top, the one exception in `LocalReadInBounds`;
- a mask that is kept while modules are added strips bits of those that end above
  it; `MaskKeepsCode` says that it stays good for all others;
- a saved RBP that cannot be read becomes 0 in a successful step, the exception
  in `FailuresContained`; the comment in `init_and_step` means this;
- where no FDE covers an address, libunwind's heuristics decide the outcome;
- a count encoding whose size is known and whose decoding is not is reported as a
  truncated count;
- on aarch64 a step does not ask for the FDE of the sigreturn stub, so whether the
  frame below counts as interrupted depends on earlier walks;
- on aarch64 a PLT entry with an FDE is left by the link register, without an
  error, if its CFI cannot be read, the exception in that `FailuresContained` and
  the second case of that `CallerExact`;
- on x86_64 the byte that `unwind_frame` adds for a frame that is a return address
  is also missing sometimes: for an address that a row computes from RIP and that
  lies outside the modules, or in a signal frame (`ComputedOutside`);
- on aarch64 libunwind compares the new address with the old one before the crate
  strips it, so a PLT entry with a zero X29 that returns to itself ends the walk if
  the address is signed and not if it is plain (`ReturnsToItself`);
- an entry shorter than its fields is accepted in a release build, with an
  instruction range that starts behind its end (`InstructionsInEntry` bounds it),
  and panics in a debug build, where the head of `dwarf.rs` promises a precise error
  for anything unusual.

`CHECK_DEADLOCK FALSE` is used where the modelled program really stops: a
rejected header in `EhFrameTable`, a refused construction in `ModuleLoad`, a
finished parse in `DwarfParser`, a crashed process in `UnwindAarch64`.

## Fairness

- `FunctionCache.FairSpec`: weak fairness of each thread's steps inside
  `unwind_frame`. Starting a new call is not fair, and neither is the Mutex: a
  thread that waits may find it taken whenever it looks. So `CallsReturn` says that
  every call under way returns once no new call begins; without that premise TLC
  finds the thread that others starve.
- `EhFrameTable.TableFairSpec`: a lookup that has started runs its loop.
- `DwarfParser.FairSpec`: the parser runs; nothing in it waits.
- `UnwindX86.FairSpec`: the caller keeps calling `next()`. `NoEndlessWalk` says
  that such a caller sees, again and again, an error, the end, or a frame with
  unwind information: frame pointers alone never carry a walk on for ever. Frames
  with unwind information are let through, because a row may restore any stack
  pointer and the code detects only an immediate repetition.

## Proofs

Each proof module extends the module of its component. The proofs about a profiled
module (its header table, its construction and its registration) are the three
parts of `ModuleProofs`, over the machine words of `Words`; those about layouts
are a chain of three modules. All constants are arbitrary up to the named
assumptions in the modules (addresses are an initial segment of the naturals,
sections have addresses and lengths, markers such as `None` are not addresses, a
word has a whole number of bits, a process has finitely many threads, the PC of a
signal context is a field of its own). The facts about remainders that the
arithmetic of wrapping words rests on stand at the head of the modules that use
them.

- `ModuleProofs`, registration: type correctness and `KeysMatch` are inductive
  together. The lookups follow from the existence of a greatest key below an
  address (`FloorExists`, from well-foundedness of the naturals). `Mirrored` is
  inductive given `KeysMatch`, if modules that can be registered together (those
  with different starts) have different section starts; it gives
  `CoveredReadIsLocal`, in both directions, and the clone theorem. Only the sections
  that are registered need to be separate for it. `MirrorsAlive` needs the stronger
  `ReferencedAlive`: everything referenced is alive, also through handles and
  module maps. `MaskKeepsCodeAlways` follows from the maximality of
  `max_known_code_address` and the shape 2^k - 1 of masks.
- `FunctionCacheProofs`: `IInv` adds to `CacheSound` what a thread knows at each
  point (`ThreadInv`): the details it holds are live and came from a parse.
  Without it a freed allocation could be cached. Transparency and the signal
  theorem strengthen it with what each thread was answered; the refinement maps
  each step to a service step or a stutter. These three assume a consistent table:
  an address inside an entry resolves to that entry. `AllocationsBounded` rests on
  `NoLeak`, which is inductive given `IInv`: a live allocation is in the cache or
  held by a thread. The cached ones map one-to-one to resolvable entries, because
  the cache is sound, and the held ones to threads, which bounds both.
- `ModuleProofs`, header table: the search invariant says that, in a sorted table,
  every entry at or above `hi` starts above the address, and `lo` is 0 or starts
  not above it. `AcceptedTableInBounds` follows from the saturating arithmetic.
  `SearchProgress` is the measure behind termination.
- `UnwindX86Proofs`: type correctness of whole walks through every branch of the
  libunwind step; progress of the fallback; and `FailuresContained`, by comparing
  a step with failing reads to the one without: every branch of the step either
  does not see a failure, reports it, or loses RBP and nothing else. `CallerExact`
  holds in every typed state: a caller comes from a step that applied the row, and
  the addition of one byte is followed through wrap-around. The proof found the
  case `ComputedOutside`, which the instance did not reach before.
  `NoStaleRegister` compares the registers of a caller with the snapshot they
  replace.
- `UnwindAarch64Proofs`: type correctness of whole walks, which includes that the
  link register never holds a signature; and `FailuresContained`, by the same
  comparison. The two cursors that `dwarf_step` leaves are equal or differ by one
  failed read, of the CFI or of the return address; equal cursors can then only
  disagree about X29. A zero X29 ends the stack, so a walk that cannot read it may
  go on: the proof showed that this can also end in an error without an address,
  which the instance does not reach. The last part is about what becomes of the
  row of a frame. `UsesRow` says what a step may do with a row that it can use, in
  terms of the two values the row describes; `CallerExact` follows from it and
  from what is left for a row that cannot be used. `SignaturesInvisible` compares
  two memories that differ in one signed word: every read fails in both or in
  neither, so both steps take the same branch, and `StepResult` strips what they
  return. The exception is a branch that libunwind takes on the address itself,
  `ReturnsToItself`; that the word holds nothing but the return address is needed
  and part of `ReturnSlot`.
- `ModuleProofs`, construction: the invariant says that a module is what
  `from_parts` makes of its parts, and that a strict constructor yields one
  exactly if validation passes. The three properties follow from the arithmetic of
  `from_parts`; that the slide is the same for all addresses needs that wrapped
  sums and differences cancel.
- `DwarfParserProofs`: for every section and all word sizes, type correctness, the
  position of the cursor and the instruction ranges. The last needs an invariant
  that ties `cur.end` and the stored offsets to the length field of the entry that
  is being parsed, and the fact that wrapped differences and wrapped sums cancel.
  `ParserProgress` is the measure behind termination: the order of the fields,
  then the rest of the augmentation string, then the bytes of a LEB128 number,
  whose weights are bounded by the word.
- `DwarfReadProofs`, `DwarfCieProofs`, `DwarfLayoutProofs`: the parser computes
  what a section means. `ParserExact` is about every section that has a layout,
  with augmentation strings of any length and LEB128 numbers of any length that a
  word admits: the result is the `Meaning` of the layout. So the parser refuses no
  such section, and a layout, if there is one, determines the result. The
  invariant `Track` places the cursor in the table of rows: `Spot` says that it
  stands at the start of a row, inside a number with the sum of the digits before,
  or behind a row with its word; `Groups` says that the parsed fields are those of
  the layout, as far as the parser has come, and that k characters of the
  augmentation string have been used up. The existential k takes the place of an
  induction over the string. `DwarfReadProofs` shows that a read stays on its row
  (the digit sums and signs of `DigitAdds` are the arithmetic of it) and what a
  step keeps; `DwarfCieProofs` and `DwarfLayoutProofs` have one lemma per field.
  `DescribedDetails` and `DescribedFailures` state `DetailsExact` and
  `FailurePrecise` for calls whose expectation is such a meaning.

Every safety invariant and action property that a passing run checks is proved,
with one exception: that the parser names the right defect. For sections without a
layout `DetailsExact` and `FailurePrecise` stay with TLC, because what the right
error is depends on how the section was made; the converse of `ParserExact` does
not hold, as the parser also accepts entries whose fields run past their ends. The
liveness properties (`CallsReturn`, `LookupEnds`, `NoEndlessWalk`, `ParseEnds`)
are outside the prover's reach; `SearchProgress`, `ParserProgress` and
`FallbackMakesProgress` prove the measures behind three of them.

## Not modelled

- The CFI interpreter of libunwind: a row stands for what a program leaves. CFA
  expressions appear only as a return address relative to RIP.
- libunwind's vsyscall test and its row cache; the latter stays empty because
  each step uses a fresh cursor of an address space without caching. What
  `get_frame_state` of aarch64 does after its call of `get_proc_name`: with this
  accessor table it is never reached.
- A poisoned cache Mutex: under the lock the code only searches, inserts, clones
  and drops.
- Creation of the shared address space (`OnceLock`): it has no state a property
  could observe.
- Object files and mmap (`module.rs`): input and output through external crates,
  whose results are the inputs of `ModuleLoad`.
- The texts of errors, FFI declarations and register accessors that only copy.

## Plan

1. A composition of registry, cache and unwinders: clones that share modules and
   are used by threads while the original is changed.
