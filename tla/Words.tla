------------------------------- MODULE Words -------------------------------
(***************************************************************************)
(* Machine words: what the modules that register, load and search a        *)
(* profiled module have in common.                                         *)
(***************************************************************************)
EXTENDS Integers

CONSTANTS
    MaxU,  \* u64::MAX (and usize::MAX)
    None   \* Option::None

Addr == 0 .. MaxU

\* u64::saturating_add
SatAdd(a, b) == IF a + b > MaxU THEN MaxU ELSE a + b
=============================================================================
