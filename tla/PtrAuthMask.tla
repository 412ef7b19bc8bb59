---------------------------- MODULE PtrAuthMask ----------------------------
(***************************************************************************)
(* PtrAuthMask (src/aarch64.rs): the bits of a code address that are not   *)
(* part of a pointer-authentication signature.                             *)
(***************************************************************************)
EXTENDS Integers

CONSTANT Masks  \* the words whose k lowest bits are set, for every k

ASSUME MasksAssumption ==
    \A m \in Masks : m \in Nat /\ \E k \in 0 .. m : 2 ^ k = m + 1

\* The shortest mask that keeps `address'; every bit if there is no address.
from_max_known_address(address) ==
    IF address = 0 THEN CHOOSE m \in Masks : \A n \in Masks : n <= m
    ELSE CHOOSE m \in Masks :
           address <= m /\ \A n \in Masks : address <= n => m <= n

\* addr & mask
strip_ptr_auth(mask, a) == a % (mask + 1)
=============================================================================
