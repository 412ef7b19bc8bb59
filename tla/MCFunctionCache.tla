--------------------------- MODULE MCFunctionCache ---------------------------
(***************************************************************************)
(* Instances of FunctionCache: a module with three entries, a gap between  *)
(* the first two and a malformed last one.                                 *)
(***************************************************************************)
EXTENDS FunctionCache, TLC

CONSTANTS f1, f2, f3

MCLo == (f1 :> 1) @@ (f2 :> 4) @@ (f3 :> 5)
MCHi == (f1 :> 3) @@ (f2 :> 5) @@ (f3 :> 6)

\* The entry with the greatest start not above the address.
MCCandidate ==
    [a \in Addr |-> CASE a < 1 -> None
                      [] a >= 1 /\ a < 4 -> f1
                      [] a = 4 -> f2
                      [] a > 4 -> f3]

\* The table of this module is consistent.
ASSUME ConsistentTable == TableConsistent

Symmetry == Permutations(Obj) \cup Permutations(Thread)
=============================================================================
