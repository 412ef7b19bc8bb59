---------------------------- MODULE MCModuleSet ----------------------------
(***************************************************************************)
(* Instances of ModuleSet for TLC: layouts of the tracee's address space.  *)
(***************************************************************************)
EXTENDS ModuleSet, TLC

CONSTANTS m1, m2, m3, m4

\* m1 and m2 are adjacent images; m3 is a later image mapped at the start of
\* m1; m4 lies inside the range of m2.
MCStart == (m1 :> 3) @@ (m2 :> 5) @@ (m3 :> 3) @@ (m4 :> 6)
MCEnd   == (m1 :> 5) @@ (m2 :> 8) @@ (m3 :> 4) @@ (m4 :> 7)

\* Sections of modules that are registered together do not overlap.  The one of
\* m3 covers those of m1, which it replaces: it takes over the redirect of the
\* first and leaves that of the second behind.  The second section of m2 ends at
\* the top of the address space; m4 has none.
SecReloaded ==
    (m1 :> (8 :> 1 @@ 9 :> 2)) @@ (m2 :> (13 :> 1 @@ 14 :> 1)) @@ (m3 :> (8 :> 4))
    @@ (m4 :> <<>>)

\* m2 was mapped with its section where the one of m1 had been.
SecShared == (m1 :> (8 :> 3)) @@ (m2 :> (8 :> 3))

\* The layout of the modules a run has.
RunStart == [m \in Module |-> MCStart[m]]
RunEnd   == [m \in Module |-> MCEnd[m]]
=============================================================================
