---------------------------- MODULE MCModuleLoad ----------------------------
(***************************************************************************)
(* Instance of ModuleLoad: every combination of present and absent         *)
(* sections, an empty and a non-empty range, load addresses that wrap the  *)
(* slide, a section at the top of the address space, and file ranges that  *)
(* are longer than the bytes.                                              *)
(***************************************************************************)
EXTENDS ModuleLoad

Span(s, e) == [start |-> s, end |-> e]

MCParts ==
    [avma_range : {Span(4, 8), Span(4, 4)}, base_avma : {4, 12},
     base_svma : {0, 6}, text_svma : {None, Span(1, 2)},
     eh_frame_svma : {None, Span(3, 9)}, eh_frame : {None, [len |-> 4]},
     eh_frame_hdr_svma : {None, Span(2, 6)},
     eh_frame_hdr : {None} \cup [len : {3}, error : {None, "bad"}, n : {0, 2}]]
=============================================================================
