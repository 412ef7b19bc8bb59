--------------------------- MODULE MCEhFrameTable ---------------------------
(***************************************************************************)
(* Instances of EhFrameTable: every header over a few encodings, counts    *)
(* and lengths, and every table of four entries over five offsets.         *)
(***************************************************************************)
EXTENDS EhFrameTable

Slot == 0 .. MaxEntries - 1

\* udata4, pcrel|sdata4, udata8, sdata8, udata2, uleb128, omit
Encodings == {3, 27, 4, 12, 2, 1, 255}

\* 8 * 16 exceeds MaxU; -1 is the sdata4 count 0xffffffff.
ShapeHeaders ==
    {h \in [len : {3, 4, 7, 8, 11, 12, 16, 19, 20, 28}, version : {1, 2},
            ptr_enc : Encodings, count_enc : Encodings \cup {11},
            table_enc : {59, 27}, count : {-1, 0, 1, 2, 16},
            offs : {[i \in Slot |-> i]}] :
       h.count < 0 => h.count_enc % 16 = 11}

\* Tables of three and four entries, ascending or not.
TableHeaders ==
    {h \in [len : {36, 44}, version : {1}, ptr_enc : {27}, count_enc : {3},
            table_enc : {59}, count : {3, 4}, offs : [Slot -> -2 .. 2]] :
       /\ h.len = 12 + EntrySize * h.count
       /\ \A i \in Slot : i >= h.count => h.offs[i] = 0}

AllHeaders == ShapeHeaders \cup TableHeaders
=============================================================================
