---------------------------- MODULE DwarfFields ----------------------------
(***************************************************************************)
(* The fields of a CIE and an FDE in the order in which the parser goes    *)
(* through them.                                                           *)
(***************************************************************************)
EXTENDS DwarfParser

\* The lengths, and what belongs to the entry of a length.
CieHeads == {"cie_length", "cie_length64"}
FdeHeads == {"fde_length", "fde_length64"}
CieBody == {"cie_id", "cie_id64", "version", "augmentation", "address_size",
            "segment_size", "code_align", "data_align", "ret_addr_column", "cie_aug_len",
            "aug_char", "R", "L", "P", "personality", "cie_end"}
FdeBody == {"cie_ptr", "cie_ptr64", "initial_pc", "range", "fde_aug_len", "lsda", "fde_end"}

\* The order of the fields; what belongs to a character of the augmentation string is
\* at one place of it.
Phase ==
    [f \in Fields |->
       CASE f = "fde_offset" -> 0 [] f = "cie_length" -> 1 [] f = "cie_length64" -> 2
         [] f \in {"cie_id", "cie_id64"} -> 3 [] f = "version" -> 4
         [] f = "augmentation" -> 5 [] f = "address_size" -> 6 [] f = "segment_size" -> 7
         [] f = "code_align" -> 8 [] f = "data_align" -> 9 [] f = "ret_addr_column" -> 10
         [] f = "cie_aug_len" -> 11 [] f \in {"aug_char", "R", "L", "P", "personality"} -> 12
         [] f = "cie_end" -> 13 [] f = "fde_length" -> 14 [] f = "fde_length64" -> 15
         [] f \in {"cie_ptr", "cie_ptr64"} -> 16 [] f = "initial_pc" -> 17
         [] f = "range" -> 18 [] f = "fde_aug_len" -> 19 [] f = "lsda" -> 20
         [] f = "fde_end" -> 21 [] f = "details" -> 22]
=============================================================================
