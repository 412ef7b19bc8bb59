---------------------------- MODULE FrameAddress ----------------------------
(***************************************************************************)
(* FrameAddress (src/frame_address.rs): the address of a frame, either     *)
(* where the thread runs or where it returns to.                           *)
(***************************************************************************)
EXTENDS Integers

InstructionPointer(a) == [kind |-> "ip", addr |-> a]
ReturnAddress(a) == [kind |-> "ra", addr |-> a]

address_for_lookup(f) == IF f.kind = "ip" THEN f.addr ELSE f.addr - 1
is_return_address(f) == f.kind = "ra"
=============================================================================
