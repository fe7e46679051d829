------------------------------ MODULE MCKvRing ------------------------------
(* KvRing with the parts of a block-scaled operand. *)
EXTENDS KvRing

OperandAndScales == {"operand", "scales"}
=============================================================================
