---------------------------- MODULE MCMemRegions ----------------------------
(* Eight bytes of RAM, one of them reserved, and two of ROM elsewhere.       *)
EXTENDS MemRegions

MCLayout == {[start |-> 0, bytes |-> 8], [start |-> 10, bytes |-> 2]}
=============================================================================
