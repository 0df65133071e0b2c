---------------------------- MODULE MCDwarfAlloc ----------------------------
(* DwarfAlloc on a small heap: two chunk types, one with a constructor.     *)
EXTENDS DwarfAllocPool, TLC

(* DIEs come three to a chunk, frames two.                                 *)
StructsPerChunk == [t \in Types |-> IF t \in Constructed THEN 2 ELSE 3]

Symmetry == Permutations(Blocks)
=============================================================================
