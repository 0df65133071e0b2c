--------------------------- MODULE DwarfAllocPool ---------------------------
(***************************************************************************)
(* What the rest of the library sees of the allocator: the structs that    *)
(* are out, by type.  Struct k of a chunk has its address fixed by the     *)
(* chunk and k, so an address is a block and a slot of it.                 *)
(***************************************************************************)
EXTENDS DwarfAlloc

Addresses == Blocks \X UNION {1..ah_structs_per_chunk[t] : t \in Types}

Out == [t \in Types |-> IF status = "closed" THEN {}
                        ELSE {s \in live \cup lost : heap[s[1]] = t}]

Pool == INSTANCE StructPool WITH Handles <- Addresses, held <- Out

(* The allocator hands out and takes back structs as the pool does: what   *)
(* _dwarf_get_alloc() returns nobody holds, and a struct keeps its type.   *)
ImplementsPool == Pool!Spec
=============================================================================
