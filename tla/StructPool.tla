------------------------------ MODULE StructPool ------------------------------
(***************************************************************************)
(* What the struct allocator of src/libdwarf/dwarf_alloc.c promises to the *)
(* rest of the library: a struct that is handed out is one nobody holds,   *)
(* it stays with one type until it is given back, and dwarf_finish() takes *)
(* everything back.  Chunks, free lists and counters are not visible here. *)
(***************************************************************************)
CONSTANTS Types,     \* the allocation types that have a chunk header
          Handles    \* the addresses a struct may have

VARIABLE held        \* held[t]: structs of type t handed out and not given back

Free(h) == \A t \in Types : h \notin held[t]

Init == held = [t \in Types |-> {}]

(* _dwarf_get_alloc() hands out a struct that nobody holds.                *)
Take(t) == \E h \in Handles :
              /\ Free(h)
              /\ held' = [held EXCEPT ![t] = @ \cup {h}]

(* dwarf_dealloc() with the right type takes one struct back.              *)
Give(t) == \E h \in held[t] : held' = [held EXCEPT ![t] = @ \ {h}]

(* dwarf_finish() takes every struct back.                                 *)
GiveAll == held' = [t \in Types |-> {}]

Next == GiveAll \/ \E t \in Types : Take(t) \/ Give(t)

Spec == Init /\ [][Next]_held

(* No struct is held under two types at once.                              *)
OneType == \A t, u \in Types : t # u => held[t] \cap held[u] = {}
===============================================================================
