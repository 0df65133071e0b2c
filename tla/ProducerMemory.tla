----------------------------- MODULE ProducerMemory -----------------------------
(***************************************************************************)
(* The memory of the producer (src/libdwarf/pro_alloc.c): every block has   *)
(* a list node in front of it, and the nodes of a Dwarf_P_Debug, its own    *)
(* included, are a circular doubly linked list, so that a block is taken    *)
(* out without the Dwarf_P_Debug and all of them are found at the end.      *)
(*                                                                         *)
(* Blocks are numbered in the order they are made; DBG is the first.  A     *)
(* memory is a record:                                                     *)
(*   next, prev  the nodes, of the blocks that are allocated               *)
(*   made        how many blocks were ever made                            *)
(*   left        how many malloc()s succeed before one fails; -1: all do   *)
(***************************************************************************)
EXTENDS Integers, SequencesExt

CONSTANT NULL

ASSUME NullAssumption == NULL \notin Nat

DBG == 1

(* What dwarf_producer_init() begins with: the node of the Dwarf_P_Debug.   *)
NewMemory == [next |-> DBG :> DBG, prev |-> DBG :> DBG, made |-> DBG, left |-> -1]

(* A node between that of the Dwarf_P_Debug and the one after it; with no   *)
(* Dwarf_P_Debug, in a list of its own.                                    *)
Inserted(mem, b, dbg) ==
  LET first == mem.next[DBG]
  IN IF dbg = NULL
     THEN [mem EXCEPT !.next = (b :> b) @@ @, !.prev = (b :> b) @@ @]
     ELSE [mem EXCEPT !.next = (DBG :> b) @@ (b :> first) @@ @,
                      !.prev = (first :> b) @@ (b :> DBG) @@ @]

(* _dwarf_p_get_alloc(): the memory after it; the block is `made', if there *)
(* is one.                                                                 *)
get_alloc(mem, dbg) ==
  IF mem.left = 0 THEN [mem EXCEPT !.left = -1]
  ELSE Inserted([mem EXCEPT !.made = @ + 1, !.left = IF @ > 0 THEN @ - 1 ELSE @],
                mem.made + 1, dbg)

Without(f, b) == [x \in DOMAIN f \ {b} |-> f[x]]

BugOneWay(mem, b) ==
  [mem EXCEPT !.next = Without((mem.prev[b] :> mem.next[b]) @@ @, b),
              !.prev = Without(@, b)]

(* The node of b is taken out of its list.                                 *)
Unlinked(mem, b) ==
  [mem EXCEPT !.next = Without((mem.prev[b] :> mem.next[b]) @@ @, b),
              !.prev = Without((mem.next[b] :> mem.prev[b]) @@ @, b)]

(* _dwarf_p_dealloc()                                                      *)
dealloc(mem, b) == Unlinked(mem, b)

(* _dwarf_p_dealloc_all(): what is still in the list of the Dwarf_P_Debug,  *)
(* one after the other, and then the Dwarf_P_Debug.                        *)
dealloc_all(mem) ==
  LET emptied == FoldLeft(LAMBDA m, i : IF m.next[DBG] = DBG THEN m
                                        ELSE dealloc(m, m.next[DBG]),
                          mem, [i \in 1..mem.made |-> i])
  IN IF emptied.next[DBG] # DBG \/ emptied.prev[DBG] # DBG THEN emptied
     ELSE dealloc(emptied, DBG)
===============================================================================
