------------------------------ MODULE DieReader ------------------------------
(***************************************************************************)
(* The tree of DIEs in the bytes of one CU: dwarf_siblingof() and           *)
(* dwarf_child() (src/libdwarf/dwarf_die_deliv.c).                         *)
(*                                                                         *)
(* The bytes hold the DIEs in depth-first order, a null DIE after the last *)
(* of each list of siblings.  A pointer is an offset in the CU, and an      *)
(* entry of `section' is what stands at one: a DIE or a null, with the      *)
(* children flag of its abbreviation and the DW_AT_sibling it may have.    *)
(* dwarf_siblingof() skips the children of a DIE entry by entry, counting  *)
(* their depth, so it is one step per turn of its loop.                    *)
(*                                                                         *)
(* A definition whose name starts with Bug is the next definition with a   *)
(* plausible mistake in it; nothing uses it, it shows that a property can  *)
(* fail.                                                                   *)
(***************************************************************************)
EXTENDS Integers, Sequences

CONSTANTS NoSibling,   \* the DIE has no DW_AT_sibling
          NULL

VARIABLES
  section,        \* <<[off, size, null, children, sibling, die], ...>>
  die_info_end,   \* one past the last byte of the CU
  rpc,            \* "closed" (no section yet), "idle", or "sibling" (in the loop)
  die,            \* the offset of the Dwarf_Die the client has
  die_info_ptr, child_depth,
  result          \* of the last call: [call, of, value]

rvars == <<section, die_info_end, rpc, die, die_info_ptr, child_depth, result>>

-------------------------------------------------------------------------------
(* What is at an offset.                                                   *)

EntryAt(off) == section[CHOOSE i \in DOMAIN section : section[i].off = off]

IsNull(off) == off < die_info_end /\ EntryAt(off).null

(* _dwarf_next_die_info_ptr(): the entry after the DIE at p, or the one its *)
(* DW_AT_sibling leads to, and whether its children come next.             *)
next_die_info_ptr(p, want_AT_sibling) ==
  LET e == EntryAt(p)
  IN IF e.null THEN [ptr |-> NULL, has_die_child |-> FALSE]
     ELSE IF want_AT_sibling /\ e.sibling # NoSibling
     THEN [ptr |-> IF e.sibling > die_info_end THEN NULL ELSE e.sibling,
           has_die_child |-> FALSE]
     ELSE [ptr |-> IF e.off + e.size > die_info_end THEN NULL ELSE e.off + e.size,
           has_die_child |-> e.children]

(* A list of children that is only a null is stepped over.                 *)
BugNotSkipped(n) == n

SkipEmptyList(n) ==
  IF n.has_die_child /\ n.ptr < die_info_end /\ IsNull(n.ptr)
  THEN [ptr |-> n.ptr + 1, has_die_child |-> FALSE] ELSE n

(* The null entries at p, each of which ends one of the depth lists that    *)
(* are open.  Where the lists of the CU are all ended, none is left at its  *)
(* end.                                                                    *)
BugOneTooMany(p, depth) ==
  CHOOSE k \in 0..(depth + 1) :
    /\ \A j \in 0..(k - 1) : IsNull(p + j)
    /\ k = depth + 1 \/ ~IsNull(p + k)

NullsAt(p, depth) ==
  CHOOSE k \in 0..depth :
    /\ \A j \in 0..(k - 1) : IsNull(p + j)
    /\ k = depth \/ ~IsNull(p + k)

-------------------------------------------------------------------------------
(* The calls.                                                              *)

NoCall == [call |-> "none", of |-> 0, outcome |-> "ok", value |-> 0]

ReaderInit == /\ rpc = "closed" /\ section = <<>> /\ die_info_end = 0
              /\ die = 0 /\ die_info_ptr = 0 /\ child_depth = 0
              /\ result = NoCall

(* The client goes on with the DIE it gets, if it gets one.                 *)
Return(call, outcome, off) ==
  /\ result' = [call |-> call, of |-> die, outcome |-> outcome, value |-> off]
  /\ die' = IF outcome = "ok" THEN off ELSE die
  /\ rpc' = "idle" /\ die_info_ptr' = 0 /\ child_depth' = 0

(* A Dwarf_Die for the entry at p: none for a null, and an error when there *)
(* is no memory for it or its abbreviation.                                *)
MakeDie(call, p) ==
  IF IsNull(p) THEN Return(call, "no_entry", 0)
  ELSE Return(call, "ok", p) \/ Return(call, "error", 0)

(* dwarf_siblingof(NULL): the DIE after the CU header.                     *)
Open(entries, end) ==
  /\ rpc = "closed"
  /\ section' = entries /\ die_info_end' = end
  /\ die' = entries[1].off /\ rpc' = "idle"
  /\ UNCHANGED <<die_info_ptr, child_depth, result>>

SiblingCall ==
  /\ rpc = "idle"
  /\ rpc' = "sibling" /\ die_info_ptr' = die /\ child_depth' = 0
  /\ UNCHANGED <<section, die_info_end, die, result>>

(* The pointer and the depth after one turn of the loop.                   *)
AfterTurn ==
  LET n == SkipEmptyList(next_die_info_ptr(die_info_ptr, TRUE))
      k == NullsAt(n.ptr, child_depth)
  IN IF n.ptr = die_info_end \/ IsNull(n.ptr)
     THEN [ptr |-> n.ptr + k, depth |-> child_depth - k]
     ELSE [ptr |-> n.ptr, depth |-> IF n.has_die_child THEN child_depth + 1 ELSE child_depth]

(* There is no memory for the abbreviation of an entry.                    *)
SiblingFails ==
  /\ rpc = "sibling"
  /\ Return("sibling", "error", 0)
  /\ UNCHANGED <<section, die_info_end>>

SiblingTurn ==
  /\ rpc = "sibling"
  /\ IF next_die_info_ptr(die_info_ptr, TRUE).ptr = NULL
     THEN Return("sibling", "error", 0)
     ELSE IF AfterTurn.depth # 0
     THEN /\ die_info_ptr' = AfterTurn.ptr /\ child_depth' = AfterTurn.depth
          /\ UNCHANGED <<rpc, die, result>>
     ELSE IF AfterTurn.ptr >= die_info_end THEN Return("sibling", "no_entry", 0)
     ELSE MakeDie("sibling", AfterTurn.ptr)
  /\ UNCHANGED <<section, die_info_end>>

(* dwarf_child() has no test for the end of the CU.                         *)
Child ==
  /\ rpc = "idle"
  /\ LET n == next_die_info_ptr(die, FALSE)
     IN \/ Return("child", "error", 0)
        \/ /\ n.ptr # NULL
           /\ IF ~n.has_die_child THEN Return("child", "no_entry", 0)
              ELSE MakeDie("child", n.ptr)
  /\ UNCHANGED <<section, die_info_end>>

ReaderNext == SiblingCall \/ SiblingTurn \/ SiblingFails \/ Child

-------------------------------------------------------------------------------
(* The tree in a section, read off its nesting.                            *)

(* How many lists of siblings are open before each entry of s, and after.   *)
Level(s) ==
  LET L[i \in 1..(Len(s) + 1)] ==
        IF i = 1 THEN 0
        ELSE L[i - 1] + (IF s[i - 1].null THEN -1 ELSE IF s[i - 1].children THEN 1 ELSE 0)
  IN L

(* The next entry of the list that entry i is in, 0 for none.              *)
NextInList(s, i) ==
  LET L == Level(s)
      after == {j \in (i + 1)..Len(s) :
                  L[j] <= L[i] /\ \A m \in (i + 1)..(j - 1) : L[m] > L[i]}
  IN IF after = {} THEN 0 ELSE CHOOSE j \in after : TRUE

(* Whose child entry i is, 0 for nobody's.                                 *)
ParentEntry(s, i) ==
  LET L == Level(s)
      before == {j \in 1..(i - 1) : L[j] < L[i] /\ \A m \in (j + 1)..(i - 1) : L[m] >= L[i]}
  IN IF before = {} THEN 0 ELSE CHOOSE j \in before : TRUE

(* What a call gives for entry i when nothing fails: an entry, or 0.        *)
EntryOrNone(s, i) == IF i = 0 \/ i > Len(s) THEN 0 ELSE IF s[i].null THEN 0 ELSE i

SiblingOf(s, i) == EntryOrNone(s, NextInList(s, i))

ChildOf(s, i) == IF s[i].children THEN EntryOrNone(s, i + 1) ELSE 0
===============================================================================
