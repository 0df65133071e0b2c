------------------------------- MODULE CuContext -------------------------------
(***************************************************************************)
(* The compilation unit contexts of one Dwarf_Debug                        *)
(* (src/libdwarf/dwarf_die_deliv.c).                                       *)
(*                                                                         *)
(* dwarf_next_cu_header() walks .debug_info CU by CU, dwarf_offdie() jumps *)
(* to any offset, and both read a CU header at most once, keeping what     *)
(* they read in contexts linked by cc_next: de_cu_context_list holds every *)
(* context, de_offdie_cu_context those dwarf_offdie() made, and both lists *)
(* use the same cc_next.  (dwarf_finish() looks for abbreviation tables on  *)
(* de_cu_context_list only; they are not part of this model.)              *)
(*                                                                         *)
(* The calls of a client are sequential, so a call is one step, except     *)
(* dwarf_offdie()'s loop over the CUs it has to read: one step per CU.     *)
(*                                                                         *)
(* A definition whose name starts with Bug is the next definition with a   *)
(* plausible mistake in it; nothing uses it, it shows that a property can  *)
(* fail.                                                                   *)
(***************************************************************************)
EXTENDS Naturals, Sequences

CONSTANTS CUs,        \* .debug_info: <<[start, length, length_size, extension_size], ...>>
          SimpleHeader, \* _dwarf_length_of_cu_header_simple()
          Wanted      \* the offsets clients give to dwarf_offdie()

(* The bytes of a CU: its length field, which a 64-bit length has an escape   *)
(* before, and what that counts.                                           *)
Total(cu) == cu.length + cu.length_size + cu.extension_size

(* A section of CUs one after the other, each with a DIE after its header.   *)
ASSUME CuAssumption ==
  /\ CUs \in Seq([start : Nat, length : Nat \ {0}, length_size : Nat \ {0},
                  extension_size : Nat])
  /\ CUs # <<>> => CUs[1].start = 0
  /\ \A k \in 1..(Len(CUs) - 1) : CUs[k + 1].start = CUs[k].start + Total(CUs[k])
  /\ SimpleHeader \in Nat \ {0}
  /\ \A k \in 1..Len(CUs) : SimpleHeader < CUs[k].length + CUs[k].length_size
  /\ Wanted \subseteq Nat

(* A context is known by the order in which it was made; 0 is NULL.        *)
VARIABLES
  contexts,          \* <<[start, length, length_size, extension_size,
                     \*    cc_next], ...>>
  de_cu_context, de_cu_context_list, de_cu_context_list_end,
  de_offdie_cu_context, de_offdie_cu_context_end,
  de_info_last_offset,
  pc,                \* "idle", "offdie" (in the loop), or "die" (making a DIE)
  want,              \* the offset of the DIE that was asked for
  new_cu_offset,     \* where the loop is
  cu_context,        \* the context the DIE is made in
  die,               \* the Dwarf_Die of the last call, or NoDie
  failed,            \* the last call reported an error
  short              \* memory ran out in some call since dwarf_init()

heads == <<de_cu_context, de_cu_context_list, de_cu_context_list_end,
           de_offdie_cu_context, de_offdie_cu_context_end>>
lists == <<contexts, de_info_last_offset, heads>>
loop  == <<pc, want, new_cu_offset, cu_context>>
vars  == <<lists, loop, die, failed, short>>

NULL == 0
NoDie == [context |-> NULL, offset |-> 0]

-------------------------------------------------------------------------------
(* The section.                                                            *)

dss_size == IF CUs = <<>> THEN 0 ELSE CUs[Len(CUs)].start + Total(CUs[Len(CUs)])

CuStarts == {CUs[k].start : k \in 1..Len(CUs)}

(* A header can be read only where a CU starts: elsewhere the bytes fail    *)
(* the length, version or abbreviation offset tests.                       *)
Number(offset) == CHOOSE k \in 1..Len(CUs) : CUs[k].start = offset
CuAt(offset) == CUs[Number(offset)]

-------------------------------------------------------------------------------
(* Searching the contexts.                                                 *)

Covers(c, offset) ==
  /\ offset >= contexts[c].start
  /\ offset < contexts[c].start + Total(contexts[c])

(* The contexts from c on: the least set with c that cc_next does not leave.  *)
Follows(S) == \A d \in S : contexts[d].cc_next \in S \cup {NULL}

ChainOf(c) ==
  {d \in 1..Len(contexts) :
     \A S \in SUBSET (1..Len(contexts)) : c \in S /\ Follows(S) => d \in S}

(* cc_next always leads to a context made later, so the first is the oldest.  *)
FirstCovering(c, offset) ==
  LET found == {d \in ChainOf(c) : Covers(d, offset)}
  IN IF c = NULL \/ found = {} THEN NULL ELSE CHOOSE d \in found : \A e \in found : d <= e

(* The shortcuts: the CU after the current one, then the rest of the list   *)
(* from the current one.                                                   *)
BugNextIs(offset) ==
  de_cu_context # NULL /\ contexts[de_cu_context].cc_next # NULL

NextIs(offset) ==
  /\ de_cu_context # NULL
  /\ contexts[de_cu_context].cc_next # NULL
  /\ contexts[contexts[de_cu_context].cc_next].start = offset

FromCurrent(offset) ==
  IF de_cu_context # NULL /\ contexts[de_cu_context].start <= offset
  THEN FirstCovering(de_cu_context, offset) ELSE NULL

find_CU_Context(offset) ==
  IF offset >= de_info_last_offset THEN NULL
  ELSE IF NextIs(offset) THEN contexts[de_cu_context].cc_next
  ELSE IF FromCurrent(offset) # NULL THEN FromCurrent(offset)
  ELSE FirstCovering(de_cu_context_list, offset)

find_offdie_CU_Context(offset) ==
  FirstCovering(de_offdie_cu_context, offset)
-------------------------------------------------------------------------------
Init ==
  /\ contexts = <<>> /\ de_info_last_offset = 0
  /\ de_cu_context = NULL /\ de_cu_context_list = NULL
  /\ de_cu_context_list_end = NULL
  /\ de_offdie_cu_context = NULL /\ de_offdie_cu_context_end = NULL
  /\ pc = "idle" /\ want = 0 /\ new_cu_offset = 0 /\ cu_context = NULL
  /\ die = NoDie /\ failed = FALSE /\ short = FALSE

BugSelfLink(c) == c

(* cc_next of a context that was just appended as c.                       *)
NewNext(c) == NULL

BugKeepEnd(c) == IF de_cu_context_list_end = NULL THEN c ELSE de_cu_context_list_end

NewListEnd(c) == c

(* Append a context for the CU at offset; `after' are the contexts besides  *)
(* de_cu_context_list_end whose cc_next the caller then points at it.      *)
make_CU_Context(offset, after) ==
  LET c   == Len(contexts) + 1
      cu  == CuAt(offset)
      new == [start |-> offset, length |-> cu.length, length_size |-> cu.length_size,
              extension_size |-> cu.extension_size, cc_next |-> NewNext(c)]
      linked == [d \in 1..Len(contexts) |->
                   IF d \in after \cup {de_cu_context_list_end}
                   THEN [contexts[d] EXCEPT !.cc_next = c] ELSE contexts[d]]
  IN /\ contexts' = Append(linked, new)
     /\ de_info_last_offset' = offset + Total(cu)
     /\ de_cu_context_list' =
          IF de_cu_context_list = NULL THEN c ELSE de_cu_context_list
     /\ de_cu_context_list_end' = NewListEnd(c)

EndOf(c) == IF c = NULL THEN 0 ELSE contexts[c].start + Total(contexts[c])

NoRoom(offset) == offset + SimpleHeader >= dss_size

(* The call reports an error; it may be that memory ran out.               *)
Fail(is_short) ==
  /\ pc' = "idle" /\ die' = NoDie /\ failed' = TRUE
  /\ short' = (short \/ is_short)
  /\ UNCHANGED <<lists, want, new_cu_offset, cu_context>>

Succeed == die' = NoDie /\ failed' = FALSE /\ UNCHANGED short

(* dwarf_next_cu_header(): at the end of the section the walk starts over.  *)
NextCuAtEnd ==
  /\ pc = "idle" /\ NoRoom(EndOf(de_cu_context))
  /\ de_cu_context' = NULL
  /\ Succeed
  /\ UNCHANGED <<contexts, de_info_last_offset, de_cu_context_list,
                 de_cu_context_list_end, de_offdie_cu_context,
                 de_offdie_cu_context_end, loop>>

NextCuFound ==
  LET c == find_CU_Context(EndOf(de_cu_context))
  IN /\ pc = "idle" /\ ~NoRoom(EndOf(de_cu_context)) /\ c # NULL
     /\ de_cu_context' = c
     /\ Succeed
     /\ UNCHANGED <<contexts, de_info_last_offset, de_cu_context_list,
                    de_cu_context_list_end, de_offdie_cu_context,
                    de_offdie_cu_context_end, loop>>

NextCuRead ==
  LET offset == EndOf(de_cu_context)
  IN /\ pc = "idle" /\ ~NoRoom(offset) /\ find_CU_Context(offset) = NULL
     /\ \/ /\ make_CU_Context(offset, {})
           /\ de_cu_context' = Len(contexts')
           /\ Succeed
           /\ UNCHANGED <<de_offdie_cu_context, de_offdie_cu_context_end, loop>>
        \/ Fail(TRUE)

(* dwarf_offdie(): look in both lists, then read on from the last CU that   *)
(* an earlier call of it read.                                             *)
Offdie(offset) ==
  LET c == find_CU_Context(offset)
      d == IF c # NULL THEN c ELSE find_offdie_CU_Context(offset)
  IN /\ pc = "idle"
     /\ pc' = IF d # NULL THEN "die" ELSE "offdie"
     /\ want' = offset /\ cu_context' = d
     /\ new_cu_offset' = EndOf(de_offdie_cu_context_end)
     /\ Succeed
     /\ UNCHANGED lists

(* One turn of the loop.  The next offset leaves out cc_extension_size.     *)
OffdieRead ==
  LET c == Len(contexts) + 1
  IN /\ pc = "offdie" /\ ~NoRoom(new_cu_offset) /\ new_cu_offset \in CuStarts
     /\ make_CU_Context(new_cu_offset, {de_offdie_cu_context_end})
     /\ de_offdie_cu_context' =
          IF de_offdie_cu_context = NULL THEN c ELSE de_offdie_cu_context
     /\ de_offdie_cu_context_end' = c
     /\ cu_context' = c
     /\ new_cu_offset' = new_cu_offset + CuAt(new_cu_offset).length
                                       + CuAt(new_cu_offset).length_size
     /\ pc' = IF want >= new_cu_offset' THEN "offdie" ELSE "die"
     /\ UNCHANGED <<de_cu_context, want, die, failed, short>>

BugRetryForever ==
  /\ pc = "offdie" /\ (NoRoom(new_cu_offset) \/ new_cu_offset \notin CuStarts)
  /\ UNCHANGED vars

OffdieReadFails ==
  /\ pc = "offdie"
  /\ IF NoRoom(new_cu_offset) \/ new_cu_offset \notin CuStarts
     THEN Fail(FALSE) ELSE Fail(TRUE)

(* dwarf_siblingof() with no DIE: the first DIE of the current CU.          *)
FirstDie ==
  /\ pc = "idle"
  /\ \/ de_cu_context = NULL /\ Fail(FALSE)
     \/ /\ de_cu_context # NULL
        /\ pc' = "die" /\ want' = contexts[de_cu_context].start + SimpleHeader
                     + contexts[de_cu_context].extension_size
        /\ cu_context' = de_cu_context
        /\ Succeed
        /\ UNCHANGED <<lists, new_cu_offset>>

(* The DIE at `want'; a null DIE gives no entry.                            *)
MakeDie ==
  /\ pc = "die"
  /\ \/ /\ pc' = "idle"
        /\ die' = [context |-> cu_context, offset |-> want]
        /\ UNCHANGED <<lists, want, new_cu_offset, cu_context, failed, short>>
     \/ /\ pc' = "idle"
        /\ UNCHANGED <<lists, want, new_cu_offset, cu_context, die, failed, short>>
     \/ Fail(TRUE)

(* dwarf_finish() frees all contexts, on a list or not, with their chunks.   *)
Finish ==
  /\ pc = "idle"
  /\ contexts' = <<>> /\ de_info_last_offset' = 0
  /\ de_cu_context' = NULL /\ de_cu_context_list' = NULL
  /\ de_cu_context_list_end' = NULL
  /\ de_offdie_cu_context' = NULL /\ de_offdie_cu_context_end' = NULL
  /\ want' = 0 /\ new_cu_offset' = 0 /\ cu_context' = NULL
  /\ die' = NoDie /\ failed' = FALSE /\ short' = FALSE
  /\ UNCHANGED pc

Calls ==
  \/ NextCuAtEnd \/ NextCuFound \/ NextCuRead \/ FirstDie \/ Finish
  \/ \E offset \in Wanted : Offdie(offset)

Inside == OffdieRead \/ OffdieReadFails \/ MakeDie

Next == Calls \/ Inside

(* A call that was started returns: it runs to its end in one thread.       *)
Spec == Init /\ [][Next]_vars /\ WF_vars(Inside)

-------------------------------------------------------------------------------
(* Properties.                                                             *)

Contexts == 0..Len(contexts)

(* Every variable has its type; cc_next leads to a context made later, so   *)
(* that no list has a cycle however its nodes were spliced.                *)
TypeOK ==
  /\ \A c \in 1..Len(contexts) :
       /\ contexts[c].start \in CuStarts
       /\ contexts[c].cc_next \in Contexts
       /\ contexts[c].cc_next # NULL => contexts[c].cc_next > c
  /\ \A i \in 1..5 : heads[i] \in Contexts
  /\ cu_context \in Contexts /\ die.context \in Contexts
  /\ de_info_last_offset <= dss_size
  /\ pc \in {"idle", "offdie", "die"}
  /\ {failed, short} \subseteq BOOLEAN

CuNumber(c) == IF c = NULL THEN 0 ELSE Number(contexts[c].start)

(* Whatever dwarf_offdie() and dwarf_siblingof() calls come between, and    *)
(* whichever fail, dwarf_next_cu_header() goes from each CU to the next    *)
(* one, and after the last CU back to the start.                           *)
WalksOn ==
  CuNumber(de_cu_context)' # CuNumber(de_cu_context) /\ contexts' # <<>>
    => CuNumber(de_cu_context)' = (CuNumber(de_cu_context) + 1) % (Len(CUs) + 1)

WalkInOrder == [][WalksOn]_vars

(* A DIE is given the context of the CU its offset is in: its forms are     *)
(* decoded with that CU's abbreviations and sizes.                         *)
DieInItsContext ==
  die # NoDie => \E k \in 1..Len(CUs) :
    /\ contexts[die.context].start = CUs[k].start
    /\ CUs[k].start <= die.offset /\ die.offset < CUs[k].start + Total(CUs[k])

(* No CU in 64-bit DWARF: dwarf_offdie() leaves its escape out and loses the  *)
(* next CU.                                                                *)
NoEscape == \A k \in 1..Len(CUs) : CUs[k].extension_size = 0

(* A call of the loop in dwarf_offdie() ends: new_cu_offset always moves.   *)
CallsReturn == pc # "idle" ~> pc = "idle"

(* While memory lasts, a CU that was read is found again, whichever call    *)
(* read it: no splice of the shared cc_next links and no later             *)
(* de_info_last_offset hides it.  (After a dwarf_offdie() that ran out of  *)
(* memory in its loop, de_info_last_offset may hide a CU the walk read.)   *)
ReadIsFound ==
  NoEscape /\ pc = "idle" /\ ~short =>
    \A c \in 1..Len(contexts) : find_CU_Context(contexts[c].start) # NULL

(* While memory lasts, dwarf_offdie() delivers for every offset in the      *)
(* section.                                                                *)
Delivers == NoEscape /\ pc # "idle" /\ want < dss_size /\ ~short' => ~failed'

OffdieDelivers == [][Delivers]_vars

(* Whatever calls come between and whichever fail, a DIE is in the context   *)
(* of its CU, and no CU that was read is lost.                              *)
ContextsRight == DieInItsContext /\ ReadIsFound

(* Both ways to come to a CU deliver: the walk in order, and, while memory    *)
(* lasts, the search for an offset.                                        *)
CusAreReached == WalkInOrder /\ OffdieDelivers
===============================================================================
